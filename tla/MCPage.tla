------------------------------- MODULE MCPage -------------------------------
(***************************************************************************)
(* Small instances of SignInPage and ThemeProvider for TLC.  Neither reads *)
(* a variable of the other: a behaviour works on one of them, chosen at    *)
(* the start, and leaves the other as it began.                            *)
(***************************************************************************)
EXTENDS SignInPage

VARIABLES part, saved, usable, machineDark, due, hydrated, theme, systemDark, attr, torn,
          chosen, kept

colours == <<saved, usable, machineDark, due, hydrated, theme, systemDark, attr, torn,
             chosen, kept>>

Theme == INSTANCE ThemeProvider

PageInit ==
  /\ part \in {"page", "theme"} /\ Init /\ Theme!Init
  /\ part = "page" => saved = "system" /\ usable /\ ~ machineDark
  /\ part = "theme" => reachable

PageNext ==
  \/ part = "page" /\ Next /\ UNCHANGED <<part, colours>>
  \/ part = "theme" /\ Theme!Next /\ UNCHANGED <<part, vars>>

\* The fairness of SignInPage holds of the part that is worked on.
PageSpec == PageInit /\ [][PageNext]_<<part, vars, colours>> /\ (part = "page" => Fairness)

ThemeIsRendered == Theme!ThemeIsRendered
ChoiceSticks == Theme!ChoiceSticks
============================================================================
