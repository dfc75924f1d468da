--------------------------- MODULE ThemeProvider ---------------------------
(***************************************************************************)
(* The colour theme of a tab: the state of ThemeProvider.tsx, the          *)
(* data-theme attribute that globals.css goes by, what localStorage keeps, *)
(* and the script of layout.tsx that sets the attribute before React runs. *)
(* Tabs share localStorage; none listens to the others.                    *)
(***************************************************************************)
EXTENDS Naturals, Sequences

VARIABLES saved,        \* localStorage: the choice kept, or "system" for none
          usable,       \* whether the browser allows localStorage at all
          machineDark,  \* prefers-color-scheme of the machine
          due,          \* a change of it waits for the listener
          hydrated,     \* the mount effects have run
          theme, systemDark,  \* the state
          attr,         \* data-theme, or "none"
          torn,         \* history: "system" chosen in vain, or another tab's choice
                        \* stored between the script and the mount effects
          chosen, kept  \* history: the last choice of this tab, and whether it
                        \* is what localStorage keeps

vars == <<saved, usable, machineDark, due, hydrated, theme, systemDark, attr,
          torn, chosen, kept>>

Palette(t, dark) == IF t \in {"light", "dark"} THEN t ELSE IF dark THEN "dark" ELSE "light"

\* What the style sheet shows, and what the provider says it shows.
Rendered == Palette(attr, machineDark)
resolved == Palette(theme, systemDark)

Stored == IF usable THEN saved ELSE "system"

\* themeInitScript: only a stored choice sets the attribute.
InitScript == attr' = IF Stored \in {"light", "dark"} THEN Stored ELSE "none"

Init ==
  /\ saved \in {"light", "dark", "system"} /\ usable \in BOOLEAN
  /\ machineDark \in BOOLEAN /\ due = FALSE /\ hydrated = FALSE
  /\ theme = "system" /\ systemDark = FALSE /\ torn = FALSE
  /\ attr = IF Stored \in {"light", "dark"} THEN Stored ELSE "none"
  /\ chosen = Stored /\ kept = TRUE

\* A page load, up to the first paint.
Load ==
  /\ InitScript
  /\ hydrated' = FALSE /\ theme' = "system" /\ systemDark' = FALSE /\ due' = FALSE
  /\ torn' = FALSE
  /\ chosen' = (IF kept THEN chosen ELSE Stored) /\ kept' = TRUE
  /\ UNCHANGED <<saved, usable, machineDark>>

\* The mount effects adopt the stored choice and the preference of the machine.
Hydrate ==
  /\ ~ hydrated /\ hydrated' = TRUE
  /\ theme' = Stored /\ systemDark' = machineDark
  /\ UNCHANGED <<saved, usable, machineDark, due, attr, torn, chosen, kept>>

\* The machine changes its preference; the listener hears of it later.
MachineChanges ==
  /\ machineDark' = ~ machineDark /\ due' = hydrated
  /\ UNCHANGED <<saved, usable, hydrated, theme, systemDark, attr, torn, chosen, kept>>

OnChange ==
  /\ due /\ due' = FALSE /\ systemDark' = machineDark
  /\ UNCHANGED <<saved, usable, machineDark, hydrated, theme, attr, torn, chosen, kept>>

\* Mutant: only what could be stored is applied.
SetThemeStoredOnly(next) ==
  /\ theme' = next /\ chosen' = next
  /\ \/ /\ usable /\ saved' = next
        /\ attr' = (IF next = "system" THEN "none" ELSE next)
        /\ torn' = FALSE /\ kept' = TRUE
     \/ /\ ~ (usable /\ next = "system") /\ UNCHANGED <<saved, attr>>
        /\ torn' = (next = "system") /\ kept' = FALSE

\* Mutant: the choice that was stored before "system" is not removed.
SetThemeUnremoved(next) ==
  /\ theme' = next /\ chosen' = next
  /\ saved' = IF next = "system" THEN saved ELSE next
  /\ attr' = (IF next = "system" THEN "none" ELSE next)
  /\ torn' = FALSE /\ kept' = TRUE

\* setTheme: the choice is stored and the attribute follows it.  Where storing
\* throws, the attribute of a colour is set all the same, that of an earlier
\* colour is not removed; setItem may throw for want of room, too.
SetTheme(next) ==
  /\ theme' = next /\ chosen' = next
  /\ \/ /\ usable /\ saved' = next
        /\ attr' = (IF next = "system" THEN "none" ELSE next)
        /\ torn' = FALSE /\ kept' = TRUE
     \/ /\ next = "system" /\ ~ usable /\ UNCHANGED <<saved, attr>>
        /\ torn' = (attr # "none") /\ kept' = FALSE
     \/ /\ next # "system" /\ attr' = next
        /\ UNCHANGED saved /\ torn' = FALSE /\ kept' = FALSE

Order == <<"light", "dark", "system">>

\* The button of ThemeToggle.tsx.
CycleTheme ==
  /\ hydrated
  /\ \E i \in 1..3 : Order[i] = theme /\ SetTheme(Order[(i % 3) + 1])
  /\ UNCHANGED <<usable, machineDark, due, hydrated, systemDark>>

\* Another tab makes its choice.
OtherTab ==
  /\ usable /\ \E t \in {"light", "dark", "system"} : t # saved /\ saved' = t
  /\ kept' = FALSE /\ torn' = (torn \/ ~ hydrated)
  /\ UNCHANGED <<usable, machineDark, due, hydrated, theme, systemDark, attr, chosen>>

Next == Load \/ Hydrate \/ MachineChanges \/ OnChange \/ CycleTheme \/ OtherTab
Spec == Init /\ [][Next]_vars

----------------------------------------------------------------------------
\* "The theme actually being rendered" (ThemeProvider.tsx:10): what the provider
\* resolves is what the style sheet shows, whatever was stored, refused or
\* changed by the machine; but not after "system" was chosen and the storage was
\* refused, nor when another tab stored its choice while this one was loading.
ThemeIsRendered == hydrated /\ ~ due /\ ~ torn => resolved = Rendered

\* "Reload; the choice sticks with no flash of the wrong theme" (README.md:377):
\* a choice that was stored and that no other tab has replaced is shown from the
\* first paint of every later page, before React runs and after.
ChoiceSticks == kept /\ ~ torn => Rendered = Palette(chosen, machineDark)
============================================================================
