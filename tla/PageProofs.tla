----------------------------- MODULE PageProofs -----------------------------
(***************************************************************************)
(* Theorems about the form of the sign-in page, for any accounts and any   *)
(* number of attempts, and about the colour theme.                         *)
(***************************************************************************)
EXTENDS MCPage, FiniteSetTheorems, TLAPS

Mode == {"signin", "signup"}
Form == [mode : Mode, error : Mode \cup {NoError}, busy : BOOLEAN]
AnAttempt == [mode : Mode \cup {NoError}, account : User \cup {NoUser}, here : BOOLEAN]

\* Where no form is on the screen none is kept, and no attempt has one; the form on the
\* screen is busy with one attempt or with none, and shows no error meanwhile.
PageInv ==
  /\ isReady \in BOOLEAN /\ user \in User \cup {NoUser}
  /\ form \in Form /\ attempt \in [Attempt -> AnAttempt]
  /\ ~ isReady => user = NoUser
  /\ screen # "auth" => form = Blank
  /\ form.busy <=> \E a \in Attempt : attempt[a].here
  /\ \A a, b \in Attempt : attempt[a].here /\ attempt[b].here => a = b
  /\ form.busy => form.error = NoError

\* The attempts of a form that goes are without one: the account that comes takes it away,
\* and where there is none yet there was no form.
LEMMA HomeLeaves ==
  ASSUME PageInv, NEW u \in User \cup {NoUser}, Home(u),
         NEW attempts \in [Attempt -> AnAttempt], attempt' = Left(u, attempts),
         u = NoUser => screen # "auth" /\ attempts = attempt
  PROVE  PageInv'
<1>1. isReady' = TRUE /\ user' = u /\ form' = Blank
  BY DEF Home
<1>2. Blank \in Form /\ Blank.busy = FALSE
  BY DEF Blank, Form, Mode, NoError
<1>3. attempt' \in [Attempt -> AnAttempt] /\ \A a \in Attempt : attempt'[a].here = FALSE
  <2>1. CASE u = NoUser
    <3>1. attempt' = [a \in Attempt |-> attempt[a]] /\ attempt \in [Attempt -> AnAttempt]
      BY <2>1 DEF Left, PageInv
    <3>2. attempt' = attempt
      BY <3>1
    <3>3. \A a \in Attempt : attempt[a].here = FALSE
      <4>1. form.busy = FALSE
        BY <1>2, <2>1 DEF PageInv
      <4>2. \A a \in Attempt : attempt[a].here \in BOOLEAN
        BY DEF PageInv, AnAttempt
      <4> QED
        BY <4>1, <4>2 DEF PageInv
    <3> QED
      BY <3>1, <3>2, <3>3
  <2>2. CASE u # NoUser
    <3>1. attempt' = [a \in Attempt |-> IF attempts[a] # NoAttempt
                        THEN [attempts[a] EXCEPT !.here = FALSE] ELSE attempts[a]]
      BY <2>2 DEF Left
    <3>2. ASSUME NEW a \in Attempt PROVE attempt'[a] \in AnAttempt /\ attempt'[a].here = FALSE
      <4>1. attempts[a] \in AnAttempt
        OBVIOUS
      <4>2. CASE attempts[a] = NoAttempt
        BY <3>1, <4>1, <4>2 DEF NoAttempt
      <4>3. CASE attempts[a] # NoAttempt
        BY <3>1, <4>1, <4>3 DEF AnAttempt
      <4> QED
        BY <4>2, <4>3
    <3> QED
      BY <3>1, <3>2
  <2> QED
    BY <2>1, <2>2
<1>4. screen' = IF u = NoUser THEN "auth" ELSE "chat"
  BY <1>1 DEF screen
<1> QED
  BY <1>1, <1>2, <1>3 DEF PageInv

\* Steps that touch neither the session nor the form.
LEMMA ElsewhereKeeps ==
  ASSUME PageInv, UNCHANGED <<session, form, attempt>>
  PROVE  PageInv'
BY DEF PageInv, session, screen

\* The link under the form.
LEMMA SwitchKeeps ==
  ASSUME PageInv, SwitchMode
  PROVE  PageInv'
<1>1. /\ form' = [mode |-> IF form.mode = "signin" THEN "signup" ELSE "signin",
                  error |-> NoError, busy |-> form.busy]
      /\ isReady' = isReady /\ user' = user /\ attempt' = attempt /\ screen = "auth"
  BY DEF SwitchMode, session
<1>2. screen' = "auth"
  BY <1>1 DEF screen
<1>3. form' \in Form /\ form'.busy = form.busy /\ form'.error = NoError
  BY <1>1 DEF PageInv, Form, Mode
<1> QED
  BY <1>1, <1>2, <1>3 DEF PageInv

\* The button is on only while no attempt has this form.
LEMMA SubmitKeeps ==
  ASSUME PageInv, NEW a \in Attempt, NEW u \in Fields, HandleSubmit(a, u)
  PROVE  PageInv'
<1>1. /\ form' = [mode |-> form.mode, error |-> NoError, busy |-> TRUE]
      /\ attempt' = [attempt EXCEPT ![a] = [mode |-> form.mode, account |-> u, here |-> TRUE]]
      /\ isReady' = isReady /\ user' = user /\ screen = "auth" /\ ~ form.busy
  BY DEF HandleSubmit, SubmitButton, session
<1>2. screen' = "auth"
  BY <1>1 DEF screen
<1>3. form' \in Form /\ form'.busy = TRUE /\ form'.error = NoError
  BY <1>1 DEF PageInv, Form
<1>4. attempt' \in [Attempt -> AnAttempt]
  BY <1>1 DEF PageInv, AnAttempt, Fields, Form
<1>5. /\ attempt'[a].here = TRUE
      /\ \A b \in Attempt : b # a => attempt'[b] = attempt[b] /\ ~ attempt[b].here
  BY <1>1 DEF PageInv
<1> QED
  BY <1>1, <1>2, <1>3, <1>4, <1>5 DEF PageInv

\* The attempt that fails gives the button back, if its form is there.
LEMMA FailKeeps ==
  ASSUME PageInv, NEW a \in Attempt, Fails(a)
  PROVE  PageInv'
<1>1. /\ form' = IF attempt[a].here
                 THEN [mode |-> form.mode, error |-> attempt[a].mode, busy |-> FALSE] ELSE form
      /\ attempt' = [attempt EXCEPT ![a] = NoAttempt]
      /\ isReady' = isReady /\ user' = user /\ screen' = screen
  BY DEF Fails, session, screen
<1>2. NoAttempt \in AnAttempt /\ NoAttempt.here = FALSE
  BY DEF NoAttempt, AnAttempt
<1>3. /\ attempt' \in [Attempt -> AnAttempt] /\ attempt'[a].here = FALSE
      /\ \A b \in Attempt : b # a => attempt'[b] = attempt[b]
  BY <1>1, <1>2 DEF PageInv
<1>4. CASE attempt[a].here
  <2>1. form.busy /\ \A b \in Attempt : b # a => ~ attempt[b].here
    BY <1>4 DEF PageInv
  <2>2. screen = "auth"
    BY <2>1 DEF PageInv, Blank
  <2>3. form' \in Form /\ form'.busy = FALSE
    BY <1>1, <1>4 DEF PageInv, Form, AnAttempt
  <2> QED
    BY <1>1, <1>3, <2>1, <2>2, <2>3 DEF PageInv
<1>5. CASE ~ attempt[a].here
  <2>1. form' = form
    BY <1>1, <1>5
  <2>2. \A b \in Attempt : attempt'[b].here <=> attempt[b].here
    BY <1>3, <1>5
  <2> QED
    BY <1>1, <1>3, <2>1, <2>2 DEF PageInv
<1> QED
  BY <1>4, <1>5

\* One step per action.
LEMMA PageStep == ASSUME PageInv, [Next]_vars PROVE PageInv'
<1>1. ASSUME NEW u \in User \cup {NoUser}, SessionChanges(u) PROVE PageInv'
  <2>1. Home(u) /\ attempt' = Left(u, attempt) /\ (~ isReady \/ u # user)
    BY <1>1 DEF SessionChanges
  <2>2. u = NoUser => screen # "auth"
    BY <2>1 DEF screen
  <2>3. attempt \in [Attempt -> AnAttempt]
    BY DEF PageInv
  <2> QED
    BY <2>1, <2>2, <2>3, HomeLeaves
<1>2. CASE SwitchMode
  BY <1>2, SwitchKeeps
<1>3. CASE GatewayChanges
  BY <1>3, ElsewhereKeeps DEF GatewayChanges
<1>4. ASSUME NEW a \in Attempt, NEW u \in Fields, HandleSubmit(a, u) PROVE PageInv'
  BY <1>4, SubmitKeeps
<1>5. ASSUME NEW a \in Attempt, NEW id \in Toast, Succeeds(a, id) PROVE PageInv'
  <2> DEFINE u == attempt[a].account
             attempts == [attempt EXCEPT ![a] = NoAttempt]
  <2>1. u # NoUser /\ Home(u) /\ attempt' = Left(u, attempts)
    BY <1>5 DEF Succeeds
  <2>2. attempt \in [Attempt -> AnAttempt]
    BY DEF PageInv
  <2>3. u \in User \cup {NoUser} /\ attempts \in [Attempt -> AnAttempt]
    BY <2>2 DEF AnAttempt, NoAttempt
  <2> HIDE DEF u, attempts
  <2> QED
    BY <2>1, <2>3, HomeLeaves
<1>6. ASSUME NEW a \in Attempt, Fails(a) PROVE PageInv'
  BY <1>6, FailKeeps
<1>7. ASSUME NEW id \in Toast, NotifyFromChat(id) \/ Dismiss(id) \/ Timeout(id) PROVE PageInv'
  BY <1>7, ElsewhereKeeps DEF NotifyFromChat, Dismiss, Timeout
<1>8. ASSUME NEW k \in Check, CheckInterval(k) \/ ServeCheck(k) \/ Checked(k) PROVE PageInv'
  BY <1>8, ElsewhereKeeps DEF CheckInterval, ServeCheck, Checked
<1>9. CASE UNCHANGED vars
  BY <1>9, ElsewhereKeeps DEF vars
<1> QED
  BY <1>1, <1>2, <1>3, <1>4, <1>5, <1>6, <1>7, <1>8, <1>9 DEF Next

\* However often the mode of the form is switched and the account changes meanwhile, a
\* form has at most one attempt under way, its button is off that long, and no error of an
\* earlier one stands beside it (handleSubmit of AuthScreen.tsx).
THEOREM OneAtATime == Spec => []OneAttempt
<1>1. Init => PageInv
  <2> SUFFICES ASSUME Init PROVE PageInv
    OBVIOUS
  <2>1. Blank \in Form /\ Blank.busy = FALSE /\ Blank.error = NoError
    BY DEF Blank, Form, Mode, NoError
  <2>2. NoAttempt \in AnAttempt /\ NoAttempt.here = FALSE
    BY DEF NoAttempt, AnAttempt
  <2> QED
    BY <2>1, <2>2 DEF Init, PageInv
<1>2. PageInv /\ [Next]_vars => PageInv'
  BY PageStep
<1>3. PageInv => OneAttempt
  <2> SUFFICES ASSUME PageInv PROVE OneAttempt
    OBVIOUS
  <2> DEFINE S == {a \in UnderWay : attempt[a].here}
  <2>1. S = {a \in Attempt : attempt[a].here}
    BY DEF UnderWay, NoAttempt
  <2>2. CASE form.busy
    <3>1. PICK a \in Attempt : attempt[a].here
      BY <2>2 DEF PageInv
    <3>2. S = {a}
      BY <2>1, <3>1 DEF PageInv
    <3>3. Cardinality(S) = 1
      BY <3>2, FS_Singleton
    <3>4. form.error = NoError
      BY <2>2 DEF PageInv
    <3> QED
      BY <2>2, <3>3, <3>4 DEF OneAttempt, ErrorShown
  <2>3. CASE ~ form.busy
    <3>1. S = {}
      BY <2>1, <2>3 DEF PageInv
    <3>2. Cardinality(S) = 0
      BY <3>1, FS_EmptySet
    <3> QED
      BY <2>3, <3>2 DEF OneAttempt
  <2> QED
    BY <2>2, <2>3
<1> QED
  BY <1>1, <1>2, <1>3, PTL DEF Spec

----------------------------------------------------------------------------
\* The attribute a choice stands for.
AttrOf(t) == IF t \in {"light", "dark"} THEN t ELSE "none"

\* The attribute is that of the stored choice until React runs and that of the state
\* after, as long as nothing was torn; and what is kept is what was chosen.
ThemeInv ==
  /\ saved \in {"light", "dark", "system"} /\ theme \in {"light", "dark", "system"}
  /\ {usable, machineDark, systemDark, due, hydrated, torn, kept} \subseteq BOOLEAN
  /\ hydrated /\ ~ due => systemDark = machineDark
  /\ hydrated /\ ~ torn => attr = AttrOf(theme)
  /\ ~ hydrated /\ ~ torn => attr = AttrOf(Theme!Stored)
  /\ kept => chosen = Theme!Stored
  /\ kept /\ ~ torn => attr = AttrOf(chosen)

\* The three ways setTheme may end.
LEMMA ChoiceKeeps ==
  ASSUME ThemeInv, Theme!CycleTheme
  PROVE  ThemeInv'
<1>1. PICK next \in {"light", "dark", "system"} : Theme!SetTheme(next)
  BY DEF Theme!CycleTheme, Theme!Order
<1>2. hydrated /\ UNCHANGED <<usable, machineDark, due, hydrated, systemDark>>
  BY DEF Theme!CycleTheme
<1>3. CASE /\ usable /\ saved' = next
           /\ attr' = (IF next = "system" THEN "none" ELSE next)
           /\ torn' = FALSE /\ kept' = TRUE
  BY <1>1, <1>2, <1>3 DEF ThemeInv, Theme!SetTheme, Theme!Stored, AttrOf
<1>4. CASE /\ next = "system" /\ ~ usable /\ UNCHANGED <<saved, attr>>
           /\ torn' = (attr # "none") /\ kept' = FALSE
  BY <1>1, <1>2, <1>4 DEF ThemeInv, Theme!SetTheme, Theme!Stored, AttrOf
<1>5. CASE /\ next # "system" /\ attr' = next
           /\ UNCHANGED saved /\ torn' = FALSE /\ kept' = FALSE
  BY <1>1, <1>2, <1>5 DEF ThemeInv, Theme!SetTheme, Theme!Stored, AttrOf
<1> QED
  BY <1>1, <1>3, <1>4, <1>5 DEF Theme!SetTheme

\* One step per action.
LEMMA ThemeStep == ASSUME ThemeInv, [Theme!Next]_(Theme!vars) PROVE ThemeInv'
<1>1. CASE Theme!Load
  BY <1>1 DEF ThemeInv, Theme!Load, Theme!InitScript, Theme!Stored, AttrOf
<1>2. CASE Theme!Hydrate
  BY <1>2 DEF ThemeInv, Theme!Hydrate, Theme!Stored, AttrOf
<1>3. CASE Theme!MachineChanges
  BY <1>3 DEF ThemeInv, Theme!MachineChanges, Theme!Stored
<1>4. CASE Theme!OnChange
  BY <1>4 DEF ThemeInv, Theme!OnChange, Theme!Stored
<1>5. CASE Theme!CycleTheme
  BY <1>5, ChoiceKeeps
<1>6. CASE Theme!OtherTab
  BY <1>6 DEF ThemeInv, Theme!OtherTab, Theme!Stored
<1>7. CASE UNCHANGED Theme!vars
  BY <1>7 DEF ThemeInv, Theme!vars, Theme!Stored
<1> QED
  BY <1>1, <1>2, <1>3, <1>4, <1>5, <1>6, <1>7 DEF Theme!Next

\* ThemeProvider.tsx keeps its invariant.
THEOREM ThemeInvariance == Theme!Spec => []ThemeInv
<1>1. Theme!Init => ThemeInv
  BY DEF Theme!Init, ThemeInv, Theme!Stored, AttrOf
<1>2. ThemeInv /\ [Theme!Next]_(Theme!vars) => ThemeInv'
  BY ThemeStep
<1> QED
  BY <1>1, <1>2, PTL DEF Theme!Spec

\* What the provider resolves is what the style sheet shows (ThemeProvider.tsx:10),
\* however pages load, the machine and other tabs change, and storing fails, but for
\* the two orders that tear them apart (torn).
THEOREM Rendering == Theme!Spec => []ThemeIsRendered
<1>1. ThemeInv => ThemeIsRendered
  BY DEF ThemeInv, AttrOf, ThemeIsRendered, Theme!ThemeIsRendered, Theme!resolved,
         Theme!Rendered, Theme!Palette
<1> QED
  BY <1>1, ThemeInvariance, PTL

\* A choice that was kept is shown by every later page from its first paint (README.md:377).
THEOREM Sticking == Theme!Spec => []ChoiceSticks
<1>1. ThemeInv => ChoiceSticks
  BY DEF ThemeInv, AttrOf, ChoiceSticks, Theme!ChoiceSticks, Theme!Rendered,
         Theme!Palette, Theme!Stored
<1> QED
  BY <1>1, ThemeInvariance, PTL
============================================================================
