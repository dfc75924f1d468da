---------------------------- MODULE SignInPage -----------------------------
(***************************************************************************)
(* What a tab shows (page.tsx): the splash, the sign-in page or the chat.  *)
(* The sign-in page is the form of AuthScreen.tsx and the banner of        *)
(* BackendStatus.tsx; the notices of ToastProvider.tsx lie over all of it. *)
(* An attempt to sign in outlives its form: the account of the tab may     *)
(* come from another tab meanwhile.  What an attempt does to the stored    *)
(* session is AuthClient's subject.                                        *)
(***************************************************************************)
EXTENDS FiniteSets, Naturals

CONSTANTS User,
          Attempt,  \* slots for calls of handleSubmit
          Toast,    \* bound: notices shown or timed at once
          Check,    \* bound: checks of the gateway in flight at once
          NoUser

ASSUME SignInAssumption == NoUser \notin User

VARIABLES isReady, user,   \* useAuth()
          form,            \* AuthScreen: mode, error, busy
          attempt,         \* submissions under way: mode, account, and whether the
                           \* form they came from is still there
          toasts, timers,  \* notices shown, and those whose timer runs
          reachable,       \* whether the gateway answers
          state, check     \* BackendStatus: the banner's state, checks in flight

screen == IF ~ isReady THEN "splash" ELSE IF user = NoUser THEN "auth" ELSE "chat"
session == <<isReady, user>>
notices == <<toasts, timers>>
banner == <<reachable, state, check>>
vars == <<session, form, attempt, notices, banner>>

NoError == "none"
Blank == [mode |-> "signin", error |-> NoError, busy |-> FALSE]
NoAttempt == [mode |-> NoError, account |-> NoUser, here |-> FALSE]
UnderWay == {a \in Attempt : attempt[a] # NoAttempt}

Init ==
  /\ isReady = FALSE /\ user = NoUser /\ form = Blank
  /\ attempt = [a \in Attempt |-> NoAttempt]
  /\ toasts = {} /\ timers = {}
  /\ reachable \in BOOLEAN /\ state = "checking" /\ check = [k \in Check |-> "free"]

----------------------------------------------------------------------------
\* The first check of a mounted banner; those of an unmounted one are cancelled.
FirstCheck == CHOOSE k \in Check : TRUE
MountBanner ==
  state' = "checking" /\ check' = [k \in Check |-> IF k = FirstCheck THEN "sent" ELSE "free"]
UnmountBanner == state' = "checking" /\ check' = [k \in Check |-> "free"]

\* Home swaps screens on the account: the form and the banner come and go.
Home(u) ==
  /\ isReady' = TRUE /\ user' = u /\ UNCHANGED reachable
  /\ IF screen = "auth" /\ u = NoUser THEN UNCHANGED <<form, state, check>>
     ELSE /\ form' = Blank
          /\ IF u = NoUser /\ screen # "auth" THEN MountBanner ELSE UnmountBanner

\* The attempts that go on when Home shows the screen of u.
Left(u, attempts) ==
  [a \in Attempt |-> IF u # NoUser /\ attempts[a] # NoAttempt
                     THEN [attempts[a] EXCEPT !.here = FALSE] ELSE attempts[a]]

\* AuthProvider has read the stored session, the user signs out, or another tab
\* changes the account.
SessionChanges(u) ==
  /\ ~ isReady \/ u # user
  /\ Home(u) /\ attempt' = Left(u, attempt) /\ UNCHANGED notices

\* Mutant: switching gives the button back.
SwitchModeUnlocks ==
  /\ screen = "auth"
  /\ form' = [mode |-> IF form.mode = "signin" THEN "signup" ELSE "signin",
              error |-> NoError, busy |-> FALSE]
  /\ UNCHANGED <<session, attempt, notices, banner>>

\* The link under the form, which works while an attempt is under way.
SwitchMode ==
  /\ screen = "auth"
  /\ form' = [mode |-> IF form.mode = "signin" THEN "signup" ELSE "signin",
              error |-> NoError, busy |-> form.busy]
  /\ UNCHANGED <<session, attempt, notices, banner>>

\* What the fields may say: with noValidate, nothing as well.
Fields == User \cup {NoUser}

SubmitButton == screen = "auth" /\ ~ form.busy
ErrorShown == screen = "auth" /\ form.error # NoError

\* handleSubmit up to its await.
HandleSubmit(a, u) ==
  /\ SubmitButton /\ u \in Fields /\ attempt[a] = NoAttempt
  /\ form' = [mode |-> form.mode, error |-> NoError, busy |-> TRUE]
  /\ attempt' = [attempt EXCEPT ![a] = [mode |-> form.mode, account |-> u, here |-> TRUE]]
  /\ UNCHANGED <<session, notices, banner>>

\* Mutant: one timer for all, set anew.
NotifyOneTimer(id) ==
  id \notin toasts \cup timers /\ toasts' = toasts \cup {id} /\ timers' = {id}

\* notify: the id is one that no notice has.
Notify(id) ==
  id \notin toasts \cup timers /\ toasts' = toasts \cup {id} /\ timers' = timers \cup {id}

\* adopt, which brings the chat of the account whatever the tab shows now, and
\* the welcome; setBusy finds no form.
Succeeds(a, id) ==
  /\ attempt[a].account # NoUser
  /\ Home(attempt[a].account)
  /\ attempt' = Left(attempt[a].account, [attempt EXCEPT ![a] = NoAttempt])
  /\ Notify(id)

\* Mutant: the button comes back only when the attempt succeeds.
FailsStuck(a) ==
  /\ attempt[a] # NoAttempt
  /\ form' = IF attempt[a].here THEN [form EXCEPT !.error = attempt[a].mode] ELSE form
  /\ attempt' = [attempt EXCEPT ![a] = NoAttempt]
  /\ UNCHANGED <<session, notices, banner>>

\* The catch and the finally, on a form that is still there.
Fails(a) ==
  /\ attempt[a] # NoAttempt
  /\ form' = IF attempt[a].here
             THEN [mode |-> form.mode, error |-> attempt[a].mode, busy |-> FALSE] ELSE form
  /\ attempt' = [attempt EXCEPT ![a] = NoAttempt]
  /\ UNCHANGED <<session, notices, banner>>

----------------------------------------------------------------------------
\* The chat notifies of uploads and deletions.
NotifyFromChat(id) ==
  screen = "chat" /\ Notify(id) /\ UNCHANGED <<session, form, attempt, banner>>

\* The button of a notice; its timer runs on.
Dismiss(id) ==
  /\ id \in toasts /\ toasts' = toasts \ {id}
  /\ UNCHANGED <<session, form, attempt, timers, banner>>

Timeout(id) ==
  /\ id \in timers /\ timers' = timers \ {id} /\ toasts' = toasts \ {id}
  /\ UNCHANGED <<session, form, attempt, banner>>

----------------------------------------------------------------------------
GatewayChanges ==
  /\ reachable' = ~ reachable
  /\ UNCHANGED <<session, form, attempt, notices, state, check>>

\* Mutant: nobody looks again once the state is known.
CheckIntervalOnce(k) ==
  /\ screen = "auth" /\ check[k] = "free" /\ state = "checking"
  /\ check' = [check EXCEPT ![k] = "sent"]
  /\ UNCHANGED <<session, form, attempt, notices, reachable, state>>

\* Every five seconds, whether or not the last check has been answered.
CheckInterval(k) ==
  /\ screen = "auth" /\ check[k] = "free"
  /\ check' = [check EXCEPT ![k] = "sent"]
  /\ UNCHANGED <<session, form, attempt, notices, reachable, state>>

ServeCheck(k) ==
  /\ check[k] = "sent"
  /\ check' = [check EXCEPT ![k] = IF reachable THEN "online" ELSE "offline"]
  /\ UNCHANGED <<session, form, attempt, notices, reachable, state>>

BannerShown == screen = "auth" /\ state = "offline"

Checked(k) ==
  /\ check[k] \in {"online", "offline"}
  /\ state' = check[k] /\ check' = [check EXCEPT ![k] = "free"]
  /\ UNCHANGED <<session, form, attempt, notices, reachable>>

Next ==
  \/ \E u \in User \cup {NoUser} : SessionChanges(u)
  \/ SwitchMode \/ GatewayChanges
  \/ \E a \in Attempt : \/ \E u \in Fields : HandleSubmit(a, u)
                        \/ \E id \in Toast : Succeeds(a, id)
                        \/ Fails(a)
  \/ \E id \in Toast : NotifyFromChat(id) \/ Dismiss(id) \/ Timeout(id)
  \/ \E k \in Check : CheckInterval(k) \/ ServeCheck(k) \/ Checked(k)
Spec == Init /\ [][Next]_vars

\* A call settles, a timer fires, and the interval goes on.
Settles(a) == Fails(a) \/ \E id \in Toast : Succeeds(a, id)
Fairness ==
  /\ \A a \in Attempt : WF_vars(Settles(a))
  /\ \A id \in Toast : WF_vars(Timeout(id))
  /\ WF_vars(\E k \in Check : CheckInterval(k))
  /\ \A k \in Check : WF_vars(ServeCheck(k)) /\ WF_vars(Checked(k))
FairSpec == Spec /\ Fairness

----------------------------------------------------------------------------
\* A form has at most one attempt under way (AuthScreen.tsx:57), though its mode
\* may be switched meanwhile and attempts of forms that are gone go on: the
\* button is off as long as that attempt lasts, with no old error beside it.
OneAttempt ==
  /\ Cardinality({a \in UnderWay : attempt[a].here}) = IF form.busy THEN 1 ELSE 0
  /\ form.busy => ~ ErrorShown

\* The button of the form comes back, however the attempt ends (the finally of
\* AuthScreen.tsx:74).
FormComesBack == form.busy ~> ~ form.busy

\* "Keep checking so the banner clears on its own" (BackendStatus.tsx:34): once
\* the gateway stays up and the page stays open, the banner goes, and the answers
\* to checks made before do not bring it back for good.
BannerClears == <>[](reachable /\ screen = "auth") => <>[] ~ BannerShown

\* No notice stays for ever, whichever others came, went or were dismissed.
EveryToastGoes == \A id \in Toast : id \in toasts ~> id \notin toasts
============================================================================
