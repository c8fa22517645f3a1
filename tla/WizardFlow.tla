------------------------------ MODULE WizardFlow ------------------------------
(***************************************************************************)
(* Wizards: stateController.ts, wizard.ts, and wizardPrompter.ts, by which *)
(* a wizard is a step of another.  A wizard asks for the properties of its *)
(* form, one step each.  Every answer may bring further steps in, right    *)
(* after the one it answers; going back undoes the answer and takes them   *)
(* out again.  A nested wizard is one object however often its step is     *)
(* reached (compositeWizard.ts): it goes on where its last run left it.    *)
(*                                                                         *)
(* Everything is sequential: a step awaits its prompter, and the only      *)
(* choice is the user's.  Retry (a button that reopens the prompt) changes *)
(* nothing and is left out, as are step numbers, remembered picks and      *)
(* defaults, which Shows may take into account.                            *)
(***************************************************************************)
EXTENDS Naturals, Sequences

CONSTANTS Wizard,      \* the wizard objects
          Root,        \* the one a command runs
          Prop,        \* the properties of all forms
          Answer,      \* what a property can be set to
          None,        \* not set
          Filled,      \* the response of a nested wizard
          Exit,        \* the step that asks "Exit wizard?"
          Form,        \* the properties of a wizard that have a prompter
          Given,       \* the state it is made with (initState)
          InOrder(_),  \* a set of properties in the order of the form
          Shows(_, _), \* showWhen of a property in a state
          Deferred,    \* the properties whose showWhen is async
          Offers,      \* the answers a prompter accepts
          Silent,      \* the properties whose prompter skips itself
          Nests,       \* the properties a nested wizard asks for
          Child(_, _), \* that wizard, for a property and a state
          Confirms     \* the wizards that ask before they exit

Step   == Prop \cup {Exit}
States == [Prop -> Answer \cup {None}]

ASSUME RootAssumption == Root \in Wizard
ASSUME NamesAssumption == None \notin Answer /\ Exit \notin Prop /\ Filled \in Answer
ASSUME FormAssumption ==
    /\ Form \in [Wizard -> SUBSET Prop]
    /\ Given \in [Wizard -> States]
    /\ Offers \in [Prop -> SUBSET Answer]
    /\ Nests \subseteq Prop /\ Silent \subseteq Prop
ASSUME OrderAssumption ==
    \A P \in SUBSET Prop :
       /\ InOrder(P) \in Seq(P)
       /\ P = {InOrder(P)[i] : i \in 1..Len(InOrder(P))}
       /\ \A i, j \in 1..Len(InOrder(P)) : InOrder(P)[i] = InOrder(P)[j] => i = j

VARIABLES state,      \* the answers so far
          previous,   \* previousStates
          steps,      \* the steps, those passed included
          extra,      \* extraSteps: what was inserted at which position
          at,         \* internalStep: how many steps have been passed
          direction,
          phase,      \* of run(): idle, asking, nested, or how it ended
          shown       \* history: state and steps before each step passed

machine == <<state, previous, steps, extra, at, direction, shown>>
vars == <<state, previous, steps, extra, at, direction, phase, shown>>

Ended == {"done", "skipped", "undefined"}

-----------------------------------------------------------------------------
(* The state machine: stateController.ts *)

InSteps(b) == {b[i] : i \in 1..Len(b)}

\* splice: put new steps in after the first k, or take n out after the first k.
Insert(b, k, new) == SubSeq(b, 1, k) \o new \o SubSeq(b, k + 1, Len(b))
RemoveOne(b, k, n) == SubSeq(b, 1, k) \o SubSeq(b, k + 2, Len(b))
Remove(b, k, n) == SubSeq(b, 1, k) \o SubSeq(b, k + n + 1, Len(b))

\* extraSteps.set() and extraSteps.delete().
Noted(e, k, new) == [i \in DOMAIN e \cup {k} |-> IF i = k THEN new ELSE e[i]]
NotForgotten(e, k) == e
Forgotten(e, k) == [i \in DOMAIN e \ {k} |-> e[i]]

StaysTurned(w) == UNCHANGED direction
TurnsForward(w) == direction' = [direction EXCEPT ![w] = "Forward"]

Before(w) == [state |-> state[w], steps |-> steps[w]]

\* advanceState() and dynamicBranch().
Advance(w, s, new) ==
    LET k == at[w] + 1 IN
    /\ previous' = [previous EXCEPT ![w] = Append(@, state[w])]
    /\ state' = [state EXCEPT ![w] = s]
    /\ at' = [at EXCEPT ![w] = k]
    /\ TurnsForward(w)
    /\ shown' = [shown EXCEPT ![w] = Append(@, Before(w))]
    /\ steps' = [steps EXCEPT ![w] = Insert(@, k, new)]
    /\ extra' = IF new = <<>> THEN extra
                ELSE [extra EXCEPT ![w] = Noted(@, k, new)]

\* rollbackState(), past the first step.
RollbackState(w) ==
    LET k == at[w] IN
    /\ previous' = [previous EXCEPT ![w] = SubSeq(@, 1, Len(@) - 1)]
    /\ state' = [state EXCEPT ![w] = previous[w][Len(previous[w])]]
    /\ at' = [at EXCEPT ![w] = k - 1]
    /\ direction' = [direction EXCEPT ![w] = "Backward"]
    /\ shown' = [shown EXCEPT ![w] = SubSeq(@, 1, Len(@) - 1)]
    /\ steps' = IF k \in DOMAIN extra[w]
                THEN [steps EXCEPT ![w] = Remove(@, k, Len(extra[w][k]))]
                ELSE steps
    /\ extra' = [extra EXCEPT ![w] = Forgotten(@, k)]
Rollback(w) == IF at[w] = 0 THEN UNCHANGED machine ELSE RollbackState(w)

\* Back out of the first step ends the run.
AfterBack(w) == IF at[w] = 0 THEN "undefined" ELSE "asking"

\* detectCycle(): the step was passed in the state the wizard is in.
Cycle(w) ==
    \E i \in 1..Len(previous[w]) :
       /\ i # at[w] + 1 /\ i <= Len(steps[w])
       /\ steps[w][i] = steps[w][at[w] + 1]
       /\ previous[w][i] = state[w]

Current(w) == steps[w][at[w] + 1]

\* run() is at a step; with a cycle it throws instead.
Asking(w) == phase[w] = "asking" /\ at[w] < Len(steps[w]) /\ ~Cycle(w)

-----------------------------------------------------------------------------
(* The form: wizardForm.ts, wizard.ts *)

\* canShowProperty(), which nobody awaits: a promise counts as true.
CanShow(w, p, s) == s[p] = None /\ (p \in Deferred \/ Shows(p, s))

\* resolveNextSteps(): what can be shown in s and is not among the steps b.
Unasked(w, s, b) == {p \in Form[w] : CanShow(w, p, s) /\ p \notin InSteps(b)}
NextStepsAgain(w, s) == InOrder({p \in Form[w] : CanShow(w, p, s)})
NextSteps(w, s) == InOrder(Unasked(w, s, steps[w]))

\* run() adds the steps that its initial state calls for.
FirstSteps(w) == steps[w] \o InOrder(Unasked(w, Given[w], steps[w]))

\* A valid response, or a step that is passed without one.
Pass(w, s) == Advance(w, s, NextSteps(w, s))

-----------------------------------------------------------------------------
Init ==
    /\ state = Given
    /\ previous = [w \in Wizard |-> <<Given[w]>>]
    /\ steps = [w \in Wizard |-> <<>>]
    /\ extra = [w \in Wizard |-> <<>>]
    /\ at = [w \in Wizard |-> 0]
    /\ direction = [w \in Wizard |-> "Forward"]
    /\ phase = [w \in Wizard |-> "idle"]
    /\ shown = [w \in Wizard |-> <<>>]

\* A command runs the wizard.
Start ==
    /\ phase[Root] = "idle"
    /\ phase' = [phase EXCEPT ![Root] = "asking"]
    /\ steps' = [steps EXCEPT ![Root] = FirstSteps(Root)]
    /\ UNCHANGED <<state, previous, extra, at, direction, shown>>

Prompting(w) == Asking(w) /\ Current(w) \in Prop \ (Nests \cup Silent)

\* The user picks or enters something.
Respond(w) ==
    /\ Prompting(w)
    /\ \E a \in Offers[Current(w)] : Pass(w, [state[w] EXCEPT ![Current(w)] = a])
    /\ UNCHANGED phase

\* The Back button.
PressBack(w) ==
    /\ Prompting(w)
    /\ Rollback(w)
    /\ phase' = [phase EXCEPT ![w] = AfterBack(w)]

\* The prompt is dismissed: the exit prompt comes next, if there is one.
Dismiss(w) ==
    /\ Prompting(w)
    /\ IF w \in Confirms
       THEN Advance(w, state[w], <<Exit>>) /\ UNCHANGED phase
       ELSE UNCHANGED machine /\ phase' = [phase EXCEPT ![w] = "undefined"]

\* "Exit wizard?" answered with yes, or dismissed.
ConfirmExit(w) ==
    /\ Asking(w) /\ Current(w) = Exit
    /\ phase' = [phase EXCEPT ![w] = "undefined"]
    /\ UNCHANGED machine

\* ... or with no, which it does not offer on the first step of all.
DeclineExit(w) ==
    /\ Asking(w) /\ Current(w) = Exit
    /\ at[w] > 1 \/ \E v \in Wizard : phase[v] = "nested" /\ at[v] > 0
    /\ Rollback(w)
    /\ phase' = [phase EXCEPT ![w] = AfterBack(w)]

\* A prompter that skips itself goes the way the wizard is going.
Skip(w) ==
    /\ Asking(w) /\ Current(w) \in Silent \ Nests
    /\ IF direction[w] = "Forward"
       THEN Pass(w, state[w]) /\ UNCHANGED phase
       ELSE Rollback(w) /\ phase' = [phase EXCEPT ![w] = AfterBack(w)]

\* The prompter of the step is another wizard, which is run (again).
Enter(w) ==
    LET c == Child(Current(w), state[w]) IN
    /\ Asking(w) /\ Current(w) \in Nests
    /\ phase[c] = "idle"
    /\ phase' = [phase EXCEPT ![w] = "nested", ![c] = "asking"]
    /\ steps' = [steps EXCEPT ![c] = FirstSteps(c)]
    /\ UNCHANGED <<state, previous, extra, at, direction, shown>>

\* WizardPrompter answers with what the wizard returned: its answers, Back for
\* undefined, Skip for no answers at all.
Return(w) ==
    LET c == Child(Current(w), state[w])
        Go(next) == phase' = [phase EXCEPT ![w] = next, ![c] = "idle"]
    IN
    /\ phase[w] = "nested"
    /\ \/ /\ phase[c] = "done"
          /\ Pass(w, [state[w] EXCEPT ![Current(w)] = Filled])
          /\ Go("asking")
       \/ /\ phase[c] = "skipped" /\ direction[w] = "Forward"
          /\ Pass(w, state[w])
          /\ Go("asking")
       \/ /\ \/ phase[c] = "undefined"
             \/ phase[c] = "skipped" /\ direction[w] = "Backward"
          /\ Rollback(w)
          /\ Go(AfterBack(w))

\* No steps are left: run() returns the state and rolls back its last step, so
\* that the next run asks it again.
Finish(w) ==
    /\ phase[w] = "asking" /\ at[w] = Len(steps[w])
    /\ phase' = [phase EXCEPT ![w] =
                    IF \A p \in Prop : state[w][p] = None THEN "skipped" ELSE "done"]
    /\ Rollback(w)

Next ==
    \/ Start
    \/ \E w \in Wizard :
          \/ Respond(w) \/ PressBack(w) \/ Dismiss(w)
          \/ ConfirmExit(w) \/ DeclineExit(w) \/ Skip(w)
          \/ Enter(w) \/ Return(w) \/ Finish(w)

Spec == Init /\ [][Next]_vars

\* Prompts are answered in the end, one way or another.
FairSpec == Spec /\ WF_vars(Next)

-----------------------------------------------------------------------------
(* Properties *)

TypeOK ==
    /\ state \in [Wizard -> States]
    /\ previous \in [Wizard -> Seq(States)]
    /\ steps \in [Wizard -> Seq(Step)]
    /\ at \in [Wizard -> Nat]
    /\ direction \in [Wizard -> {"Forward", "Backward"}]
    /\ phase \in [Wizard -> {"idle", "asking", "nested"} \cup Ended]
    /\ DOMAIN extra = Wizard
    /\ shown \in [Wizard -> Seq([state : States, steps : Seq(Step)])]
    /\ \A w \in Wizard :
          /\ at[w] <= Len(steps[w])
          /\ Len(previous[w]) = at[w] + 1 /\ Len(shown[w]) = at[w]
          /\ \E K \in SUBSET (1..at[w]) : extra[w] \in [K -> Seq(Step)]

\* Whatever was answered, taken back, dismissed or left half-way before, and
\* however often a nested wizard was run: the wizard has a step for everything
\* it would have to ask in its state, none of them twice, and every answer it
\* holds was given at a step on the way to where it is.
StepsFit ==
    \A w \in Wizard : phase[w] # "idle" =>
       /\ Unasked(w, state[w], steps[w]) = {}
       /\ \A i, j \in 1..Len(steps[w]) : steps[w][i] = steps[w][j] => i = j
       /\ \A p \in Prop : state[w][p] # Given[w][p] =>
             \E i \in 1..at[w] : steps[w][i] = p

\* Going back, by the button, an exit that is declined or at the end of a run,
\* gives the wizard the answers and the steps it had before that step.
BackRestores ==
    [][\A w \in Wizard : at'[w] < at[w] =>
         /\ at'[w] = at[w] - 1
         /\ state'[w] = shown[w][at[w]].state
         /\ steps'[w] = shown[w][at[w]].steps]_vars

\* run() never throws for a cycle: no step was passed in the present state.
NoFalseCycle ==
    \A w \in Wizard : phase[w] = "asking" /\ at[w] < Len(steps[w]) => ~Cycle(w)

\* A user who no longer goes back or dismisses anything comes to the end:
\* nested wizards and steps that skip themselves do not send him round.
GoesBack == \E w \in Wizard :
    PressBack(w) \/ Dismiss(w) \/ ConfirmExit(w) \/ DeclineExit(w)
ForwardEnds ==
    <>[][~GoesBack]_vars => <>(phase[Root] \in Ended)

\* A step is in the list only if its condition was met by some answers on the
\* way: a form never asks for what showWhen excludes.
OnlyWhenShown ==
    \A w \in Wizard : \A i \in 1..Len(steps[w]) : steps[w][i] \in Prop =>
       \/ Shows(steps[w][i], state[w])
       \/ \E k \in 1..Len(shown[w]) : Shows(steps[w][i], shown[w][k].state)
=============================================================================
