---------------------------- MODULE MCWizardFlow ----------------------------
(* Instances of WizardFlow for TLC: the wizards of the deploy commands. *)
EXTENDS WizardFlow, TLC

CONSTANTS type, deploy, sync, paramsA, paramsB,
          choice, deployParam, syncParam, template, parameters, source, region,
          stack, bucket, code, flags, x, y,
          deployIt, syncIt, A, B

Wizards == {type, deploy, sync, paramsA, paramsB}
Ordered == <<choice, deployParam, syncParam, template, parameters, source,
             region, stack, bucket, code, flags, x, y>>
Props == {Ordered[i] : i \in DOMAIN Ordered}

\* The wizard of the App Builder asks whether to deploy or to sync and runs the
\* wizard for that; the one that deploys asks for a template and runs the
\* wizard of its parameters.
Forms == (type :> {choice, deployParam, syncParam})
      @@ (deploy :> {template, parameters, source, region, stack, bucket})
      @@ (sync :> {code, flags}) @@ (paramsA :> {x, y}) @@ (paramsB :> {})

ShowWhen(p, s) ==
    CASE p = deployParam -> s[choice] = deployIt
      [] p = syncParam -> s[choice] = syncIt
      [] p = parameters -> s[template] = A
      [] p \in {region, stack} -> s[source] = B
      [] p = bucket -> s[region] = A
      [] OTHER -> TRUE

Options == [p \in Prop |->
    CASE p = choice -> {deployIt, syncIt}
      [] p \in {deployParam, syncParam, parameters, stack} -> {}
      [] p \in {bucket, y, flags} -> {A}
      [] OTHER -> {A, B}]

ChildOf(p, s) ==
    CASE p = deployParam -> deploy
      [] p = syncParam -> sync
      [] p = parameters /\ s[template] = A -> paramsA
      [] OTHER -> paramsB

OrderOf(P) == SelectSeq(Ordered, LAMBDA p : p \in P)

NoneGiven == [w \in Wizard |-> [p \in Prop |-> None]]

\* The command was given on a template without parameters.
TemplateGiven == [NoneGiven EXCEPT ![deploy][template] = B]
=============================================================================
