---------------------------- MODULE InferencePort ----------------------------
(***************************************************************************)
(* IInferenceEngine: what an engine of any backend promises the detector   *)
(* that owns it.  Loading ends with an engine that is ready for what was   *)
(* asked, or with one that is not ready, says why, and stays so until the  *)
(* detector is replaced.  An answer is computed from the input of its own  *)
(* call by what was asked for; a call that fails says so, and leaves the   *)
(* engine as it is or breaks it for good.                                  *)
(***************************************************************************)
EXTENDS Naturals

CONSTANTS Configs, \* what an engine may be asked for
          Inputs,  \* what a call of infer may be given
          None

VARIABLES serial, \* how many engines there have been
          phase,  \* "absent", "loading" or "idle"
          loaded, \* the configuration isReady() stands for, or None
          failed, \* lastError() is not empty
          asked,  \* the input of the last call of infer, None before that
          reply   \* what that call returned, a failure before that

portVars == <<serial, phase, loaded, failed, asked, reply>>

Failed == [ok |-> FALSE]

NoAnswer == asked' = None /\ reply' = Failed

Init == /\ serial = 0 /\ phase = "absent"
        /\ loaded = None /\ failed = FALSE
        /\ asked = None /\ reply = Failed

Create == /\ serial' = serial + 1 /\ phase' = "loading"
          /\ loaded' = None /\ failed' = FALSE /\ NoAnswer
Die == /\ phase' = "absent"
       /\ loaded' = None /\ failed' = FALSE /\ NoAnswer
       /\ UNCHANGED serial

\* Loading may take a while, or be over when the constructor returns.
Settle == /\ serial' = IF phase = "loading" THEN serial ELSE serial + 1
          /\ phase' = "idle" /\ NoAnswer
Load(config) == Settle /\ loaded' = config /\ failed' = FALSE
Refuse == Settle /\ loaded' = None /\ failed' = TRUE

\* A call of infer with an input: an answer to that input, by what is loaded, a
\* failure of this call, or a failure that breaks the engine.
Answer(input) == /\ loaded # None
                 /\ reply' = [ok |-> TRUE, of |-> input, by |-> loaded]
                 /\ UNCHANGED <<loaded, failed>>
Decline == reply' = Failed /\ UNCHANGED <<loaded, failed>>
Break == loaded # None /\ reply' = Failed /\ loaded' = None /\ failed' = TRUE
Infer(input) == /\ phase = "idle"
                /\ asked' = input
                /\ Answer(input) \/ Decline \/ Break
                /\ UNCHANGED <<serial, phase>>

Next == \/ Create \/ Die \/ Refuse
        \/ \E config \in Configs : Load(config)
        \/ \E input \in Inputs : Infer(input)

Spec == Init /\ [][Next]_portVars
==============================================================================
