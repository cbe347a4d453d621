----------------------------- MODULE MCProgram ------------------------------
(***************************************************************************)
(* The main program with its threads, the reset of a device and the walks  *)
(* over a descriptor chain, one at a time: part says which component runs, *)
(* the others stay in their initial states.                                *)
(***************************************************************************)
EXTENDS DeviceReset, MainProgram, DescriptorChain

CONSTANT Parts
VARIABLE part

ProgramInit ==
    /\ part \in Parts
    /\ Init /\ MainInit /\ DcInit
    /\ part # "reset" => manual_recv
    /\ part # "main" => has_console /\ blocks = 1
    /\ part # "chain" => chain = <<[w |-> FALSE, len |-> 1]>> /\ device = "console"

ProgramNext ==
    /\ UNCHANGED part
    /\ \/ part = "reset" /\ Next /\ UNCHANGED <<mainvars, dcvars>>
       \/ part = "main" /\ MainNext /\ UNCHANGED <<vars, dcvars>>
       \/ part = "chain" /\ DcNext /\ UNCHANGED <<vars, mainvars>>

(* The threads run: main, stdin, I/O and worker.  Keys and accesses need   *)
(* not come.                                                               *)
ProgramSpec ==
    /\ ProgramInit /\ [][ProgramNext]_<<part, vars, mainvars, dcvars>>
    /\ WF_mainvars(part = "main" /\ MainStep) /\ WF_mainvars(part = "main" /\ StdinStep)
    /\ WF_mainvars(part = "main" /\ IoEnds) /\ WF_mainvars(part = "main" /\ NotifyTurn)
=============================================================================
