------------------------------- MODULE MCKernels -------------------------------
(***************************************************************************)
(* The code of Kernel for TLC: each behaviour is one of the ring-buffer    *)
(* driver or one of the terminal of viOS, with lines of a few columns, and *)
(* the variables of the other stay as they are.                            *)
(***************************************************************************)
EXTENDS ViTerminal, RingBfr

SomeBanner == <<"V", "\n">>
SomeCodes == {"Shift", "Esc", "Backspace", "Enter", Nul, "s", "a", "i", "h", "j", "k", "l", "x",
              "b", "e", "4", "-"}

\* No caller of the driver, and no first process that takes a key.
RingOff ==
    /\ q = "null" /\ capacity = 0 /\ size = 0 /\ front = 0 /\ q_data = <<>> /\ queued = <<>>
    /\ since = {} /\ call = [p \in Procs |-> "oops"] /\ arg = [p \in Procs |-> 0]
    /\ rear = [p \in Procs |-> 0] /\ out = [p \in Procs |-> Null]
TermOff ==
    /\ term = [shift |-> FALSE] /\ pc = "off" /\ line = 0 /\ text = <<>> /\ save = <<>>
    /\ keys = 1 /\ outside = FALSE

KernelsInit == (Init /\ RingOff) \/ (RingInit /\ TermOff)
KernelsNext == (Next /\ UNCHANGED ringVars) \/ (RingNext /\ UNCHANGED vars)

KernelsSpec == KernelsInit /\ [][KernelsNext]_<<vars, ringVars>>
=============================================================================
