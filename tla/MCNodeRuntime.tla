---------------------------- MODULE MCNodeRuntime ----------------------------
(* One Manager and the node agent that stops once.                          *)
EXTENDS NodeRuntime

(* A node that has been prepared as sender and receiver. *)
PreparedInit ==
    /\ lock = "free" /\ context = 1
    /\ archive = [c \in {1, 3} |-> FALSE]
    /\ sender = [NoSender EXCEPT !.payload = 1]
    /\ receiver = [NoReceiver EXCEPT !.contexts = {3}]
    /\ call = [t \in Threads |-> Idle]
    /\ answer = [t \in Threads |-> NoAnswer]
    /\ results = {} /\ silenced = {} /\ opened = {}
    /\ rounds = 0 /\ calls = 0 /\ terminated = FALSE

(* The Manager prepares a payload between rounds only.                      *)
PreparedBetweenRounds ==
    \A t \in Clients : call[t] = Idle /\ call'[t].op = "payload"
        => SenderGone /\ ~sender.running

(* Threads run as long as the process does. *)
Living == ~terminated /\ UNCHANGED terminated

Fairness ==
    /\ WF_vars(SenderWorker /\ Living) /\ WF_vars(ReceiverWorker /\ Living)
    /\ \A t \in Threads : WF_vars(CallProceeds(t) /\ Living)

PreparedSpec ==
    /\ Init \/ PreparedInit
    /\ [][Next /\ PreparedBetweenRounds /\ ShutDownApartFromStart]_vars
    /\ Fairness
=============================================================================
