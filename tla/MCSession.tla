----------------------------- MODULE MCSession -----------------------------
(* TLC instances of Session. *)
EXTENDS Session

CONSTANTS r1, r2, r3, p1, p2

AllThree == {r1, r2, r3}
BothPods == {p1, p2}
OnPod1  == [r \in AllThree |-> p1]
Spread  == [r \in AllThree |-> IF r \in {r1, r3} THEN p1 ELSE p2]

\* A new chat, its requests one after the other on one pod.
Alone == [queue |-> <<r1, r2, r3>>,
          kinds |-> {"turn", "retry", "undo", "compact", "new"},
          side |-> {}, sideKinds |-> {}, podOf |-> OnPod1, fresh |-> TRUE]

\* The channel's lease moves to the other pod and back between requests.
Moved == [Alone EXCEPT !.podOf = Spread, !.fresh = FALSE,
                       !.kinds = {"turn", "compact", "retry", "new", "delete"}]

\* Beside the queue's requests a steer probe, a group message or a turn
\* of the dashboard.
Beside == [queue |-> <<r1, r2>>, kinds |-> {"turn", "yolo"},
           side |-> {r3}, sideKinds |-> {"peek", "inject", "turn"},
           podOf |-> OnPod1, fresh |-> FALSE]

\* The commands that rewrite the history, beside a turn of the dashboard.
Crossed == [Beside EXCEPT !.queue = <<r1>>, !.sideKinds = {"turn"},
                          !.kinds = {"turn", "retry", "undo", "compact"}]

Each == {Alone, Moved, Beside, Crossed}

\* A turn and a steer probe.
Probed == {[Beside EXCEPT !.queue = <<r1>>, !.kinds = {"turn"},
                          !.sideKinds = {"peek"}]}
=============================================================================
