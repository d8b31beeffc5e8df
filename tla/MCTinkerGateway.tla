--------------------------- MODULE MCTinkerGateway ---------------------------
(* Model checking of TinkerGateway: two clients with a session each.       *)
EXTENDS TinkerGateway

C(op, datums) == [op |-> op, datums |-> datums, bad |-> FALSE]
Bad(op) == [op |-> op, datums |-> 1, bad |-> TRUE]
FB == "forward_backward"

MCSessionOf == [a |-> "s", b |-> "t"]

\* A request that is split over two batches and packed with datums of the other
\* model; steps of both; loads, saves, and what does not validate.
MCPrograms ==
    {[a |-> <<C(FB, 3), C("optim_step", 0)>>, b |-> <<C(FB, 1)>>],
     [a |-> <<C(FB, 1), C("optim_step", 0)>>, b |-> <<C("optim_step", 0)>>],
     [a |-> <<C(FB, 1), C("load_state", 0)>>, b |-> <<C("save_state", 0)>>],
     [a |-> <<C("forward_only", 1)>>, b |-> <<Bad("save_state"), C(FB, 1)>>]}
=============================================================================
