------------------------- MODULE MCRouteController -------------------------
(* Finite instances of RouteController.                                    *)
EXTENDS RouteController, TLC

Symmetry == Permutations(Viewers)

\* A tree that three joins and three direct commits lead to: each viewer in
\* join order below the parent that above gives it.
SteadyTree(order, above, cap, before) ==
    /\ c = [order |-> order, online |-> Peers, departed |-> {},
            cap |-> cap, edge |-> [v \in Viewers |->
              [NoEdge EXCEPT !.parent = above[v], !.usable = TRUE,
                             !.active = TRUE, !.own = TRUE]],
            pub |-> NoPublication, retiring |-> {}, op |-> NoOperation,
            exhausted |-> {}, reported |-> {}, sfuFirst |-> {},
            spent |-> [v \in Viewers |->
                         [source \in Peers \cup {"sfu"} |-> Fresh]],
            cont |-> [v \in Viewers |-> {}], intent |-> "none",
            carried |-> [v \in Viewers |-> Fresh],
            paused |-> FALSE, subs |-> {}, pubs |-> {}]
    /\ churn = before

\* Every viewer below the Host, which has no copy to spare.
FullHost ==
    \E order \in SetToSeqs(Viewers) :
      SteadyTree(order, [v \in Viewers |-> Host],
                 [p \in Peers |-> IF p = Host THEN EndpointCapacity ELSE 0], 0)

\* A chain of relays with a copy each; one more change follows.
RelayChain ==
    \E order \in SetToSeqs(Viewers) :
      SteadyTree(order,
                 [v \in Viewers |-> LET i == CHOOSE j \in DOMAIN order : order[j] = v
                                    IN  IF i = 1 THEN Host ELSE order[i-1]],
                 [p \in Peers |-> 1], MaxChurn - 1)

\* A relay beside viewers of a Host that can feed one more.
SideRelay ==
    \E order \in SetToSeqs(Viewers) :
      SteadyTree(order, [v \in Viewers |-> IF v = order[3] THEN order[1] ELSE Host],
                 [p \in Peers |-> IF p = Host THEN EndpointCapacity
                                  ELSE IF p = order[1] THEN 1 ELSE 0], 0)

\* A share that three viewers already watch, and that its Host keeps: a new
\* identity would empty the tree, which is where Init starts.
WatchedSpec == (FullHost \/ SideRelay \/ RelayChain) /\ [][Operate \/ Environment]_vars
=============================================================================
