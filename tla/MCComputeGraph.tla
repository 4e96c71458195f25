--------------------------- MODULE MCComputeGraph ---------------------------
(***************************************************************************)
(* ComputeGraph for TLC: the graphs the runs use.                          *)
(***************************************************************************)
EXTENDS ComputeGraphProps, TLC

CONSTANTS d1, d2, combine, filter1, filter2

\* Two devices, a filter behind each, a combine node.
ParallelNext ==
  (d1 :> filter1) @@ (d2 :> filter2) @@ (filter1 :> combine)
    @@ (filter2 :> combine) @@ (combine :> nullptr)
ParallelArity == (filter1 :> 1) @@ (filter2 :> 1) @@ (combine :> 2)

\* A chain, which begins like the graph of the README's add_graph request,
\* with a device that points to a device.
ChainNext ==
  (d1 :> d2) @@ (d2 :> filter1) @@ (filter1 :> filter2) @@ (filter2 :> nullptr)
ChainArity == (filter1 :> 1) @@ (filter2 :> 1)
=============================================================================
