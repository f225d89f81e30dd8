------------------------------ MODULE MCPipeline ------------------------------
(* Under run.sh with and without rings of an earlier session, and by hand    *)
(* with one restart of the capture daemon or of a worker.                    *)
EXTENDS Pipeline

Some(byHand, cameras, old, maxIdx, maxStarts) ==
  [byHand |-> byHand, cameras |-> cameras, old |-> old, maxIdx |-> maxIdx,
   maxStarts |-> maxStarts]
FirstRings == {<<"cam", 1>>, <<"rect", 1>>, <<"depth", 1>>, <<"det", 1>>}
SomeSetups ==
  { Some(FALSE, 1, {}, 0, <<1, 1, 1, 1>>),
    Some(FALSE, 1, FirstRings, None, <<1, 1, 1, 1>>),
    Some(TRUE, 1, {}, 1, <<2, 1, 1, 0>>),
    Some(TRUE, 1, FirstRings, 1, <<1, 2, 1, 0>>),
    Some(FALSE, 2, {}, None, <<1, 1, 1, 1>>),
    Some(TRUE, 1, {}, 2, <<1, 1, 0, 0>>),
    Some(TRUE, 2, {}, 0, <<1, 1, 1, 0>>) }
===============================================================================
