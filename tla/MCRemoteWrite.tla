---------------------------- MODULE MCRemoteWrite ----------------------------
(***************************************************************************)
(* An instance of RemoteWrite with two endpoints: `plain` takes no native  *)
(* histograms, relabels one kind away and queues two batches; `broken` has *)
(* a batch_send_deadline of zero and queues one.                           *)
(***************************************************************************)
EXTENDS RemoteWrite, TLC

CONSTANTS plain, broken

MCKinds == {"float", "noise", "histogram"}
MCNativeKinds == {"histogram"}
\* A request's worth and more, one kind each endpoint drops, an empty batch.
MCBatches == {<<>>, <<"float">>, <<"float", "noise">>, <<"histogram", "float">>,
              <<"float", "float", "float">>}
MCSendNative == {broken}
MCZeroDeadline == {broken}
MCRelabelDrops == plain :> {"noise"} @@ broken :> {}
MCCapacity == plain :> 5 @@ broken :> 1
MCMaxSamplesPerSend == [e \in Endpoints |-> 2]
=============================================================================
