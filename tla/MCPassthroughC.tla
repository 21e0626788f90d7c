--------------------------- MODULE MCPassthroughC ---------------------------
(* A device for TLC: an interface with two interrupt endpoints, and one with  *)
(* alternates that have none, an isochronous or a bulk endpoint.              *)
EXTENDS PassthroughC

Device == 0 :> (0 :> (0 :> <<"hidIn", "hidOut">>)
                @@ 1 :> (0 :> <<>> @@ 1 :> <<"audio">> @@ 2 :> <<"bulkOut">>))

Addresses == [hidIn |-> 132, hidOut |-> 3, audio |-> 130, bulkOut |-> 2]

Ins == {"hidIn", "audio"}
Iso == {"audio"}
NotAnswered == {"hidIn", "bulkOut"}
MayFail == {"hidOut", "audio", "bulkOut"}

Sent == {[kind |-> "configuration", value |-> 1], [kind |-> "in"], [kind |-> "out"]}
        \cup {[kind |-> "interface", index |-> 1, value |-> a] : a \in 0 .. 2}

ASSUME HandlesAssumption == EnoughHandles

=============================================================================
