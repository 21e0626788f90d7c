-------------------------- MODULE MCConfiguration --------------------------
(* A device for TLC: a first configuration with a HID interface and an audio *)
(* interface of three alternates, and a second one with one interface.       *)
EXTENDS Configuration

Device ==
  0 :> (0 :> (0 :> <<"hidIn", "hidOut">>)
        @@ 1 :> (0 :> <<>> @@ 1 :> <<"audioA">> @@ 2 :> <<"audioB", "sync">>))
  @@ 1 :> (0 :> (0 :> <<"bulkIn">> @@ 1 :> <<"bulkInBig", "bulkOut">>))

\* The two audio alternates share an address, as do the two bulk IN endpoints
\* and one endpoint of the other configuration.
Addresses ==
  [hidIn |-> 132, hidOut |-> 3, audioA |-> 1, audioB |-> 1, sync |-> 130,
   bulkIn |-> 132, bulkInBig |-> 132, bulkOut |-> 2]

Config(v) == [kind |-> "configuration", value |-> v]
Iface(i, a) == [kind |-> "interface", index |-> i, value |-> a]

Selecting == {Config(v) : v \in 1 .. 2}
             \cup {Iface(i, a) : i \in 0 .. 1, a \in 0 .. 2}

=============================================================================
