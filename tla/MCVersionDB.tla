----------------------------- MODULE MCVersionDB -----------------------------
EXTENDS VersionDB

(* keys that are prefixes of each other, and the last key of a store *)
MCKeys == {<<0>>, <<0, 255>>, <<255>>}
MCStores == {10, 11}

Put(s, k) == [store |-> s, key |-> k, delete |-> FALSE]
Del(s, k) == [store |-> s, key |-> k, delete |-> TRUE]

MCChanges == {<<>>,
              <<Put(10, <<0>>), Put(11, <<255>>), Put(10, <<0, 255>>)>>,
              <<Put(11, <<0>>), Put(10, <<255>>)>>,
              <<Del(10, <<0>>), Put(10, <<0, 255>>), Del(11, <<0>>)>>}
=============================================================================
