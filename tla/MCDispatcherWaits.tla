-------------------------- MODULE MCDispatcherWaits --------------------------
EXTENDS DispatcherWaits, TLC

CONSTANTS sync, notif, timer, hosted, t1, t2, d1, d2

AnyOf(objs, to) == [objects |-> objs, all |-> FALSE, timeout |-> to]
AllOf(objs, to) == [objects |-> objs, all |-> TRUE, timeout |-> to]

(* A synchronization Event, a notification Event that the native-only      *)
(* paths set, a provider timer and a hosted File.                          *)
MCNativeWaits == {AnyOf(<<sync>>, "timed"), AllOf(<<hosted, sync>>, "never"), AnyOf(<<notif, sync>>, "poll")}
MCProviderWaits == {AnyOf(<<notif, sync>>, "never"), AllOf(<<sync, timer>>, "timed"), AnyOf(<<hosted, sync>>, "never")}

Symmetry == {p @@ q : p \in Permutations(Threads), q \in Permutations(Dispatches)}
=============================================================================
