-------------------------- MODULE MCSnapshotStore --------------------------
(* SnapshotStore for TLC: two instants to a second, so that two captures   *)
(* can and need not fall into the same one; one request or command at a    *)
(* time with failures, two at a time, and commands for several characters. *)
EXTENDS SnapshotStore, TLC

HandlerSymmetry == Permutations(Handlers)

MCSettings ==
  {[ops |-> Op, names |-> {<<"a">>}, atOnce |-> 1, maxAge |-> 3, latency |-> 1,
    mayFail |-> TRUE, maxVersion |-> 2, maxTime |-> 4],
   [ops |-> Op \ {"use"}, names |-> {<<"a">>}, atOnce |-> 2, maxAge |-> 1, latency |-> 1,
    mayFail |-> FALSE, maxVersion |-> 1, maxTime |-> 3],
   [ops |-> {"get", "use"}, names |-> {<<"a">>, <<"a", "_">>, <<"a", "o-umlaut">>},
    atOnce |-> 1, maxAge |-> 0, latency |-> 1,
    mayFail |-> FALSE, maxVersion |-> 1, maxTime |-> 2]}
=============================================================================
