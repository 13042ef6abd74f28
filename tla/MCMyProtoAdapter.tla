-------------------------- MODULE MCMyProtoAdapter --------------------------
(* Small instances of MyProtoAdapter for TLC. *)
EXTENDS MyProtoAdapter

Key(len, t) == [length |-> len, video |-> TRUE, keyFlag |-> TRUE, bFrame |-> FALSE,
                timestamp |-> t, sets |-> ParameterSets]
Delta(len, t, b) == [length |-> len, video |-> TRUE, keyFlag |-> FALSE, bFrame |-> b,
                     timestamp |-> t, sets |-> {}]
Audio(t) == [length |-> 0, video |-> FALSE, keyFlag |-> TRUE, bFrame |-> FALSE,
             timestamp |-> t, sets |-> {}]

\* Empty, short and longest payloads, one that is too long, and timestamps that
\* go forward, stay and go back.
MCFrames ==
  {Key(2, 0), Key(1, 2), Delta(1, 1, FALSE), Delta(2, 2, TRUE), Audio(1),
   Delta(3, 1, FALSE)}

\* The handler passes no parameters; an adapter started with both.
DefaultConfig == [hotStart |-> FALSE, dropB |-> FALSE]
MCConfigs == {DefaultConfig, [hotStart |-> TRUE, dropB |-> TRUE]}
OneConfig == {DefaultConfig}
=============================================================================
