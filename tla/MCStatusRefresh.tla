-------------------------- MODULE MCStatusRefresh --------------------------
(* Small instances of StatusRefresh for TLC: Claude and Codex with one      *)
(* account each, or Codex with two.                                         *)
EXTENDS StatusRefresh, TLC

CONSTANTS p1, p2, claude, codex, codexB, claudeFamily, codexFamily

MCFamily == claude :> claudeFamily @@ codex :> codexFamily @@ codexB :> codexFamily
MCPrimary == claudeFamily :> claude @@ codexFamily :> codex

\* Two processes whose collectors fail or hang; and one with two accounts of one
\* family, every answer, and a clock that is set back.
Shared == [procs |-> {p1, p2}, accounts |-> {claude, codex},
           enabled |-> {claudeFamily, codexFamily}, answers |-> {"windows", "error"},
           jumps |-> FALSE, ttl |-> 1, maxTime |-> 1]
Alone == [procs |-> {p1}, accounts |-> {codex, codexB}, enabled |-> {codexFamily},
          answers |-> AnswerKinds, jumps |-> TRUE, ttl |-> 2, maxTime |-> 2]
SharedOrAlone == {Shared, Alone}
=============================================================================
