----------------------------- MODULE MCJudgement -----------------------------
(* Judgement for TLC: test cases, outputs and ways to end that are small    *)
(* and cover every branch.                                                  *)
EXTENDS Judgement

Tokens == {"a", "b", Blank}
Texts(n) == BoundedSeq(Tokens, n)
Cases(n, m) == {[k \in DOMAIN t |-> [id |-> k, output |-> t[k]]] : t \in BoundedSeq(Texts(m), n)}

Result(code, signal, wall, oom) ==
  [exit_code |-> code, signal |-> signal, wall |-> wall, oom |-> oom]
Ended == Result(0, None, 100, FALSE)

Execution(tasktype, cases, lines, sandbox) ==
  [uuid7 |-> TRUE, io |-> "ok", compile |-> "ok", timelimit |-> 1000, console |-> <<"x">>, language |-> "cpp",
   tasktype |-> tasktype, cases |-> cases, lines |-> lines, sandbox |-> sandbox]

\* Programs that end well: the output decides.
Outputs ==
  {Execution(tt, c, l, Ended) : tt \in {"run", "test"}, c \in Cases(2, 2) \union Cases(3, 1),
                                l \in Texts(3)}
  \union {Execution("test", c, l, Ended) : c \in Cases(1, 1), l \in {<<Garbled>>, <<"a", Garbled>>}}

\* Programs that end otherwise, and consoles up to a byte or two over the limit.
OneCase == <<[id |-> 1, output |-> <<"a">>]>>
Consoles == BoundedSeq(Characters, 4)
Endings ==
  {[Execution("test", OneCase, <<"a">>, Result(code, None, wall, oom))
      EXCEPT !.console = file] :
     code \in {0, 1, 134, 137, 152}, wall \in {999, 1000}, oom \in BOOLEAN,
     file \in {<<>>, <<Blank>>, <<"x", "x", "x">>}}
  \union {[Execution("test", OneCase, <<"a">>, Result(code, None, 10, FALSE))
             EXCEPT !.console = file] : code \in {0, 1, 137}, file \in Consoles}
  \union {[Execution("test", OneCase, <<"a">>, Result(-1, 9, wall, oom))
             EXCEPT !.timelimit = limit] :
     wall \in {600, 2000}, limit \in {500, 1000}, oom \in BOOLEAN}

\* Executions that never get so far.
Failures ==
  {[Execution("run", OneCase, <<>>, None) EXCEPT !.io = io, !.uuid7 = v7, !.compile = c, !.language = l] :
     l \in Languages, io \in {"ok", "source", "input"}, v7 \in BOOLEAN, c \in {"ok", "rejected", "broken"}}

MCExecutions == Outputs \union Endings \union Failures
==============================================================================
