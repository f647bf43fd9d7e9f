----------------------------- MODULE MCAppStart ------------------------------
(***************************************************************************)
(* TLC instances of AppStart: two controllers, three cores, and the        *)
(* situations the runs start from.                                         *)
(***************************************************************************)
EXTENDS AppStart

CONSTANTS c0, c1, x, y, z

Manager(app, cores) ==
  [IdleCore EXCEPT !.state = "IDLE_AGENT", !.app_state = "RUNNING",
                   !.my_app = app, !.my_cores = cores]
Worker(agent) ==
  [IdleCore EXCEPT !.state = "WORKING_NODE", !.agents = <<agent>>]
For(core, apps) == [k \in DOMAIN apps |-> [app |-> apps[k], core |-> core]]

\* Nothing on the way; z manages application 1, which runs on (there is work
\* left that nobody has), and 2 has ended.  Applications 3 and 4 are for x.
Quiet ==
  [node |-> [n \in Core |-> IF n = z THEN Manager(1, {z}) ELSE IdleCore],
   owing |-> [n \in Core |-> {n} \cap {z}],
   inter |-> [n \in Node |-> [p \in Node |-> <<>>]],
   mail |-> [n \in Node |-> <<>>], scenario |-> For(x, <<3, 4>>),
   free |-> {x, y}, ended |-> {2}]

\* As Quiet, but application 4 is for y.
Both == [Quiet EXCEPT !.scenario = For(x, <<3>>) \o For(y, <<4>>)]

\* As Quiet, but x manages application 2 with worker y, which is at work, and
\* its timer runs for another round of self-optimisation; 3 has ended.
Running ==
  [Quiet EXCEPT
     !.node[x] = [Manager(2, {x, y}) EXCEPT !.rounds = 1, !.timer = TRUE,
                                            !.rem = TRUE],
     !.node[y] = Worker(x), !.owing[x] = {y}, !.free = {}, !.ended = {3},
     !.scenario = For(x, <<4>>)]

\* y works for x, which manages application 1, with more work left, and has
\* given y away; z has made y the manager of application 2, and y has taken
\* application 3.
Given ==
  [Quiet EXCEPT
     !.node = [Quiet.node EXCEPT
                 ![x] = Manager(1, {x}), ![z] = IdleCore,
                 ![y] = [Worker(x) EXCEPT
                           !.pending_state = "AGENT_INIT_APP_INIT",
                           !.my_app = 2, !.my_cores = {y, z},
                           !.init_app = 3]],
     !.owing = [n \in Core |-> IF n = x THEN {x, y} ELSE {}],
     !.free = {}, !.ended = {}, !.scenario = For(y, <<4>>)]

\* x belongs to the cluster of c1, and both controllers are around x.
XApart == [n \in Core |-> IF n = x THEN c1 ELSE c0]
AroundX == [n \in Core |-> IF n = x THEN {c0, c1} ELSE {c0}]
RunningOnly == {Running}
AllStarts == {Quiet, Both, Running, Given}
=============================================================================
