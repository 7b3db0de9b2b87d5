---------------------------- MODULE MCPrivileges ----------------------------
(* Privileges on small instances.  u1 is the administrator of the forums    *)
(* that have accounts; each policy opens some entities to the commands.     *)
EXTENDS Privileges, TLC

CONSTANTS u1, u2, u3, t1, t2, m1, m2, g1, g2, c1, c2

Base ==
    [users |-> {u1, u2, u3}, first |-> u1,
     tagsOf |-> (t1 :> {g1, g2}), messages |-> (m1 :> [thread |-> t1, author |-> u2]),
     parent |-> (c1 :> Forum @@ c2 :> c1),
     required |-> [USE |-> 0, ADJUST |-> 1],
     levels |-> [l \in {"thread", "message"} |-> [value |-> 1, duration |-> 1]],
     default |-> 0, multiplier |-> 1, maxBonus |-> 1,
     values |-> {-1, 0, 2}, durations |-> {0, 1}, open |-> {Forum},
     levelValues |-> {0, 2}, levelDurations |-> {0}]

NoAccounts ==
    [Base EXCEPT !.open = {}, !.users = {}, !.first = NoUser,
                 !.tagsOf = <<>>, !.messages = <<>>,
                 !.levelValues = {-1, Top + 1}, !.levelDurations = {-1, 1}]

\* The bonus for two messages loses its high bits.
Wrapping == [Base EXCEPT !.multiplier = Limit \div 2, !.values = {-1},
                         !.durations = {0}, !.levelValues = {0}]

MCPolicies ==
    {Base, Wrapping, NoAccounts,
     [Base EXCEPT !.values = {1, Top}, !.durations = {0}],
     [Base EXCEPT !.open = {m1, t1}, !.values = {-2, 1}, !.durations = {1}],
     [Base EXCEPT !.open = {t1, g1}, !.values = {-1, 2}, !.durations = {1}],
     [Base EXCEPT !.open = {c1, c2}, !.values = {-1, 1}]}
=============================================================================
