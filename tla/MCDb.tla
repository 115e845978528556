-------------------------------- MODULE MCDb --------------------------------
EXTENDS DbSqlite

CONSTANTS t1, t2, users, logs

(* insert into users(...) values(...)                                      *)
MCStmts == { [tab |-> users, names |-> {users}, values |-> TRUE] }

MCFaults == FaultKinds
=============================================================================
