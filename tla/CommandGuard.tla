---------------------------- MODULE CommandGuard ----------------------------
(***************************************************************************)
(* The command guard of pkg/client/guard.go: every command that goes to    *)
(* the store, whoever sends it, is first given a verdict.  A command is    *)
(* its upper-case name and, for CONFIG, its upper-case sub-command.        *)
(***************************************************************************)

\* Names that are rejected whatever the mode.
BlockedCommands == {"FLUSHALL", "FLUSHDB", "SHUTDOWN", "DEBUG"}

\* A slip the properties must catch: a table that forgets the second name of a
\* pair of commands.
ShortTable ==
  {"SET", "DEL", "EXPIRE", "PERSIST", "HSET", "HDEL", "RPUSH", "SADD", "ZADD", "CONFIG"}

\* Names that are rejected in read-only mode.
MutatingCommands ==
  {"SET", "SETNX", "SETEX", "PSETEX", "MSET", "MSETNX", "APPEND",
   "INCR", "DECR", "INCRBY", "DECRBY", "INCRBYFLOAT",
   "DEL", "UNLINK", "EXPIRE", "EXPIREAT", "PEXPIRE", "PEXPIREAT", "PERSIST",
   "RENAME", "RENAMENX",
   "HSET", "HMSET", "HSETNX", "HDEL", "HINCRBY", "HINCRBYFLOAT",
   "LPUSH", "RPUSH", "LPUSHX", "RPUSHX", "LPOP", "RPOP", "LREM", "LSET",
   "LTRIM", "SADD", "SREM", "SPOP", "SMOVE",
   "ZADD", "ZINCRBY", "ZREM", "ZREMRANGEBYRANK", "ZREMRANGEBYSCORE",
   "ZREMRANGEBYLEX", "XADD", "XDEL", "XTRIM", "XGROUP",
   "JSON.SET", "JSON.DEL", "JSON.ARRAPPEND", "CONFIG"}

\* The verdict on a command.  CONFIG SET has a branch of its own in the code,
\* with the verdict every CONFIG gets from the table two lines below.
CheckCommand(readOnly, name, sub) ==
  IF name = "KEYS" \/ name \in BlockedCommands THEN "ErrBlockedCommand"
  ELSE IF readOnly /\ \/ name = "CONFIG" /\ sub = "SET"
                      \/ name \in MutatingCommands
       THEN "ErrReadOnly"
       ELSE "ok"
=============================================================================
