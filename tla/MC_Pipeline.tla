----------------------------- MODULE MC_Pipeline -----------------------------
(* Model-checking instances of Pipeline: workloads of three pipelined     *)
(* calls on one or two keys, made in any order; the connection request is *)
(* a model value.                                                          *)
EXTENDS Pipeline, TLC

CONSTANTS conn

Call(n, method, args) == [n |-> n, cmd |-> [method |-> method, args |-> args]]
NoOptions == [conditionalSet |-> "none", returnOldValue |-> FALSE]

MC_Keys == {"k", "j"}

ValA == [str |-> "a"]
ValB == [str |-> "b"]

\* Strings: a conditional set returning the old value, an increment that
\* fails on a non-integer or creates the key, and a read.
MC_Strings ==
    {Call(1, "set", <<"k", [str |-> "a"], [conditionalSet |-> "onlyIfDoesNotExist",
                                 returnOldValue |-> TRUE]>>),
     Call(2, "incr", <<"k">>), Call(3, "get", <<"k">>)}

\* Hashes and lists on one key: wrong-type errors depend on the order.
MC_HashList ==
    {Call(1, "hset", <<"k", "f" :> IntVal(1)>>), Call(2, "hincrBy", <<"k", "f", 2>>),
     Call(3, "lpush", <<"k", <<[str |-> "a"], [str |-> "b"]>> >>)}

\* Lists and sets on one key: a pop from a missing key, wrong types, and a
\* set emptied by a removal.
MC_ListSet ==
    {Call(1, "rpop", <<"k">>), Call(2, "sadd", <<"k", <<[str |-> "a"], [str |-> "b"]>> >>),
     Call(3, "srem", <<"k", <<[str |-> "a"], [str |-> "b"]>> >>)}

\* Two keys: mset over both, a delete, then a read of both.
MC_MultiKey ==
    {Call(1, "mset", <<("k" :> ValA) @@ ("j" :> IntVal(1))>>), Call(2, "del", <<<<"k", "k">> >>),
     Call(3, "mget", <<<<"k", "j">> >>)}

\* Counters and key counting: decrBy on a missing key, exists naming a
\* key twice, unlink.
MC_Counters ==
    {Call(1, "decrBy", <<"k", 2>>), Call(2, "exists", <<<<"k", "k", "j">> >>),
     Call(3, "unlink", <<<<"k", "j">> >>)}

\* List offsets: lrem from the tail, a range with a negative end.
MC_ListRange ==
    {Call(1, "rpush", <<"k", <<ValA, ValB, ValA>> >>), Call(2, "lrem", <<"k", -1, ValA>>),
     Call(3, "lrange", <<"k", 0, -2>>)}

\* ltrim past the end, a pop of more elements than the list holds.
MC_ListTrim ==
    {Call(1, "rpush", <<"k", <<ValA, ValB>> >>), Call(2, "ltrim", <<"k", 1, 5>>),
     Call(3, "lpopCount", <<"k", 3>>)}

\* Pops from both ends that empty the list.
MC_Pops ==
    {Call(1, "lpush", <<"k", <<ValA, ValB, ValA>> >>), Call(2, "rpopCount", <<"k", 2>>),
     Call(3, "lpop", <<"k">>)}

\* Hash reads, which fail once a set is at the key.
MC_Reads ==
    {Call(1, "hget", <<"k", "f">>), Call(2, "hexists", <<"k", "f">>),
     Call(3, "sadd", <<"k", <<ValA>> >>)}

\* Set reads and a list read around a removal from a missing set.
MC_SetReads ==
    {Call(1, "srem", <<"k", <<ValA>> >>), Call(2, "smembers", <<"k">>),
     Call(3, "llen", <<"k">>)}

\* Whole-value reads against a decrement.
MC_WholeReads ==
    {Call(1, "hgetall", <<"k">>), Call(2, "scard", <<"k">>), Call(3, "decr", <<"k">>)}

\* Key timeouts: a relative timeout and the time left, read before or
\* after the timeout is set and before or after it expires.
MC_Expire ==
    {Call(1, "set", <<"k", ValA, NoOptions>>), Call(2, "expire", <<"k", 1>>),
     Call(3, "ttl", <<"k">>)}

\* A counter set by incrBy, given a timeout in milliseconds and an absolute
\* one in seconds: each timeout method returns whether the key existed.
MC_PExpire ==
    {Call(1, "incrBy", <<"j", 5>>), Call(2, "pexpire", <<"j", 1000>>),
     Call(3, "expireAt", <<"j", 1>>)}

\* An absolute timeout that is never in the future deletes the key.
MC_PExpireAt ==
    {Call(1, "set", <<"k", ValA, NoOptions>>), Call(2, "pexpireAt", <<"k", 0>>),
     Call(3, "exists", <<<<"k">> >>)}

\* The Lua script with hash "getOrSet":
\*   local v = redis.call('GET', KEYS[1])
\*   if v then return v end
\*   redis.call('SET', KEYS[1], ARGV[1])
\*   return ARGV[1]
\* A GET on a key of another type raises, and the script returns that error.
MC_EvalScript(hash, s, keys, args) ==
    LET g == get(s, keys[1])
    IN IF g.rep.kind = "null"
       THEN Res(set(s, keys[1], args[1], NoOptions).st, Val(args[1]))
       ELSE g

\* The script pipelined with a set of the key it reads and writes and a
\* push that, when it comes first, makes the key a list the script's GET
\* fails on.
MC_Scripts ==
    {Call(1, "invokeScript", <<"getOrSet", [keys |-> <<"k">>, args |-> <<ValA>>]>>),
     Call(2, "set", <<"k", ValB, NoOptions>>),
     Call(3, "lpush", <<"k", <<ValA>> >>)}

\* Workloads on key timeouts, and the script.
MC_TimeoutWorkloads == {MC_Expire, MC_PExpire, MC_PExpireAt, MC_Scripts}

\* The server starts empty, its clock at 0: a timeout set by a relative
\* method is still ahead, pexpireAt(k, 0) is not.
MC_EmptyStart == {[data |-> [k \in MC_Keys |-> NoEntry], deadline |-> NoDeadlines]}
MC_NoTime == {0}

\* Float increments: halves added to a key an integer increment also
\* changes; two halves make a whole number, which incr can read again.
Half == [num |-> 1, den |-> 2]
MC_Floats ==
    {Call(1, "incrByFloat", <<"k", Half>>), Call(2, "incr", <<"k">>),
     Call(3, "incrByFloat", <<"k", Half>>)}

\* A half added to a hash field, fields removed and read back.
MC_HashFloats ==
    {Call(1, "hincrByFloat", <<"k", "f", Half>>), Call(2, "hdel", <<"k", <<"f", "h">> >>),
     Call(3, "hmget", <<"k", <<"f", "g">> >>)}

\* Workloads on strings, counters, several keys and hash fields.
MC_KeyWorkloads == {MC_Strings, MC_MultiKey, MC_Counters, MC_Reads, MC_Floats}

\* Workloads on lists, sets and whole-value reads across types.
MC_CollectionWorkloads == {MC_HashList, MC_ListSet, MC_ListRange, MC_ListTrim, MC_Pops,
                           MC_SetReads, MC_WholeReads, MC_HashFloats}

\* Every workload.
MC_CommandWorkloads == MC_KeyWorkloads \cup MC_CollectionWorkloads \cup MC_TimeoutWorkloads

====
