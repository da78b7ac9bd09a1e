--------------------------- MODULE KeyValueCommands ---------------------------
(***************************************************************************)
(* The command methods of BaseClient (src/node/src/BaseClient.ts) that    *)
(* the Pipeline runs call: the string, key, hash, list and set commands   *)
(* below.  Each method sends one command through                           *)
(* createWritePromise; its doc comment states what the command does to     *)
(* the key it names and what the promise resolves to.  A method is         *)
(* written here as that effect: method(s, ...) is the record [st, rep] of  *)
(* the database after the command and the reply, from database s.         *)
(*                                                                          *)
(* A database maps each key to NoEntry or to an entry of one type.  A      *)
(* value is tagged with its JavaScript type: [int |-> n] is a string that  *)
(* holds an integer, [str |-> t] any other string, [list |-> ...],         *)
(* [set |-> ...], [hash |-> ...], [bool |-> ...], [null |-> TRUE].  A      *)
(* reply is the OK constant, null, a value, or a request error (wrong      *)
(* type, not an integer: both RequestErrorType.Unspecified on the wire).   *)
(* A command on a key of another type is an error, as the commands the doc *)
(* comments link to say.  A string holding a number with a fraction is      *)
(* [float |-> r], r a dyadic rational [num, den] (amounts such as 0.5 are   *)
(* exact in double precision).                                              *)
(***************************************************************************)
EXTENDS Integers, Sequences, SequencesExt, FiniteSets, Functions

Q == INSTANCE DyadicRationals

NoEntry == [type |-> "none"]
Str(v) == [type |-> "string", v |-> v]
List(v) == [type |-> "list", v |-> v]
Hash(v) == [type |-> "hash", v |-> v]
SetOf(v) == [type |-> "set", v |-> v]

IntVal(n) == [int |-> n]
Null == [null |-> TRUE]

OKReply == [kind |-> "ok"]
NullReply == [kind |-> "null"]
Val(v) == [kind |-> "value", v |-> v]
ErrReply == [kind |-> "error", type |-> "Unspecified"]

\* The result of a command: the database after it and its reply.
Res(st, rep) == [st |-> st, rep |-> rep]
Fails(s) == Res(s, ErrReply)

\* An entry is of type t, or absent (an empty value of any type).
Holds(s, k, t) == s[k].type \in {t, "none"}

-----------------------------------------------------------------------------
(* Strings and counters                                                    *)

\* get: the value of key, or null if no such value exists.
get(s, key) ==
    CASE s[key].type = "none" -> Res(s, NullReply)
      [] s[key].type = "string" -> Res(s, Val(s[key].v))
      [] OTHER -> Fails(s)

\* set leaves the key alone when its condition is not met.
SetSkips(s, key, options) ==
    \/ options.conditionalSet = "onlyIfExists" /\ s[key].type = "none"
    \/ options.conditionalSet = "onlyIfDoesNotExist" /\ s[key].type # "none"

\* set: OK once set; null when onlyIfExists / onlyIfDoesNotExist is not
\* met; the old value (or null) instead of OK when returnOldValue is set.
set(s, key, value, options) ==
    LET exists == s[key].type # "none"
        old == IF exists THEN Val(s[key].v) ELSE NullReply
        skip == SetSkips(s, key, options)
        st == IF skip THEN s ELSE [s EXCEPT ![key] = Str(value)]
    IN IF options.returnOldValue
       THEN IF exists /\ s[key].type # "string" THEN Fails(s) ELSE Res(st, old)
       ELSE Res(st, IF skip THEN NullReply ELSE OKReply)

\* incrBy: add amount to the integer at key (0 if absent) and reply with
\* the result; an error if key holds no integer.  incr is incrBy by 1.
incrBy(s, key, amount) ==
    CASE s[key].type = "none" ->
            Res([s EXCEPT ![key] = Str(IntVal(amount))], Val(IntVal(amount)))
      [] s[key].type = "string" /\ "int" \in DOMAIN s[key].v ->
            LET n == s[key].v.int + amount
            IN Res([s EXCEPT ![key] = Str(IntVal(n))], Val(IntVal(n)))
      [] OTHER -> Fails(s)

incr(s, key) == incrBy(s, key, 1)

\* decr / decrBy: incrBy by -1 / -amount.
decrBy(s, key, amount) == incrBy(s, key, -amount)

decr(s, key) == decrBy(s, key, 1)

\* A value incrByFloat can parse as a number, and that number.
IsNumber(v) == "int" \in DOMAIN v \/ "float" \in DOMAIN v
AsNumber(v) == IF "int" \in DOMAIN v THEN [num |-> v.int, den |-> 1] ELSE v.float

\* The number a float increment stores and replies with: written without a
\* fraction when it has none, so that incr can read it again.
NumVal(r) == IF r.den = 1 THEN IntVal(r.num) ELSE [float |-> r]

\* incrByFloat: add amount to the number at key (0 if absent) and reply
\* with the result; an error if key holds no number.
incrByFloat(s, key, amount) ==
    CASE s[key].type = "none" ->
            Res([s EXCEPT ![key] = Str(NumVal(amount))], Val(NumVal(amount)))
      [] s[key].type = "string" /\ IsNumber(s[key].v) ->
            LET n == NumVal(Q!Add(AsNumber(s[key].v), amount))
            IN Res([s EXCEPT ![key] = Str(n)], Val(n))
      [] OTHER -> Fails(s)

\* The value of a key as mget reads it: null unless it holds a string.
StrOrNull(s, k) == IF s[k].type = "string" THEN s[k].v ELSE Null

\* mget: the values of the keys in order, null for a missing key.
mget(s, keys) == Res(s, Val([list |-> [i \in DOMAIN keys |-> StrOrNull(s, keys[i])]]))

\* mset: set every key of the map to its value; always OK.
mset(s, keyValueMap) ==
    Res([k \in DOMAIN s |-> IF k \in DOMAIN keyValueMap THEN Str(keyValueMap[k]) ELSE s[k]],
        OKReply)

\* del / unlink: remove the keys; reply with how many existed (a key named
\* twice is removed once).
del(s, keys) ==
    LET gone == {k \in ToSet(keys) : s[k].type # "none"}
    IN Res([k \in DOMAIN s |-> IF k \in gone THEN NoEntry ELSE s[k]],
           Val(IntVal(Cardinality(gone))))

unlink(s, keys) == del(s, keys)

\* exists: how many of keys exist, a key named twice counted twice.
exists(s, keys) ==
    Res(s, Val(IntVal(Len(SelectSeq(keys, LAMBDA k : s[k].type # "none")))))

-----------------------------------------------------------------------------
(* Hashes                                                                  *)

Fields(s, key) == IF s[key].type = "hash" THEN s[key].v ELSE <<>>

\* hset: set the fields of the map; reply with the number of fields added.
hset(s, key, fieldValueMap) ==
    IF ~Holds(s, key, "hash") THEN Fails(s)
    ELSE Res([s EXCEPT ![key] = Hash(fieldValueMap @@ Fields(s, key))],
             Val(IntVal(Cardinality(DOMAIN fieldValueMap \ DOMAIN Fields(s, key)))))

\* hincrBy: add amount to the integer at field (0 if absent).
hincrBy(s, key, field, amount) ==
    LET h == Fields(s, key)
        old == IF field \in DOMAIN h THEN h[field] ELSE IntVal(0)
    IN IF ~Holds(s, key, "hash") \/ "int" \notin DOMAIN old THEN Fails(s)
       ELSE Res([s EXCEPT ![key] = Hash((field :> IntVal(old.int + amount)) @@ h)],
                Val(IntVal(old.int + amount)))

\* hincrByFloat: add amount to the number at field (0 if absent).
hincrByFloat(s, key, field, amount) ==
    LET h == Fields(s, key)
        old == IF field \in DOMAIN h THEN h[field] ELSE IntVal(0)
        n == NumVal(Q!Add(AsNumber(old), amount))
    IN IF ~Holds(s, key, "hash") \/ ~IsNumber(old) THEN Fails(s)
       ELSE Res([s EXCEPT ![key] = Hash((field :> n) @@ h)], Val(n))

\* The value at field, or null (a missing field or key).
FieldOrNull(s, key, field) ==
    IF field \in DOMAIN Fields(s, key) THEN Fields(s, key)[field] ELSE Null

\* hget / hmget: the value of a field / of each field in order.
hget(s, key, field) ==
    IF ~Holds(s, key, "hash") THEN Fails(s)
    ELSE Res(s, Val(FieldOrNull(s, key, field)))

hmget(s, key, fields) ==
    IF ~Holds(s, key, "hash") THEN Fails(s)
    ELSE Res(s, Val([list |-> [i \in DOMAIN fields |-> FieldOrNull(s, key, fields[i])]]))

\* hexists: whether the hash holds field (false for a missing key).
hexists(s, key, field) ==
    IF ~Holds(s, key, "hash") THEN Fails(s)
    ELSE Res(s, Val([bool |-> field \in DOMAIN Fields(s, key)]))

\* hgetall: every field and its value; empty for a missing key.
hgetall(s, key) ==
    IF ~Holds(s, key, "hash") THEN Fails(s)
    ELSE Res(s, Val([hash |-> Fields(s, key)]))

\* hdel: remove the fields; reply with how many existed.  A hash left
\* empty is removed.
hdel(s, key, fields) ==
    LET h == Fields(s, key)
        gone == ToSet(fields) \cap DOMAIN h
        left == [f \in DOMAIN h \ gone |-> h[f]]
    IN IF ~Holds(s, key, "hash") THEN Fails(s)
       ELSE Res([s EXCEPT ![key] = IF DOMAIN left = {} THEN NoEntry ELSE Hash(left)],
                Val(IntVal(Cardinality(gone))))

-----------------------------------------------------------------------------
(* Lists                                                                   *)

Elements(s, key) == IF s[key].type = "list" THEN s[key].v ELSE <<>>

\* lpush inserts the elements at the head one after the other (the last
\* one ends first) and replies with the new length.
lpush(s, key, elements) ==
    LET l == Reverse(elements) \o Elements(s, key)
    IN IF ~Holds(s, key, "list") THEN Fails(s)
       ELSE Res([s EXCEPT ![key] = List(l)], Val(IntVal(Len(l))))

\* rpop: remove and return the last element, null if key does not exist.
\* A list left empty is removed.
Pop(s, key, rest, elem) ==
    IF ~Holds(s, key, "list") THEN Fails(s)
    ELSE IF Elements(s, key) = <<>> THEN Res(s, NullReply)
    ELSE Res([s EXCEPT ![key] = IF Len(Elements(s, key)) = 1 THEN NoEntry
                                ELSE List(rest)],
             Val(elem))

rpop(s, key) == Pop(s, key, Front(Elements(s, key)), Last(Elements(s, key)))

\* lpop: the same from the head.
lpop(s, key) == Pop(s, key, Tail(Elements(s, key)), Head(Elements(s, key)))

\* lpopCount / rpopCount: up to count elements from the head / tail, in
\* the order popped; null if key does not exist.
PopCount(s, key, taken, rest) ==
    IF ~Holds(s, key, "list") THEN Fails(s)
    ELSE IF Elements(s, key) = <<>> THEN Res(s, NullReply)
    ELSE Res([s EXCEPT ![key] = IF rest = <<>> THEN NoEntry ELSE List(rest)],
             Val([list |-> taken]))

TakeN(l, count) == IF count < Len(l) THEN count ELSE Len(l)

lpopCount(s, key, count) ==
    LET l == Elements(s, key)  n == TakeN(l, count)
    IN PopCount(s, key, SubSeq(l, 1, n), SubSeq(l, n + 1, Len(l)))

rpopCount(s, key, count) ==
    LET l == Elements(s, key)  n == TakeN(l, count)
    IN PopCount(s, key, Reverse(SubSeq(l, Len(l) - n + 1, Len(l))),
                SubSeq(l, 1, Len(l) - n))

\* rpush appends the elements at the tail; replies with the new length.
rpush(s, key, elements) ==
    LET l == Elements(s, key) \o elements
    IN IF ~Holds(s, key, "list") THEN Fails(s)
       ELSE Res([s EXCEPT ![key] = List(l)], Val(IntVal(Len(l))))

\* llen: the length, 0 for a missing key.
llen(s, key) ==
    IF ~Holds(s, key, "list") THEN Fails(s)
    ELSE Res(s, Val(IntVal(Len(Elements(s, key)))))

\* The elements between the zero-based offsets start and end, both
\* included: a negative offset counts from the end (-1 is the last), end
\* past the last element stops at it, and start past the end or after end
\* gives the empty list.
Offsets(l, start, end) ==
    LET n == Len(l)
        a == IF start >= 0 THEN start ELSE IF start + n > 0 THEN start + n ELSE 0
        b == IF end < 0 THEN end + n ELSE IF end >= n THEN n - 1 ELSE end
    IN IF a > b \/ a >= n THEN <<>> ELSE SubSeq(l, a + 1, b + 1)

\* lrange: the elements in the range; empty for a missing key.
lrange(s, key, start, end) ==
    IF ~Holds(s, key, "list") THEN Fails(s)
    ELSE Res(s, Val([list |-> Offsets(Elements(s, key), start, end)]))

\* ltrim: keep only the range; an empty result removes the key, a
\* missing key is ignored; always OK.
ltrim(s, key, start, end) ==
    LET kept == Offsets(Elements(s, key), start, end)
    IN IF ~Holds(s, key, "list") THEN Fails(s)
       ELSE Res([s EXCEPT ![key] = IF kept = <<>> THEN NoEntry ELSE List(kept)], OKReply)

\* lrem: remove the first count elements equal to element from the head
\* (count > 0), from the tail (count < 0), or all of them (count = 0).
lrem(s, key, count, element) ==
    LET l == Elements(s, key)
        fromHead(i) == Cardinality({j \in 1 .. i : l[j] = element})
        fromTail(i) == Cardinality({j \in i .. Len(l) : l[j] = element})
        removed(i) == /\ l[i] = element
                      /\ \/ count = 0
                         \/ count > 0 /\ fromHead(i) <= count
                         \/ count < 0 /\ fromTail(i) <= -count
        keep == SelectSeq([i \in 1 .. Len(l) |-> i], LAMBDA i : ~removed(i))
        left == [j \in 1 .. Len(keep) |-> l[keep[j]]]
    IN IF ~Holds(s, key, "list") THEN Fails(s)
       ELSE Res([s EXCEPT ![key] = IF left = <<>> THEN NoEntry ELSE List(left)],
                Val(IntVal(Len(l) - Len(left))))

-----------------------------------------------------------------------------
(* Sets                                                                    *)

Members(s, key) == IF s[key].type = "set" THEN s[key].v ELSE {}

\* sadd / srem: add / remove the members, reply with how many were added /
\* removed.  A set left empty is removed.
sadd(s, key, members) ==
    IF ~Holds(s, key, "set") THEN Fails(s)
    ELSE Res([s EXCEPT ![key] = SetOf(Members(s, key) \cup ToSet(members))],
             Val(IntVal(Cardinality(ToSet(members) \ Members(s, key)))))

\* smembers / scard: the members / their number; empty / 0 if missing.
smembers(s, key) ==
    IF ~Holds(s, key, "set") THEN Fails(s) ELSE Res(s, Val([set |-> Members(s, key)]))

scard(s, key) ==
    IF ~Holds(s, key, "set") THEN Fails(s)
    ELSE Res(s, Val(IntVal(Cardinality(Members(s, key)))))

srem(s, key, members) ==
    LET left == Members(s, key) \ ToSet(members)
    IN IF ~Holds(s, key, "set") THEN Fails(s)
       ELSE Res([s EXCEPT ![key] = IF left = {} THEN NoEntry ELSE SetOf(left)],
                Val(IntVal(Cardinality(Members(s, key) \cap ToSet(members)))))

====
