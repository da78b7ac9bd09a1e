------------------------------ MODULE KeyExpiry ------------------------------
(***************************************************************************)
(* The key-timeout methods of BaseClient (src/node/src/BaseClient.ts):    *)
(* expire, expireAt, pexpire, pexpireAt and ttl, written, like the other  *)
(* commands in KeyValueCommands, as the effect their doc comments state.  *)
(*                                                                          *)
(* The server's database is timed: t.data maps each key to its entry, and *)
(* t.deadline maps the keys that have a timeout to the Unix time, in      *)
(* milliseconds, at which they are deleted.  now is the server's clock at *)
(* the moment it runs the command.  The optional ExpireOptions argument   *)
(* is left undefined: its type is declared in Commands.ts, which is not    *)
(* part of the sources modelled here.                                      *)
(***************************************************************************)
EXTENDS KeyValueCommands

NoDeadlines == [k \in {} |-> 0]

\* The database as the server sees it at time now: a key whose timeout has
\* expired is deleted ("After the timeout has expired, the key will
\* automatically be deleted").
Live(t, now) ==
    LET gone == {k \in DOMAIN t.deadline : t.deadline[k] <= now}
    IN [data |-> [k \in DOMAIN t.data |-> IF k \in gone THEN NoEntry ELSE t.data[k]],
        deadline |-> [k \in DOMAIN t.deadline \ gone |-> t.deadline[k]]]

\* Set the timeout of key to the Unix time at (ms): true if set, false if
\* key does not exist; a time that is not in the future deletes the key
\* ("If seconds is non-positive", "A timestamp in the past will delete the
\* key immediately").
ExpireTo(t, key, at, now) ==
    CASE t.data[key].type = "none" -> Res(t, Val([bool |-> FALSE]))
      [] at <= now ->
            Res([data |-> [t.data EXCEPT ![key] = NoEntry],
                 deadline |-> [k \in DOMAIN t.deadline \ {key} |-> t.deadline[k]]],
                Val([bool |-> TRUE]))
      [] OTHER -> Res([t EXCEPT !.deadline = (key :> at) @@ t.deadline], Val([bool |-> TRUE]))

\* Fault variant: the seconds of expire taken as milliseconds.
expire_unscaled(t, key, seconds, now) == ExpireTo(t, key, now + seconds, now)

\* expire / pexpire: a timeout of seconds / milliseconds from now.
expire(t, key, seconds, now) == ExpireTo(t, key, now + seconds * 1000, now)

pexpire(t, key, milliseconds, now) == ExpireTo(t, key, now + milliseconds, now)

\* expireAt / pexpireAt: a timeout at an absolute Unix time in seconds /
\* milliseconds.
expireAt(t, key, unixSeconds, now) == ExpireTo(t, key, unixSeconds * 1000, now)

pexpireAt(t, key, unixMilliseconds, now) == ExpireTo(t, key, unixMilliseconds, now)

\* ttl: -2 if key does not exist, -1 if it has no timeout, otherwise the
\* time to live in seconds (the milliseconds left, rounded to the nearest
\* second as the linked TTL command does).
ttl(t, key, now) ==
    CASE t.data[key].type = "none" -> Res(t, Val(IntVal(-2)))
      [] key \notin DOMAIN t.deadline -> Res(t, Val(IntVal(-1)))
      [] OTHER -> Res(t, Val(IntVal((t.deadline[key] - now + 500) \div 1000)))

\* The keys whose contents a command overwrites: set (when its condition
\* holds) and mset.
Overwritten(s, c) ==
    CASE c.method = "set" -> IF SetSkips(s, c.args[1], c.args[3]) THEN {} ELSE {c.args[1]}
      [] c.method = "mset" -> DOMAIN c.args[1]
      [] OTHER -> {}

\* Any other command r run on the live data keeps a key's timeout unless it
\* deleted or overwrote the key ("The timeout will only be cleared by
\* commands that delete or overwrite the contents of key").
KeepTimeouts(l, c, r) ==
    LET kept == {k \in DOMAIN l.deadline : r.st[k].type # "none"} \ Overwritten(l.data, c)
    IN Res([data |-> r.st, deadline |-> [k \in kept |-> l.deadline[k]]], r.rep)

====
