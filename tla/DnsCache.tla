------------------------------- MODULE DnsCache -------------------------------
(***************************************************************************)
(* The DNS cache of the sandbox (sandbox/backend/ssrf_guard.py), which the *)
(* check of every request of the page and the egress proxy share.  The     *)
(* lock is held while the cache is looked at and while it is written, not  *)
(* while getaddrinfo runs in between: several lookups of one name may be   *)
(* under way, and the last to return writes last.                          *)
(*                                                                         *)
(* Addresses are told apart only by whether they are blocked.  Instead of  *)
(* the moment it expires, an entry has the time it has left, and Tick is   *)
(* the clock.                                                              *)
(***************************************************************************)
EXTENDS Naturals, Sequences

CONSTANTS
  Hosts,       \* the names that are looked up
  Callers,     \* the coroutines that look them up
  Answers,     \* what getaddrinfo may return: sets of "public" and "blocked"
  Ttl,         \* _DNS_CACHE_TTL_SECONDS
  FailureTtl,  \* _DNS_FAILURE_TTL_SECONDS
  MaxEntries   \* _DNS_CACHE_MAX_ENTRIES

ASSUME CacheAssumption ==
  /\ Answers \subseteq SUBSET {"public", "blocked"}
  /\ Ttl \in Nat /\ FailureTtl \in 1 .. Ttl
  /\ MaxEntries \in Nat \ {0}

VARIABLES
  dns,         \* _dns_cache, the oldest entry first
  known,       \* for how long the last success for each name should be known
  asking,      \* the callers whose getaddrinfo is running
  overtaken    \* those of them that began before that success was stored

cached == <<dns, known, asking, overtaken>>

-----------------------------------------------------------------------------
Has(h) == \E k \in DOMAIN dns : dns[k].host = h

Place(h) == CHOOSE k \in DOMAIN dns : dns[k].host = h

Entry(h) == dns[Place(h)]

AllBut(k) == [j \in 1 .. Len(dns) - 1 |-> IF j < k THEN dns[j] ELSE dns[j + 1]]

Fresh(h) == Has(h) /\ Entry(h).left > 0

(* Mutant: the two lifetimes are swapped.                                  *)
SwappedLifetime(ips) == IF ips = {} THEN Ttl ELSE FailureTtl

Lifetime(ips) == IF ips = {} THEN FailureTtl ELSE Ttl

(* The entry is found, and becomes the most recently used.                 *)
Hit(h) == /\ Fresh(h)
          /\ dns' = Append(AllBut(Place(h)), Entry(h))
          /\ UNCHANGED <<known, asking, overtaken>>

Miss(c, h) == /\ ~Fresh(h)
              /\ asking' = asking \cup {c}
              /\ UNCHANGED <<dns, known, overtaken>>

(* The name's old entry makes room for the new one, or the oldest entry of *)
(* a full cache does.                                                      *)
Room(h) == IF Has(h) THEN AllBut(Place(h))
           ELSE IF Len(dns) < MaxEntries THEN dns ELSE AllBut(1)

Evicted(h) == IF Has(h) \/ Len(dns) < MaxEntries THEN {} ELSE {dns[1].host}

(* getaddrinfo has returned ips to c.  Rivals are the other callers that   *)
(* are still asking for h.                                                 *)
Store(c, h, ips, rivals) ==
  /\ c \in asking
  /\ dns' = Append(Room(h), [host |-> h, ips |-> ips, left |-> Lifetime(ips)])
  /\ asking' = asking \ {c}
  /\ overtaken' = (overtaken \cup IF ips = {} THEN {} ELSE rivals) \ {c}
  /\ known' = [g \in Hosts |->
       CASE g \in Evicted(h)                         -> 0
         [] g = h /\ ips # {}                        -> Ttl
         [] g = h /\ ips = {} /\ c \in overtaken     -> 0
         [] OTHER                                    -> known[g]]

(* The clock.                                                              *)
Minus1(n) == IF n = 0 THEN 0 ELSE n - 1

Tick == /\ dns' = [k \in DOMAIN dns |-> [dns[k] EXCEPT !.left = Minus1(@)]]
        /\ known' = [h \in Hosts |-> Minus1(known[h])]
        /\ UNCHANGED <<asking, overtaken>>

CacheInit == /\ dns = <<>>
             /\ known = [h \in Hosts |-> 0]
             /\ asking = {}
             /\ overtaken = {}

-----------------------------------------------------------------------------
(* is_target_allowed, of all the addresses that were returned.             *)
TargetAllowed(ips) == ips = {"public"}

(* resolve_validated_ip finds one that is not blocked.                     *)
Validated(ips) == "public" \in ips
=============================================================================
