----------------------------- MODULE DnsWrapper -----------------------------
(***************************************************************************)
(* getaddrinfo_k (DNS_WRAPPER.cpp): a name is looked up with c-ares, whose *)
(* callback leaves the address in the global ip_ret_DNS_WRAPPER.  A mutex  *)
(* is held around the query, but the global is reset before it is taken,   *)
(* and c-ares is destroyed (which answers a query that is still open) and  *)
(* the global tested and read after it was released.  Any number of        *)
(* threads call it; the address of a name is written as the name itself.   *)
(***************************************************************************)
CONSTANTS
  Threads,      \* the threads that look names up
  Names,        \* the names they ask for
  IP_NOT_FOUND  \* the global when there is no address: 0, that is 0.0.0.0

ASSUME DnsAssumption == IP_NOT_FOUND \notin Names

VARIABLES
  dns,          \* where each thread is in getaddrinfo_k
  asked,        \* its dns_address
  pending,      \* its query is still open
  test,         \* the value of the global its test saw, until it is read
  ip_addr,      \* its result
  ip_ret_DNS_WRAPPER,
  mutex_DNS_WRAPPER, \* who holds it
  rivals        \* the names asked for by other threads while its call lasts

dnsVars == <<dns, asked, pending, test, ip_addr, ip_ret_DNS_WRAPPER, mutex_DNS_WRAPPER, rivals>>

Nobody == "nobody"

Looking(t) == dns[t] \notin {"out", "found", "not_found"}

DnsInit ==
  /\ dns = [t \in Threads |-> "out"]
  /\ asked = [t \in Threads |-> IP_NOT_FOUND]
  /\ pending = [t \in Threads |-> FALSE]
  /\ test = [t \in Threads |-> IP_NOT_FOUND]
  /\ ip_addr = [t \in Threads |-> IP_NOT_FOUND]
  /\ ip_ret_DNS_WRAPPER = IP_NOT_FOUND
  /\ mutex_DNS_WRAPPER = Nobody
  /\ rivals = [t \in Threads |-> {}]

DnsCall(t, name) ==
  /\ ~Looking(t)
  /\ dns' = [dns EXCEPT ![t] = "reset"]
  /\ asked' = [asked EXCEPT ![t] = name]
  /\ rivals' = [u \in Threads |-> IF u = t THEN {asked[v] : v \in {w \in Threads \ {t} : Looking(w)}}
                                  ELSE IF Looking(u) THEN rivals[u] \cup {name} ELSE rivals[u]]
  /\ UNCHANGED <<pending, test, ip_addr, ip_ret_DNS_WRAPPER, mutex_DNS_WRAPPER>>

Reset(t) ==
  /\ dns[t] = "reset"
  /\ ip_ret_DNS_WRAPPER' = IP_NOT_FOUND
  /\ dns' = [dns EXCEPT ![t] = "lock"]
  /\ UNCHANGED <<asked, pending, test, ip_addr, mutex_DNS_WRAPPER, rivals>>

\* ares_library_init or ares_init_options fails.
AresFails(t) ==
  /\ dns[t] = "lock"
  /\ dns' = [dns EXCEPT ![t] = "not_found"]
  /\ UNCHANGED <<asked, pending, test, ip_addr, ip_ret_DNS_WRAPPER, mutex_DNS_WRAPPER, rivals>>

Lock(t) ==
  /\ dns[t] = "lock"
  /\ mutex_DNS_WRAPPER = Nobody
  /\ mutex_DNS_WRAPPER' = t
  /\ dns' = [dns EXCEPT ![t] = "query"]
  /\ UNCHANGED <<asked, pending, test, ip_addr, ip_ret_DNS_WRAPPER, rivals>>

\* The callback, with ARES_SUCCESS or with another status.
callback(t) == ip_ret_DNS_WRAPPER' \in {asked[t], IP_NOT_FOUND}

\* ares_gethostbyname: answered at once (nfds is 0 then), or a query is sent.
Query(t) ==
  /\ dns[t] = "query"
  /\ \/ callback(t) /\ dns' = [dns EXCEPT ![t] = "unlock"] /\ UNCHANGED pending
     \/ /\ dns' = [dns EXCEPT ![t] = "select"]
        /\ pending' = [pending EXCEPT ![t] = TRUE]
        /\ UNCHANGED ip_ret_DNS_WRAPPER
  /\ UNCHANGED <<asked, test, ip_addr, mutex_DNS_WRAPPER, rivals>>

\* One select with a time-out, then ares_process: an answer, or not yet.
Select(t) ==
  /\ dns[t] = "select"
  /\ \/ callback(t) /\ pending' = [pending EXCEPT ![t] = FALSE]
     \/ UNCHANGED <<ip_ret_DNS_WRAPPER, pending>>
  /\ dns' = [dns EXCEPT ![t] = "unlock"]
  /\ UNCHANGED <<asked, test, ip_addr, mutex_DNS_WRAPPER, rivals>>

Unlock(t) ==
  /\ dns[t] = "unlock"
  /\ mutex_DNS_WRAPPER' = Nobody
  /\ dns' = [dns EXCEPT ![t] = "destroy"]
  /\ UNCHANGED <<asked, pending, test, ip_addr, ip_ret_DNS_WRAPPER, rivals>>

\* ares_destroy calls the callback of an open query with ARES_EDESTRUCTION.
Destroy(t) ==
  /\ dns[t] = "destroy"
  /\ ip_ret_DNS_WRAPPER' = IF pending[t] THEN IP_NOT_FOUND ELSE ip_ret_DNS_WRAPPER
  /\ pending' = [pending EXCEPT ![t] = FALSE]
  /\ dns' = [dns EXCEPT ![t] = "test"]
  /\ UNCHANGED <<asked, test, ip_addr, mutex_DNS_WRAPPER, rivals>>

\* Mutant: the result is not tested.
Test_Trusting(t) ==
  /\ dns[t] = "test"
  /\ test' = [test EXCEPT ![t] = ip_ret_DNS_WRAPPER]
  /\ dns' = [dns EXCEPT ![t] = "read"]
  /\ UNCHANGED <<asked, pending, ip_addr, ip_ret_DNS_WRAPPER, mutex_DNS_WRAPPER, rivals>>

Test(t) ==
  /\ dns[t] = "test"
  /\ test' = [test EXCEPT ![t] = ip_ret_DNS_WRAPPER]
  /\ dns' = [dns EXCEPT ![t] = IF ip_ret_DNS_WRAPPER = IP_NOT_FOUND THEN "not_found" ELSE "read"]
  /\ UNCHANGED <<asked, pending, ip_addr, ip_ret_DNS_WRAPPER, mutex_DNS_WRAPPER, rivals>>

\* The global is a plain variable: the compiler may load it again or not.
ReadResult(t) ==
  /\ dns[t] = "read"
  /\ \E ip \in {test[t], ip_ret_DNS_WRAPPER} : ip_addr' = [ip_addr EXCEPT ![t] = ip]
  /\ dns' = [dns EXCEPT ![t] = "found"]
  /\ test' = [test EXCEPT ![t] = IP_NOT_FOUND]
  /\ UNCHANGED <<asked, pending, ip_ret_DNS_WRAPPER, mutex_DNS_WRAPPER, rivals>>

DnsStep(t) ==
  \/ Reset(t) \/ AresFails(t) \/ Lock(t) \/ Query(t) \/ Select(t)
  \/ Unlock(t) \/ Destroy(t) \/ Test(t) \/ ReadResult(t)

DnsNext == \E t \in Threads : DnsStep(t) \/ \E name \in Names : DnsCall(t, name)

DnsSpec == DnsInit /\ [][DnsNext]_dnsVars

-----------------------------------------------------------------------------
(* Properties *)

\* A lookup that no other one overlapped finds the address of its own name.
\* With others at work it can return the address of one of their names, or
\* claim success with 0.0.0.0, but never an address left by an earlier lookup.
AnswersOverlappingLookup ==
  \A t \in Threads :
    dns[t] = "found" =>
      \/ ip_addr[t] = asked[t]
      \/ rivals[t] # {} /\ ip_addr[t] \in rivals[t] \cup {IP_NOT_FOUND}
=============================================================================
