---------------------------- MODULE Sessions_proofs ----------------------------
(***************************************************************************)
(* The sessions that own themselves and the sockets of rtp, proved safe for *)
(* every number of requests, hosts, ports, reads and datagrams.             *)
(***************************************************************************)
EXTENDS Sessions, SequenceTheorems, FiniteSetTheorems, FunctionTheorems, WellFoundedInduction, TLAPS

-----------------------------------------------------------------------------
(* HttpProxy: an inductive invariant of a proxy p, in named parts.          *)

\* One server at most is named, and every request names it; what a server
\* answers to keep the connection has a length; asserts are compiled out.
ProxyInUse ==
    /\ \A g, h \in Hosts : g = h
    /\ NoHost \notin Hosts /\ Proxy!NoServer \notin Hosts
    /\ Unframed = FALSE /\ NDEBUG = TRUE /\ NonBlock \subseteq BOOLEAN

Ahead == {"preparing", "connectting", "sending_request_head", "transferring_request_data",
          "local_processing", "receiving_response_head", "sending_response_head",
          "transferring_response_data"}
Over == {"stopped", "exiting"}
ToServer == {"connectting", "sending_request_head", "transferring_request_data",
             "local_processing", "receiving_response_head"}

Proxies ==
    [state : {"receiving_request_head"} \cup Ahead \cup Over,
     watch_state : {"watch_stopped", "watching", "broken"}, local : BOOLEAN,
     op : {"none", "now", "pending", "done", "failed"},
     watch : {"none", "pending", "ready", "aborted"},
     host : Hosts \cup {NoHost}, body : BOOLEAN, to : Hosts \cup {Proxy!NoServer}, up : BOOLEAN,
     keep : BOOLEAN, framed : BOOLEAN, sent : Nat, read : Nat, ahead : Nat, answered : Nat,
     misled : BOOLEAN, started : Nat, finished : Nat, gone : BOOLEAN, non_block : BOOLEAN,
     blocked : BOOLEAN, deleted : BOOLEAN, failed : BOOLEAN]

\* A watch is under way while watch_state says so, and the object waits for it
\* in exiting and stopped, where no other operation is.
Watches(p) ==
    /\ p.watch_state # "watching" => p.watch = "none"
    /\ ~p.deleted /\ p.watch_state = "watching" => p.watch # "none"
    /\ ~p.deleted => (p.op = "none" <=> p.state \in Over)
    /\ ~p.deleted /\ p.state \in Over => p.watch_state = "watching"
    /\ p.deleted => p.watch = "none" /\ p.op = "none"

Finishes(p) ==
    p.finished = IF p.deleted \/ p.state \in Over THEN p.started ELSE p.started - 1

\* The request that is passed on has named its server.
Named(p) ==
    /\ p.state \in Ahead => p.host \in Hosts
    /\ p.state = "receiving_request_head" /\ p.op \in {"done", "now"} => p.host \in Hosts
    /\ p.state \in ToServer /\ ~p.local => p.to \in Hosts

ProxyGood(p) ==
    /\ p \in Proxies /\ Watches(p) /\ Finishes(p) /\ Named(p)
    /\ p.keep => p.framed
    /\ ~p.failed /\ ~p.misled

LEMMA ProxyStart ==
  ASSUME ProxyInUse, Proxy!ProxyInit
  PROVE  ProxyGood(proxy)
  <1>1. proxy \in Proxies
    BY DEF ProxyInUse, Proxy!ProxyInit, Proxies
  <1>2. /\ proxy.state = "receiving_request_head" /\ proxy.watch_state = "watch_stopped"
        /\ proxy.op = "pending" /\ proxy.watch = "none" /\ proxy.keep = FALSE
        /\ proxy.misled = FALSE /\ proxy.started = 1 /\ proxy.finished = 0
        /\ proxy.deleted = FALSE /\ proxy.failed = FALSE
    BY DEF Proxy!ProxyInit
  <1> QED BY <1>1, <1>2 DEF ProxyGood, Watches, Finishes, Named, Over, Ahead, ToServer

\* What the parts of an operation make of a proxy.
Beside(q, p) ==
    /\ q.state = p.state /\ q.op = p.op /\ q.host = p.host /\ q.to = p.to
    /\ q.local = p.local /\ q.keep = p.keep /\ q.framed = p.framed /\ q.started = p.started
    /\ q.finished = p.finished /\ q.deleted = p.deleted
    /\ q.failed = p.failed /\ q.misled = p.misled

LEMMA ProxyWatch ==
  ASSUME NEW p \in Proxies, p.watch_state = "watching" <=> p.watch # "none"
  PROVE  /\ Proxy!Watch(p) \in Proxies /\ Beside(Proxy!Watch(p), p)
         /\ Proxy!Watch(p).watch_state = "watching" <=> Proxy!Watch(p).watch # "none"
  <1>1. CASE p.watch_state # "watch_stopped"
    <2>1. Proxy!Watch(p) = p
      BY <1>1 DEF Proxy!Watch
    <2> QED BY <2>1 DEF Beside
  <1>2. CASE p.watch_state = "watch_stopped"
    <2>1. PICK v \in {"ready", "pending"} : Proxy!Watch(p) = [p EXCEPT !.watch_state = "watching", !.watch = v]
      BY <1>2 DEF Proxy!Watch
    <2> DEFINE w == [p EXCEPT !.watch_state = "watching", !.watch = v]
    <2>2. w \in Proxies /\ w.watch_state = "watching" /\ w.watch # "none" /\ Beside(w, p)
      BY DEF Proxies, Beside
    <2>3. Proxy!Watch(p) = w
      BY <2>1
    <2> HIDE DEF w
    <2> QED BY <2>2, <2>3
  <1> QED BY <1>1, <1>2

\* An operation leads to the next one.
LEMMA ProxyGoesOn ==
  ASSUME NEW p, ProxyGood(p), ~p.deleted, p.state \notin Over,
         NEW q \in Proxies, q.state \notin Over, q.op # "none", q.deleted = p.deleted,
         q.watch_state = "watching" <=> q.watch # "none",
         q.started = p.started, q.finished = p.finished, ~q.failed, ~q.misled,
         q.keep => q.framed, Named(q)
  PROVE  ProxyGood(q)
  <1>1. p.finished = p.started - 1
    BY DEF ProxyGood, Finishes
  <1> QED BY <1>1 DEF ProxyGood, Watches, Finishes

LEMMA ProxyRestart ==
  ASSUME NEW p, ProxyGood(p), ~p.deleted, p.state = "transferring_response_data", p.keep
  PROVE  ProxyGood(Proxy!Restart(p))
  <1> DEFINE e == [[p EXCEPT !.finished = @ + 1] EXCEPT !.state = "stopped", !.op = "none"]
             c == [e EXCEPT !.watch = IF @ = "pending" THEN "aborted" ELSE @]
             w == [e EXCEPT !.watch_state = "watch_stopped"]
             r == [w EXCEPT !.state = "receiving_request_head", !.op = "pending", !.keep = FALSE,
                            !.framed = TRUE, !.started = @ + 1]
  <1>1. Proxy!Restart(p) = IF p.watch_state = "watching" THEN c ELSE r
    BY DEF Proxy!Restart, Proxy!on_finish, Proxy!CancelWatch, Proxy!start
  <1>2. p \in Proxies /\ p.state \notin Over /\ p.finished = p.started - 1 /\ p.started \in Nat
    BY DEF ProxyGood, Finishes, Over, Proxies
  <1>3. PICK f \in Nat : f = p.finished + 1
    BY <1>2 DEF Proxies
  <1>4. PICK n \in Nat : n = p.started + 1
    BY <1>2
  <1>5. e = [p EXCEPT !.finished = f, !.state = "stopped", !.op = "none"]
    BY <1>2, <1>3 DEF Proxies
  <1>6. /\ e \in Proxies /\ e.finished = f /\ e.state = "stopped" /\ e.op = "none"
        /\ e.watch_state = p.watch_state /\ e.watch = p.watch
        /\ e.deleted = p.deleted /\ e.keep = p.keep /\ e.framed = p.framed /\ e.started = p.started
        /\ e.failed = p.failed /\ e.misled = p.misled
    <2>1. e \in Proxies
      BY <1>2, <1>5 DEF Proxies, Over
    <2>2. /\ e.finished = f /\ e.state = "stopped" /\ e.op = "none"
          /\ e.watch_state = p.watch_state /\ e.watch = p.watch
          /\ e.deleted = p.deleted /\ e.keep = p.keep /\ e.framed = p.framed /\ e.started = p.started
          /\ e.failed = p.failed /\ e.misled = p.misled
      BY <1>2, <1>5 DEF Proxies, Over
    <2> QED BY <2>1, <2>2
  <1> HIDE DEF e
  <1>7. CASE p.watch_state = "watching"
    <2>1. /\ c \in Proxies /\ c.finished = f /\ c.state = "stopped" /\ c.op = "none"
          /\ c.watch_state = p.watch_state
          /\ p.watch # "none" => c.watch # "none"
          /\ c.deleted = p.deleted /\ c.keep = p.keep /\ c.framed = p.framed /\ c.started = p.started
          /\ c.failed = p.failed /\ c.misled = p.misled
      <3>1. c \in Proxies
        BY <1>6 DEF Proxies
      <3>2. /\ c.finished = f /\ c.state = "stopped" /\ c.op = "none"
            /\ c.watch_state = p.watch_state
            /\ p.watch # "none" => c.watch # "none"
            /\ c.deleted = p.deleted /\ c.keep = p.keep /\ c.framed = p.framed /\ c.started = p.started
            /\ c.failed = p.failed /\ c.misled = p.misled
        BY <1>6 DEF Proxies
      <3> QED BY <3>1, <3>2
    <2> HIDE DEF c
    <2>2. f = p.started
      BY <1>2, <1>3
    <2>3. ProxyGood(c)
      BY <1>7, <2>1, <2>2 DEF ProxyGood, Watches, Finishes, Named, Over, Ahead, ToServer
    <2> QED BY <1>1, <1>7, <2>3
  <1>8. CASE p.watch_state # "watching"
    <2>1. w.started = p.started
      BY <1>6 DEF Proxies
    <2>2. r = [e EXCEPT !.watch_state = "watch_stopped", !.state = "receiving_request_head",
                        !.op = "pending", !.keep = FALSE, !.framed = TRUE, !.started = n]
      BY <1>4, <1>6, <2>1 DEF Proxies
    <2> HIDE DEF r, w
    <2>3. /\ r \in Proxies /\ r.finished = f /\ r.state = "receiving_request_head"
          /\ r.op = "pending" /\ r.watch_state = "watch_stopped" /\ r.watch = p.watch
          /\ r.deleted = p.deleted /\ r.keep = FALSE /\ r.started = n
          /\ r.failed = p.failed /\ r.misled = p.misled
      BY <1>6, <2>2 DEF Proxies
    <2>4. f = n - 1 /\ p.watch = "none"
      BY <1>2, <1>3, <1>4, <1>8 DEF ProxyGood, Watches
    <2>5. ProxyGood(r)
      BY <2>3, <2>4 DEF ProxyGood, Watches, Finishes, Named, Over, Ahead, ToServer
    <2> QED BY <1>1, <1>8, <2>5
  <1> QED BY <1>7, <1>8

LEMMA ProxyExit ==
  ASSUME NEW p \in Proxies, ~p.deleted, p.state \notin Over, Finishes(p), ~p.failed, ~p.misled,
         p.watch_state # "watching" <=> p.watch = "none", p.keep => p.framed
  PROVE  ProxyGood(Proxy!Exit(p))
  <1> DEFINE e == [[p EXCEPT !.finished = @ + 1] EXCEPT !.state = "exiting", !.op = "none"]
             c == [e EXCEPT !.watch = IF @ = "pending" THEN "aborted" ELSE @]
             d == [e EXCEPT !.deleted = TRUE, !.op = "none"]
  <1>1. Proxy!Exit(p) = IF p.watch_state = "watching" THEN c ELSE d
    BY DEF Proxy!Exit, Proxy!on_finish, Proxy!CancelWatch, Proxy!Delete
  <1>2. p.finished = p.started - 1 /\ p.started \in Nat
    BY DEF Finishes, Proxies
  <1>3. PICK f \in Nat : f = p.finished + 1 /\ f = p.started
    BY <1>2 DEF Proxies
  <1>4. e = [p EXCEPT !.finished = f, !.state = "exiting", !.op = "none"]
    BY <1>2, <1>3 DEF Proxies
  <1>5. /\ e \in Proxies /\ e.finished = f /\ e.state = "exiting" /\ e.op = "none"
        /\ e.watch_state = p.watch_state /\ e.watch = p.watch
        /\ e.deleted = p.deleted /\ e.keep = p.keep /\ e.framed = p.framed /\ e.started = p.started
        /\ e.failed = p.failed /\ e.misled = p.misled
    BY <1>2, <1>4 DEF Proxies, Over
  <1> HIDE DEF e
  <1>6. CASE p.watch_state = "watching"
    <2>1. /\ c \in Proxies /\ c.finished = f /\ c.state = "exiting" /\ c.op = "none"
          /\ c.watch_state = p.watch_state /\ c.watch # "none"
          /\ c.deleted = p.deleted /\ c.keep = p.keep /\ c.framed = p.framed /\ c.started = p.started
          /\ c.failed = p.failed /\ c.misled = p.misled
      BY <1>5, <1>6 DEF Proxies
    <2> HIDE DEF c
    <2>2. ProxyGood(c)
      BY <1>3, <1>6, <2>1 DEF ProxyGood, Watches, Finishes, Named, Over, Ahead, ToServer
    <2> QED BY <1>1, <1>6, <2>2
  <1>7. CASE p.watch_state # "watching"
    <2>1. /\ d \in Proxies /\ d.finished = f /\ d.state = "exiting" /\ d.op = "none"
          /\ d.watch_state = p.watch_state /\ d.watch = "none"
          /\ d.deleted = TRUE /\ d.keep = p.keep /\ d.framed = p.framed /\ d.started = p.started
          /\ d.failed = p.failed /\ d.misled = p.misled
      <3>1. d \in Proxies
        BY <1>5, <1>7 DEF Proxies
      <3>2. /\ d.finished = f /\ d.state = "exiting" /\ d.op = "none"
            /\ d.watch_state = p.watch_state /\ d.watch = "none"
            /\ d.deleted = TRUE /\ d.keep = p.keep /\ d.framed = p.framed /\ d.started = p.started
            /\ d.failed = p.failed /\ d.misled = p.misled
        BY <1>5, <1>7 DEF Proxies
      <3> QED BY <3>1, <3>2
    <2> HIDE DEF d
    <2>2. ProxyGood(d)
      BY <1>3, <1>7, <2>1 DEF ProxyGood, Watches, Finishes, Named, Over, Ahead, ToServer
    <2> QED BY <1>1, <1>7, <2>2
  <1> QED BY <1>6, <1>7
LEMMA ProxyErrors ==
  ASSUME ProxyInUse, NEW r, ProxyGood(r), ~r.deleted, r.op = "failed"
  PROVE  ProxyGood(Proxy!HandleError([r EXCEPT !.op = "none"]))
  <1> DEFINE p == [r EXCEPT !.op = "none"]
  <1>1. /\ r \in Proxies /\ r.state \notin Over /\ (r.watch_state = "watching" <=> r.watch # "none")
        /\ r.finished = r.started - 1 /\ ~r.failed /\ ~r.misled /\ (r.keep => r.framed)
    BY DEF ProxyGood, Watches, Finishes
  <1>2. /\ p \in Proxies /\ p.state = r.state /\ p.deleted = r.deleted
        /\ p.watch_state = r.watch_state /\ p.watch = r.watch /\ p.finished = r.finished
        /\ p.started = r.started /\ p.failed = r.failed /\ p.misled = r.misled
        /\ p.keep = r.keep /\ p.framed = r.framed /\ p.host = r.host /\ p.to = r.to
        /\ p.local = r.local
    BY <1>1 DEF Proxies
  <1> SUFFICES ProxyGood(Proxy!HandleError(p))
    OBVIOUS
  <1> HIDE DEF p
  <1>3. CASE p.state \in Proxy!Derived
    <2> DEFINE q == [[p EXCEPT !.state = "sending_response_head", !.op = "pending", !.keep = FALSE,
                               !.framed = TRUE] EXCEPT !.failed = ~NDEBUG]
    <2>1. Proxy!HandleError(p) = q
      BY <1>3 DEF Proxy!HandleError, Proxy!response_error
    <2>2. /\ q \in Proxies /\ q.state = "sending_response_head" /\ q.op = "pending"
          /\ q.keep = FALSE /\ q.failed = FALSE /\ q.misled = p.misled /\ q.deleted = p.deleted
          /\ q.watch_state = p.watch_state /\ q.watch = p.watch /\ q.finished = p.finished
          /\ q.started = p.started /\ q.host = p.host
      <3>1. q = [p EXCEPT !.state = "sending_response_head", !.op = "pending", !.keep = FALSE,
                          !.framed = TRUE, !.failed = FALSE]
        BY <1>2 DEF ProxyInUse, Proxies
      <3>2. q \in Proxies
        <4> HIDE DEF q
        <4> QED BY <1>2, <3>1, ZenonT(40) DEF Proxies, Ahead
      <3>3. /\ q.state = "sending_response_head" /\ q.op = "pending"
            /\ q.keep = FALSE /\ q.failed = FALSE /\ q.misled = p.misled /\ q.deleted = p.deleted
            /\ q.watch_state = p.watch_state /\ q.watch = p.watch /\ q.finished = p.finished
            /\ q.started = p.started /\ q.host = p.host
        BY <1>2, <3>1 DEF Proxies
      <3> QED BY <3>2, <3>3
    <2> HIDE DEF q
    <2>3. r.host \in Hosts
      BY <1>2, <1>3 DEF ProxyGood, Named, Proxy!Derived, Ahead
    <2>4. Named(q)
      BY <1>2, <2>2, <2>3 DEF Named, ToServer
    <2>5. ProxyGood(q)
      BY <1>1, <1>2, <2>2, <2>4, ProxyGoesOn DEF Over
    <2> QED BY <2>1, <2>5
  <1>4. CASE p.state \notin Proxy!Derived
    <2>1. Proxy!HandleError(p) = Proxy!Exit(p)
      BY <1>4 DEF Proxy!HandleError
    <2>2. Finishes(p)
      BY <1>1, <1>2 DEF Finishes
    <2> QED BY <1>1, <1>2, <2>1, <2>2, ProxyExit
  <1> QED BY <1>3, <1>4

\* A head that keeps the connection has a length.
Hd(p, k, f) == [p EXCEPT !.keep = k, !.framed = f]
Heads(p) == {Hd(p, k, f) : k \in BOOLEAN, f \in BOOLEAN}
Answers(p) == {h \in Heads(p) : h.keep => h.framed \/ (Unframed /\ ~p.local)}

LEMMA ProxyHeads ==
  ASSUME NEW p
  PROVE  Proxy!Answered(p) = Answers(p)
  BY DEF Proxy!Answered, Answers, Heads, Hd

LEMMA ProxyAnswers ==
  ASSUME ProxyInUse, NEW p, NEW a \in Proxy!Answered(p)
  PROVE  /\ \E k \in BOOLEAN, f \in BOOLEAN : a = Hd(p, k, f)
         /\ a.keep => a.framed
  <1>1. Proxy!Answered(p) = Answers(p)
    BY ProxyHeads
  <1>2. a \in Heads(p) /\ (a.keep => a.framed \/ (Unframed /\ ~p.local))
    BY <1>1 DEF Answers
  <1>3. \E k \in BOOLEAN, f \in BOOLEAN : a = Hd(p, k, f)
    BY <1>2 DEF Heads
  <1>4. Unframed = FALSE
    BY DEF ProxyInUse
  <1>5. a.keep => a.framed
    BY <1>2, <1>4, Zenon
  <1> QED BY <1>3, <1>5

\* Every operation that is done leads to a good proxy, state by state.
LEMMA ProxyDone ==
  ASSUME ProxyInUse, NEW p, ProxyGood(p), ~p.deleted, p.op \in {"now", "done"},
         NEW q \in Proxy!HandleDone(p)
  PROVE  ProxyGood(q)
  <1>1. /\ p \in Proxies /\ p.state \notin Over /\ (p.watch_state = "watching" <=> p.watch # "none")
        /\ p.finished = p.started - 1 /\ ~p.failed /\ ~p.misled /\ (p.keep => p.framed) /\ Named(p)
    BY DEF ProxyGood, Watches, Finishes
  <1>2. p.state \in {"receiving_request_head"} \cup Ahead
    BY <1>1 DEF Proxies
  <1>3. CASE p.state = "receiving_request_head"
    <2> DEFINE r == [p EXCEPT !.state = "preparing", !.op = "pending"]
    <2>1. q = IF p.body THEN r ELSE Proxy!Watch(r)
      BY <1>3 DEF Proxy!HandleDone
    <2>2. /\ r \in Proxies /\ r.state = "preparing" /\ r.op = "pending" /\ r.deleted = p.deleted
          /\ r.watch_state = p.watch_state /\ r.watch = p.watch /\ r.finished = p.finished
          /\ r.started = p.started /\ r.failed = p.failed /\ r.misled = p.misled
          /\ r.keep = p.keep /\ r.framed = p.framed /\ r.host = p.host
      BY <1>1 DEF Proxies, Ahead
    <2> HIDE DEF r
    <2>3. p.host \in Hosts
      BY <1>1, <1>3 DEF Named
    <2>4. /\ Proxy!Watch(r) \in Proxies /\ Beside(Proxy!Watch(r), r)
          /\ Proxy!Watch(r).watch_state = "watching" <=> Proxy!Watch(r).watch # "none"
      BY <1>1, <2>2, ProxyWatch
    <2>5. /\ q \in Proxies /\ Beside(q, r)
          /\ q.watch_state = "watching" <=> q.watch # "none"
      BY <1>1, <2>1, <2>2, <2>4 DEF Beside
    <2>6. Named(q)
      BY <2>2, <2>3, <2>5 DEF Beside, Named, ToServer, Ahead
    <2> QED BY <1>1, <2>2, <2>5, <2>6, ProxyGoesOn DEF Beside, Over
  <1>4. CASE p.state = "connectting" \/ (p.state = "local_processing" /\ ~p.local)
    <2>1. PICK s \in {"sending_request_head", "receiving_response_head"} :
             q = [p EXCEPT !.state = s, !.op = "pending"]
      BY <1>4 DEF Proxy!HandleDone
    <2>2. /\ q \in Proxies /\ q.state = s /\ q.op = "pending" /\ q.deleted = p.deleted
          /\ q.watch_state = p.watch_state /\ q.watch = p.watch /\ q.finished = p.finished
          /\ q.started = p.started /\ q.failed = p.failed /\ q.misled = p.misled
          /\ q.keep = p.keep /\ q.framed = p.framed /\ q.host = p.host /\ q.to = p.to
          /\ q.local = p.local
      <3>1. q \in Proxies
        BY <1>1, <2>1 DEF Proxies, Ahead
      <3>2. /\ q.state = s /\ q.op = "pending" /\ q.deleted = p.deleted
            /\ q.watch_state = p.watch_state /\ q.watch = p.watch /\ q.finished = p.finished
            /\ q.started = p.started /\ q.failed = p.failed /\ q.misled = p.misled
            /\ q.keep = p.keep /\ q.framed = p.framed /\ q.host = p.host /\ q.to = p.to
            /\ q.local = p.local
        BY <1>1, <2>1 DEF Proxies, Ahead
      <3> QED BY <3>1, <3>2
    <2>3. Named(q)
      BY <1>1, <1>4, <2>2 DEF Named, ToServer, Ahead
    <2> QED BY <1>1, <2>2, <2>3, ProxyGoesOn DEF Over
  <1>5. CASE p.state = "preparing"
    <2>1. p.host \in Hosts /\ p.host # NoHost
      BY <1>1, <1>5 DEF ProxyInUse, Named, Ahead
    <2>2. \/ q = Proxy!transfer_request_data([p EXCEPT !.local = TRUE])
          \/ /\ p.to # Proxy!NoServer
             /\ q = [p EXCEPT !.local = FALSE, !.state = "connectting", !.op = "now"]
          \/ /\ p.to = Proxy!NoServer
             /\ q = [p EXCEPT !.local = FALSE, !.state = "connectting", !.op = "pending", !.to = p.host,
                              !.up = TRUE, !.failed = p.host = NoHost]
      BY <1>5 DEF Proxy!HandleDone, Proxy!Prepared
    <2>3. CASE q = Proxy!transfer_request_data([p EXCEPT !.local = TRUE])
      <3>1. q = [[p EXCEPT !.local = TRUE] EXCEPT !.state = "transferring_request_data",
                    !.op = IF [p EXCEPT !.local = TRUE].body THEN "pending" ELSE "now"]
        BY <2>3 DEF Proxy!transfer_request_data
      <3>2. [p EXCEPT !.local = TRUE].body = p.body
        BY <1>1 DEF Proxies
      <3>3. PICK o \in {"pending", "now"} :
               q = [p EXCEPT !.local = TRUE, !.state = "transferring_request_data", !.op = o]
        BY <1>1, <3>1, <3>2 DEF Proxies
      <3>4. /\ q \in Proxies /\ q.state = "transferring_request_data" /\ q.op = o
            /\ q.deleted = p.deleted /\ q.watch_state = p.watch_state /\ q.watch = p.watch
            /\ q.finished = p.finished /\ q.started = p.started /\ q.failed = p.failed
            /\ q.misled = p.misled /\ q.keep = p.keep /\ q.framed = p.framed
            /\ q.host = p.host /\ q.local = TRUE
        <4>1. q \in Proxies
          BY <1>1, <3>3 DEF Proxies, Ahead
        <4>2. /\ q.state = "transferring_request_data" /\ q.op = o
              /\ q.deleted = p.deleted /\ q.watch_state = p.watch_state /\ q.watch = p.watch
              /\ q.finished = p.finished /\ q.started = p.started /\ q.failed = p.failed
              /\ q.misled = p.misled /\ q.keep = p.keep /\ q.framed = p.framed
              /\ q.host = p.host /\ q.local = TRUE
          BY <1>1, <3>3 DEF Proxies, Ahead
        <4> QED BY <4>1, <4>2
      <3>5. Named(q)
        BY <2>1, <3>4 DEF Named, ToServer
      <3> QED BY <1>1, <3>4, <3>5, ProxyGoesOn DEF Over
    <2>4. CASE p.to # Proxy!NoServer
               /\ q = [p EXCEPT !.local = FALSE, !.state = "connectting", !.op = "now"]
      <3>1. /\ q \in Proxies /\ q.state = "connectting" /\ q.op = "now"
            /\ q.deleted = p.deleted /\ q.watch_state = p.watch_state /\ q.watch = p.watch
            /\ q.finished = p.finished /\ q.started = p.started /\ q.failed = p.failed
            /\ q.misled = p.misled /\ q.keep = p.keep /\ q.framed = p.framed
            /\ q.host = p.host /\ q.to = p.to
        <4>1. q \in Proxies
          BY <1>1, <2>4 DEF Proxies, Ahead
        <4>2. /\ q.state = "connectting" /\ q.op = "now"
              /\ q.deleted = p.deleted /\ q.watch_state = p.watch_state /\ q.watch = p.watch
              /\ q.finished = p.finished /\ q.started = p.started /\ q.failed = p.failed
              /\ q.misled = p.misled /\ q.keep = p.keep /\ q.framed = p.framed
              /\ q.host = p.host /\ q.to = p.to
          BY <1>1, <2>4 DEF Proxies, Ahead
        <4> QED BY <4>1, <4>2
      <3>2. p.to \in Hosts
        BY <1>1, <2>4 DEF Proxies
      <3>3. Named(q)
        BY <2>1, <3>1, <3>2 DEF Named, ToServer
      <3> QED BY <1>1, <3>1, <3>3, ProxyGoesOn DEF Over
    <2>5. CASE p.to = Proxy!NoServer
               /\ q = [p EXCEPT !.local = FALSE, !.state = "connectting", !.op = "pending", !.to = p.host,
                                !.up = TRUE, !.failed = p.host = NoHost]
      <3>1. q = [p EXCEPT !.local = FALSE, !.state = "connectting", !.op = "pending", !.to = p.host,
                          !.up = TRUE, !.failed = FALSE]
        BY <2>1, <2>5
      <3>2. /\ q \in Proxies /\ q.state = "connectting" /\ q.op = "pending"
            /\ q.deleted = p.deleted /\ q.watch_state = p.watch_state /\ q.watch = p.watch
            /\ q.finished = p.finished /\ q.started = p.started /\ q.failed = FALSE
            /\ q.misled = p.misled /\ q.keep = p.keep /\ q.framed = p.framed
            /\ q.host = p.host /\ q.to = p.host
        <4>1. q \in Proxies
          <5>1. PICK h \in Hosts : h = p.host
            BY <2>1
          <5>2. PICK e : e = [p EXCEPT !.local = FALSE, !.to = h, !.up = TRUE, !.failed = FALSE]
            OBVIOUS
          <5>3. e \in Proxies
            BY <1>1, <5>2 DEF Proxies
          <5>4. q = [e EXCEPT !.state = "connectting", !.op = "pending"]
            BY <1>1, <3>1, <5>1, <5>2 DEF Proxies
          <5> QED BY <5>3, <5>4 DEF Proxies, Ahead
        <4>2. /\ q.state = "connectting" /\ q.op = "pending"
              /\ q.deleted = p.deleted /\ q.watch_state = p.watch_state /\ q.watch = p.watch
              /\ q.finished = p.finished /\ q.started = p.started /\ q.failed = FALSE
              /\ q.misled = p.misled /\ q.keep = p.keep /\ q.framed = p.framed
              /\ q.host = p.host /\ q.to = p.host
          BY <1>1, <2>1, <3>1 DEF Proxies, Ahead
        <4> QED BY <4>1, <4>2
      <3>3. Named(q)
        BY <2>1, <3>2 DEF Named, ToServer
      <3> QED BY <1>1, <3>2, <3>3, ProxyGoesOn DEF Over
    <2> QED BY <2>2, <2>3, <2>4, <2>5
  <1>6. CASE p.state = "sending_request_head"
    <2>1. q = [p EXCEPT !.state = "transferring_request_data", !.op = IF p.body THEN "pending" ELSE "now"]
      BY <1>6 DEF Proxy!HandleDone, Proxy!transfer_request_data
    <2>2. /\ q \in Proxies /\ q.state = "transferring_request_data" /\ q.op \in {"pending", "now"}
          /\ q.deleted = p.deleted /\ q.watch_state = p.watch_state /\ q.watch = p.watch
          /\ q.finished = p.finished /\ q.started = p.started /\ q.failed = p.failed
          /\ q.misled = p.misled /\ q.keep = p.keep /\ q.framed = p.framed
          /\ q.host = p.host /\ q.to = p.to /\ q.local = p.local
      <3>1. q \in Proxies
        <4>1. PICK o \in {"pending", "now"} : q = [p EXCEPT !.state = "transferring_request_data", !.op = o]
          BY <2>1
        <4> QED BY <1>1, <4>1 DEF Proxies, Ahead
      <3>2. /\ q.state = "transferring_request_data" /\ q.op \in {"pending", "now"}
            /\ q.deleted = p.deleted /\ q.watch_state = p.watch_state /\ q.watch = p.watch
            /\ q.finished = p.finished /\ q.started = p.started /\ q.failed = p.failed
            /\ q.misled = p.misled /\ q.keep = p.keep /\ q.framed = p.framed
            /\ q.host = p.host /\ q.to = p.to /\ q.local = p.local
        BY <1>1, <2>1 DEF Proxies, Ahead
      <3> QED BY <3>1, <3>2
    <2>3. Named(q)
      BY <1>1, <1>6, <2>2 DEF Named, ToServer, Ahead
    <2> QED BY <1>1, <2>2, <2>3, ProxyGoesOn DEF Over
  <1>7. CASE p.state = "transferring_request_data"
    <2> DEFINE r == [p EXCEPT !.state = "local_processing", !.op = "pending"]
    <2>1. q = Proxy!Watch(r)
      BY <1>7 DEF Proxy!HandleDone
    <2>2. /\ r \in Proxies /\ r.state = "local_processing" /\ r.op = "pending" /\ r.deleted = p.deleted
          /\ r.watch_state = p.watch_state /\ r.watch = p.watch /\ r.finished = p.finished
          /\ r.started = p.started /\ r.failed = p.failed /\ r.misled = p.misled
          /\ r.keep = p.keep /\ r.framed = p.framed /\ r.host = p.host /\ r.to = p.to
          /\ r.local = p.local
      BY <1>1 DEF Proxies, Ahead
    <2> HIDE DEF r
    <2>3. /\ q \in Proxies /\ Beside(q, r)
          /\ q.watch_state = "watching" <=> q.watch # "none"
      BY <1>1, <2>1, <2>2, ProxyWatch
    <2>4. Named(q)
      BY <1>1, <1>7, <2>2, <2>3 DEF Beside, Named, ToServer, Ahead
    <2> QED BY <1>1, <2>2, <2>3, <2>4, ProxyGoesOn DEF Beside, Over
  <1>8. CASE p.state = "local_processing" /\ p.local
    <2>1. PICK a \in Proxy!Answered(p) : q = [a EXCEPT !.state = "receiving_response_head", !.op = "now"]
      BY <1>8 DEF Proxy!HandleDone
    <2>2. PICK k \in BOOLEAN, f \in BOOLEAN : a = Hd(p, k, f)
      BY <2>1, ProxyAnswers
    <2>3. /\ a \in Proxies /\ a.keep = k /\ a.framed = f /\ a.host = p.host /\ a.local = p.local
          /\ a.deleted = p.deleted /\ a.watch_state = p.watch_state /\ a.watch = p.watch
          /\ a.finished = p.finished /\ a.started = p.started /\ a.failed = p.failed
          /\ a.misled = p.misled
      <3>1. a \in Proxies
        BY <1>1, <2>2 DEF Proxies, Hd
      <3>2. /\ a.keep = k /\ a.framed = f /\ a.host = p.host /\ a.local = p.local
            /\ a.deleted = p.deleted /\ a.watch_state = p.watch_state /\ a.watch = p.watch
            /\ a.finished = p.finished /\ a.started = p.started /\ a.failed = p.failed
            /\ a.misled = p.misled
        BY <1>1, <2>2 DEF Proxies, Hd
      <3> QED BY <3>1, <3>2
    <2>4. a.keep => a.framed
      BY <2>1, ProxyAnswers
    <2>5. /\ q \in Proxies /\ q.keep = a.keep /\ q.framed = a.framed /\ q.host = a.host
          /\ q.local = a.local /\ q.state = "receiving_response_head" /\ q.op = "now"
          /\ q.deleted = a.deleted /\ q.watch_state = a.watch_state /\ q.watch = a.watch
          /\ q.finished = a.finished /\ q.started = a.started /\ q.failed = a.failed
          /\ q.misled = a.misled
      BY <2>1, <2>3 DEF Proxies, Ahead
    <2>6. Named(q)
      BY <1>1, <1>8, <2>3, <2>5 DEF Named, ToServer, Ahead
    <2> QED BY <1>1, <2>3, <2>4, <2>5, <2>6, ProxyGoesOn DEF Over
  <1>9. CASE p.state = "receiving_response_head"
    <2> DEFINE m == [p EXCEPT !.misled = @ \/ p.to # p.host]
    <2>1. PICK a \in IF p.local THEN {p} ELSE Proxy!Answered(m) :
             q = [a EXCEPT !.state = "sending_response_head", !.op = "pending"]
      BY <1>9 DEF Proxy!HandleDone
    <2>2. /\ a \in Proxies /\ a.host = p.host
          /\ a.deleted = p.deleted /\ a.watch_state = p.watch_state /\ a.watch = p.watch
          /\ a.finished = p.finished /\ a.started = p.started /\ ~a.failed
          /\ ~a.misled /\ (a.keep => a.framed)
      <3>1. CASE p.local
        BY <1>1, <2>1, <3>1
      <3>2. CASE ~p.local
        <4>1. p.to = p.host
          BY <1>1, <1>9, <3>2 DEF Named, ProxyInUse, ToServer, Ahead
        <4>2. m = [p EXCEPT !.misled = FALSE]
          BY <1>1, <4>1
        <4>3. /\ m \in Proxies /\ m.misled = FALSE /\ m.host = p.host
              /\ m.deleted = p.deleted /\ m.watch_state = p.watch_state /\ m.watch = p.watch
              /\ m.finished = p.finished /\ m.started = p.started /\ m.failed = p.failed
          <5>1. m \in Proxies
            BY <1>1, <4>2 DEF Proxies
          <5>2. /\ m.misled = FALSE /\ m.host = p.host
                /\ m.deleted = p.deleted /\ m.watch_state = p.watch_state /\ m.watch = p.watch
                /\ m.finished = p.finished /\ m.started = p.started /\ m.failed = p.failed
            BY <1>1, <4>2 DEF Proxies
          <5> QED BY <5>1, <5>2
        <4> HIDE DEF m
        <4>4. a \in Proxy!Answered(m)
          BY <2>1, <3>2
        <4>5. PICK k \in BOOLEAN, f \in BOOLEAN : a = Hd(m, k, f)
          BY <4>4, ProxyAnswers
        <4>6. a.keep => a.framed
          BY <4>4, ProxyAnswers
        <4>7. /\ a \in Proxies /\ a.host = m.host
              /\ a.deleted = m.deleted /\ a.watch_state = m.watch_state /\ a.watch = m.watch
              /\ a.finished = m.finished /\ a.started = m.started /\ a.failed = m.failed
              /\ a.misled = m.misled
          <5>1. a \in Proxies
            BY <4>3, <4>5 DEF Proxies, Hd
          <5>2. /\ a.host = m.host
                /\ a.deleted = m.deleted /\ a.watch_state = m.watch_state /\ a.watch = m.watch
                /\ a.finished = m.finished /\ a.started = m.started /\ a.failed = m.failed
                /\ a.misled = m.misled
            BY <4>3, <4>5 DEF Proxies, Hd
          <5> QED BY <5>1, <5>2
        <4> QED BY <1>1, <4>3, <4>6, <4>7
      <3> QED BY <3>1, <3>2
    <2>3. /\ q \in Proxies /\ q.keep = a.keep /\ q.framed = a.framed /\ q.host = a.host
          /\ q.state = "sending_response_head" /\ q.op = "pending"
          /\ q.deleted = a.deleted /\ q.watch_state = a.watch_state /\ q.watch = a.watch
          /\ q.finished = a.finished /\ q.started = a.started /\ q.failed = a.failed
          /\ q.misled = a.misled
      BY <2>1, <2>2 DEF Proxies, Ahead
    <2>4. Named(q)
      BY <1>1, <1>9, <2>2, <2>3 DEF Named, ToServer, Ahead
    <2> QED BY <1>1, <2>2, <2>3, <2>4, ProxyGoesOn DEF Over
  <1>10. CASE p.state = "sending_response_head"
    <2>1. q = [p EXCEPT !.state = "transferring_response_data", !.op = "pending"]
      BY <1>10 DEF Proxy!HandleDone, Proxy!transfer_response_data
    <2>2. /\ q \in Proxies /\ q.state = "transferring_response_data" /\ q.op = "pending"
          /\ q.deleted = p.deleted /\ q.watch_state = p.watch_state /\ q.watch = p.watch
          /\ q.finished = p.finished /\ q.started = p.started /\ q.failed = p.failed
          /\ q.misled = p.misled /\ q.keep = p.keep /\ q.framed = p.framed /\ q.host = p.host
      BY <1>1, <2>1 DEF Proxies, Ahead
    <2>3. Named(q)
      BY <1>1, <1>10, <2>2 DEF Named, ToServer, Ahead
    <2> QED BY <1>1, <2>2, <2>3, ProxyGoesOn DEF Over
  <1>11. CASE p.state = "transferring_response_data"
    <2> DEFINE a == [p EXCEPT !.answered = p.read]
    <2>1. q = IF p.keep THEN Proxy!Restart(a) ELSE Proxy!Exit(a)
      BY <1>11 DEF Proxy!HandleDone
    <2>2. /\ a \in Proxies /\ a.state = p.state /\ a.op = p.op /\ a.deleted = p.deleted
          /\ a.watch_state = p.watch_state /\ a.watch = p.watch /\ a.finished = p.finished
          /\ a.started = p.started /\ a.failed = p.failed /\ a.misled = p.misled
          /\ a.keep = p.keep /\ a.framed = p.framed /\ a.host = p.host /\ a.to = p.to
          /\ a.local = p.local
      BY <1>1 DEF Proxies
    <2> HIDE DEF a
    <2>3. Named(a)
      BY <1>1, <2>2 DEF Named
    <2>4. ProxyGood(a)
      BY <1>1, <2>2, <2>3, ProxyGoesOn
    <2>5. Finishes(a)
      BY <2>4 DEF ProxyGood
    <2>6. CASE p.keep
      BY <1>11, <2>1, <2>2, <2>4, <2>6, ProxyRestart
    <2>7. CASE ~p.keep
      <3>1. ProxyGood(Proxy!Exit(a))
        BY <1>1, <2>2, <2>5, ProxyExit
      <3> QED BY <2>1, <2>7, <3>1
    <2> QED BY <2>6, <2>7
  <1>12. CASE p.state = "local_processing"
    <2>1. CASE p.local
      BY <1>8, <1>12, <2>1, Zenon
    <2>2. CASE ~p.local
      BY <1>4, <1>12, <2>2, Zenon
    <2> QED BY <2>1, <2>2, Zenon
  <1>13. \/ p.state = "receiving_request_head" \/ p.state = "connectting"
         \/ p.state = "preparing" \/ p.state = "sending_request_head"
         \/ p.state = "transferring_request_data" \/ p.state = "local_processing"
         \/ p.state = "receiving_response_head" \/ p.state = "sending_response_head"
         \/ p.state = "transferring_response_data"
    BY <1>2 DEF Ahead
  <1>14. CASE p.state = "connectting"
    BY <1>4, <1>14
  <1> QED BY <1>3, <1>5, <1>6, <1>7, <1>9, <1>10, <1>11, <1>12, <1>13, <1>14, Zenon

LEMMA ProxyAsync ==
  ASSUME ProxyInUse, ProxyGood(proxy), Proxy!handle_async
  PROVE  ProxyGood(proxy')
  <1>1. ~proxy.deleted /\ proxy.op \in {"now", "done", "failed"}
    BY DEF Proxy!handle_async, Proxy!Live
  <1>2. CASE proxy.watch_state = "broken"
    <2> DEFINE q == [[proxy EXCEPT !.finished = @ + 1] EXCEPT !.deleted = TRUE, !.op = "none"]
    <2>1. proxy' = q
      BY <1>2 DEF Proxy!handle_async, Proxy!Delete, Proxy!on_finish
    <2>2. /\ proxy \in Proxies /\ proxy.state \notin Over /\ proxy.watch = "none"
          /\ proxy.finished = proxy.started - 1 /\ ~proxy.failed /\ ~proxy.misled
          /\ (proxy.keep => proxy.framed) /\ Named(proxy)
      BY <1>1, <1>2 DEF ProxyGood, Watches, Finishes
    <2>3. PICK f \in Nat : f = proxy.finished + 1 /\ f = proxy.started
      BY <2>2 DEF Proxies
    <2>4. q = [proxy EXCEPT !.finished = f, !.deleted = TRUE, !.op = "none"]
      BY <2>2, <2>3 DEF Proxies
    <2> HIDE DEF q
    <2>5. /\ q \in Proxies /\ q.state = proxy.state /\ q.op = "none" /\ q.deleted = TRUE
          /\ q.watch_state = proxy.watch_state /\ q.watch = proxy.watch /\ q.finished = f
          /\ q.started = proxy.started /\ q.failed = proxy.failed /\ q.misled = proxy.misled
          /\ q.keep = proxy.keep /\ q.framed = proxy.framed /\ q.host = proxy.host
          /\ q.to = proxy.to /\ q.local = proxy.local
      BY <2>2, <2>4 DEF Proxies
    <2>6. Named(q)
      BY <2>2, <2>5 DEF Named
    <2>7. Watches(q) /\ Finishes(q)
      BY <1>2, <2>2, <2>3, <2>5 DEF Watches, Finishes
    <2>8. ProxyGood(q)
      BY <2>2, <2>5, <2>6, <2>7 DEF ProxyGood
    <2> QED BY <2>1, <2>8
  <1>3. CASE proxy.watch_state # "broken" /\ proxy.op = "failed"
    BY <1>1, <1>3, ProxyErrors DEF Proxy!handle_async
  <1>4. CASE proxy.watch_state # "broken" /\ proxy.op # "failed"
    <2>1. PICK q \in Proxy!HandleDone(proxy) : proxy' = q
      BY <1>4 DEF Proxy!handle_async
    <2> QED BY <1>1, <1>4, <2>1, ProxyDone
  <1> QED BY <1>2, <1>3, <1>4

LEMMA ProxyWatched ==
  ASSUME ProxyInUse, ProxyGood(proxy), Proxy!handle_watch
  PROVE  ProxyGood(proxy')
  <1> DEFINE w == [proxy EXCEPT !.watch = "none", !.blocked = FALSE]
  <1>1. /\ ~proxy.deleted /\ proxy.op # "now" /\ proxy.watch \in {"ready", "aborted"}
        /\ proxy.state = "exiting" => proxy' = Proxy!Delete(w)
        /\ proxy.state = "stopped" => proxy' = Proxy!start([w EXCEPT !.watch_state = "watch_stopped"])
        /\ proxy.state \notin Over => \/ proxy' = Proxy!on_broken_pipe(w)
                                      \/ proxy' = [w EXCEPT !.watch_state = "watch_stopped"]
                                      \/ proxy' = [proxy EXCEPT !.blocked = TRUE]
    BY DEF Proxy!handle_watch, Proxy!Live, Over
  <1>2. /\ proxy \in Proxies /\ proxy.watch_state = "watching"
        /\ (proxy.op = "none" <=> proxy.state \in Over)
        /\ proxy.finished = IF proxy.state \in Over THEN proxy.started ELSE proxy.started - 1
        /\ ~proxy.failed /\ ~proxy.misled /\ (proxy.keep => proxy.framed) /\ Named(proxy)
    BY <1>1 DEF ProxyGood, Watches, Finishes
  <1>3. /\ w \in Proxies /\ w.state = proxy.state /\ w.op = proxy.op /\ w.deleted = proxy.deleted
        /\ w.watch_state = proxy.watch_state /\ w.watch = "none" /\ w.finished = proxy.finished
        /\ w.started = proxy.started /\ w.failed = proxy.failed /\ w.misled = proxy.misled
        /\ w.keep = proxy.keep /\ w.framed = proxy.framed /\ w.host = proxy.host
        /\ w.to = proxy.to /\ w.local = proxy.local
    BY <1>2 DEF Proxies
  <1> HIDE DEF w
  <1>4. Named(w)
    BY <1>2, <1>3 DEF Named
  <1>5. CASE proxy.state = "exiting"
    <2> DEFINE q == [w EXCEPT !.deleted = TRUE, !.op = "none"]
    <2>1. proxy' = q
      BY <1>1, <1>5 DEF Proxy!Delete
    <2>2. /\ q \in Proxies /\ q.state = w.state /\ q.op = "none" /\ q.deleted = TRUE
          /\ q.watch_state = w.watch_state /\ q.watch = w.watch /\ q.finished = w.finished
          /\ q.started = w.started /\ q.failed = w.failed /\ q.misled = w.misled
          /\ q.keep = w.keep /\ q.framed = w.framed /\ q.host = w.host
          /\ q.to = w.to /\ q.local = w.local
      BY <1>3 DEF Proxies
    <2> HIDE DEF q
    <2>3. Named(q)
      BY <1>4, <2>2 DEF Named
    <2>4. Watches(q) /\ Finishes(q)
      BY <1>2, <1>3, <1>5, <2>2 DEF Watches, Finishes, Over
    <2> QED BY <1>2, <1>3, <2>1, <2>2, <2>3, <2>4 DEF ProxyGood
  <1>6. CASE proxy.state = "stopped"
    <2> DEFINE v == [w EXCEPT !.watch_state = "watch_stopped"]
               q == [v EXCEPT !.state = "receiving_request_head", !.op = "pending", !.keep = FALSE,
                              !.framed = TRUE, !.started = @ + 1]
    <2>1. proxy' = q
      BY <1>1, <1>6 DEF Proxy!start
    <2>2. PICK n \in Nat : n = w.started + 1
      BY <1>3 DEF Proxies
    <2>3. v.started = w.started
      BY <1>3 DEF Proxies
    <2>4. q = [w EXCEPT !.watch_state = "watch_stopped", !.state = "receiving_request_head",
                        !.op = "pending", !.keep = FALSE, !.framed = TRUE, !.started = n]
      BY <1>3, <2>2, <2>3 DEF Proxies
    <2> HIDE DEF q, v
    <2>5. /\ q \in Proxies /\ q.state = "receiving_request_head" /\ q.op = "pending"
          /\ q.deleted = w.deleted /\ q.watch_state = "watch_stopped" /\ q.watch = w.watch
          /\ q.finished = w.finished /\ q.started = n /\ q.failed = w.failed
          /\ q.misled = w.misled /\ q.keep = FALSE
      BY <1>3, <2>4 DEF Proxies
    <2>6. w.finished = w.started
      BY <1>2, <1>3, <1>6 DEF Over
    <2>7. n - 1 = w.finished
      BY <1>3, <2>2, <2>6 DEF Proxies
    <2>8. ProxyGood(q)
      BY <1>1, <1>2, <1>3, <2>5, <2>7 DEF ProxyGood, Watches, Finishes, Named, Over, Ahead, ToServer
    <2> QED BY <2>1, <2>8
  <1>7. CASE proxy.state \notin Over /\ proxy' = Proxy!on_broken_pipe(w)
    <2> DEFINE v == [w EXCEPT !.watch_state = "broken"]
               c == [v EXCEPT !.watch = IF @ = "pending" THEN "aborted" ELSE @]
               q == [c EXCEPT !.op = IF @ = "pending" /\ v.state \notin Proxy!Derived THEN "failed" ELSE @]
    <2>1. proxy' = q
      BY <1>7 DEF Proxy!on_broken_pipe, Proxy!cancel, Proxy!CancelWatch
    <2>2. v \in Proxies /\ v.watch = "none" /\ v.state = w.state /\ v.op = w.op
      BY <1>3 DEF Proxies
    <2>3. c = v
      BY <2>2 DEF Proxies
    <2>4. PICK o \in {"now", "pending", "done", "failed"} :
             q = [w EXCEPT !.watch_state = "broken", !.op = o] /\ (o \in {"done", "now"} => o = w.op)
      BY <1>2, <1>3, <1>7, <2>2, <2>3 DEF Proxies
    <2> HIDE DEF v, c, q
    <2>5. /\ q \in Proxies /\ q.state = w.state /\ q.op = o /\ q.deleted = w.deleted
          /\ q.watch_state = "broken" /\ q.watch = w.watch /\ q.finished = w.finished
          /\ q.started = w.started /\ q.failed = w.failed /\ q.misled = w.misled
          /\ q.keep = w.keep /\ q.framed = w.framed /\ q.host = w.host
          /\ q.to = w.to /\ q.local = w.local
      BY <1>3, <2>4 DEF Proxies
    <2>6. Named(q)
      BY <1>4, <2>4, <2>5 DEF Named
    <2> QED BY <1>1, <1>2, <1>3, <1>7, <2>1, <2>5, <2>6, ProxyGoesOn
  <1>8. CASE proxy.state \notin Over /\ proxy' = [w EXCEPT !.watch_state = "watch_stopped"]
    <2> DEFINE q == [w EXCEPT !.watch_state = "watch_stopped"]
    <2>1. proxy' = q
      BY <1>8
    <2>2. /\ q \in Proxies /\ q.state = w.state /\ q.op = w.op /\ q.deleted = w.deleted
          /\ q.watch_state = "watch_stopped" /\ q.watch = w.watch /\ q.finished = w.finished
          /\ q.started = w.started /\ q.failed = w.failed /\ q.misled = w.misled
          /\ q.keep = w.keep /\ q.framed = w.framed /\ q.host = w.host
          /\ q.to = w.to /\ q.local = w.local
      BY <1>3 DEF Proxies
    <2> HIDE DEF q
    <2>3. Named(q)
      BY <1>4, <2>2 DEF Named
    <2> QED BY <1>1, <1>2, <1>3, <1>8, <2>1, <2>2, <2>3, ProxyGoesOn
  <1>9. CASE proxy.state \notin Over /\ proxy' = [proxy EXCEPT !.blocked = TRUE]
    <2> DEFINE q == [proxy EXCEPT !.blocked = TRUE]
    <2>1. /\ q \in Proxies /\ Beside(q, proxy)
          /\ q.watch_state = proxy.watch_state /\ q.watch = proxy.watch
      BY <1>2 DEF Proxies, Beside
    <2> HIDE DEF q
    <2>2. Named(q)
      BY <1>2, <2>1 DEF Named, Beside
    <2>3. ProxyGood(q)
      BY <1>1, <1>2, <1>9, <2>1, <2>2, ProxyGoesOn DEF Beside
    <2> QED BY <1>9, <2>3 DEF q
  <1> QED BY <1>1, <1>5, <1>6, <1>7, <1>8, <1>9 DEF Over

\* What the connections and the client do.
LEMMA ProxyOthers ==
  ASSUME ProxyInUse, ProxyGood(proxy),
         Proxy!Complete \/ Proxy!Watched \/ Proxy!Requests \/ Proxy!Leaves
  PROVE  ProxyGood(proxy')
  <1>1. proxy \in Proxies /\ ~proxy.deleted
    BY DEF ProxyGood, Proxy!Complete, Proxy!Watched, Proxy!Requests, Proxy!Leaves, Proxy!Live
  <1>2. CASE Proxy!Complete
    <2>1. proxy.op = "pending"
      BY <1>2 DEF Proxy!Complete
    <2>2. /\ proxy.state \notin Over /\ (proxy.watch_state = "watching" <=> proxy.watch # "none")
          /\ ~proxy.failed /\ ~proxy.misled /\ (proxy.keep => proxy.framed) /\ Named(proxy)
      BY <1>1, <2>1 DEF ProxyGood, Watches
    <2>3. CASE proxy'.op = "done" /\ proxy.state = "receiving_request_head"
      <3>1. PICK body \in BOOLEAN, host \in Hosts, ahead \in Nat :
               proxy' = [proxy EXCEPT !.op = "done", !.read = @ + 1, !.ahead = ahead, !.body = body,
                                      !.host = host]
        <4>1. CASE proxy' = [proxy EXCEPT !.op = "failed"]
          BY <1>1, <2>3, <4>1 DEF Proxies
        <4>2. CASE proxy' # [proxy EXCEPT !.op = "failed"]
          <5>1. PICK body \in BOOLEAN, host \in Hosts,
                   ahead \in IF proxy.ahead > 0 THEN {proxy.ahead - 1} ELSE 0 .. Proxy!AtHand(proxy) - 1 :
                   proxy' = [proxy EXCEPT !.op = "done", !.read = @ + 1, !.ahead = ahead, !.body = body,
                                          !.host = host]
            BY <1>2, <2>3, <4>2 DEF Proxy!Complete
          <5>2. proxy.ahead \in Nat
            BY <1>1 DEF Proxies
          <5>3. ahead \in Nat
            BY <5>1, <5>2
          <5> QED BY <5>1, <5>3
        <4> QED BY <4>1, <4>2
      <3>2. PICK n \in Nat : n = proxy.read + 1
        BY <1>1 DEF Proxies
      <3>3. proxy' = [proxy EXCEPT !.op = "done", !.read = n, !.ahead = ahead, !.body = body, !.host = host]
        BY <1>1, <3>1, <3>2 DEF Proxies
      <3>4. /\ proxy' \in Proxies /\ proxy'.state = proxy.state /\ proxy'.op = "done"
            /\ proxy'.deleted = proxy.deleted /\ proxy'.watch_state = proxy.watch_state
            /\ proxy'.watch = proxy.watch /\ proxy'.finished = proxy.finished
            /\ proxy'.started = proxy.started /\ proxy'.failed = proxy.failed
            /\ proxy'.misled = proxy.misled /\ proxy'.keep = proxy.keep
            /\ proxy'.framed = proxy.framed /\ proxy'.host = host
        BY <1>1, <3>3 DEF Proxies
      <3>5. Named(proxy')
        BY <2>3, <3>4 DEF Named, Ahead, ToServer
      <3> QED BY <1>1, <2>2, <3>4, <3>5, ProxyGoesOn
    <2>4. CASE ~(proxy'.op = "done" /\ proxy.state = "receiving_request_head")
      <3>1. PICK o \in {"done", "failed"}, up \in BOOLEAN :
               proxy' = [proxy EXCEPT !.op = o, !.up = up] /\ (o = "done" => proxy.state # "receiving_request_head")
        <4>1. CASE proxy' = [proxy EXCEPT !.op = "failed"]
          <5>1. proxy' = [proxy EXCEPT !.op = "failed", !.up = proxy.up] /\ proxy.up \in BOOLEAN
            BY <1>1, <4>1 DEF Proxies
          <5> QED BY <5>1
        <4>2. CASE proxy.state = "receiving_request_head" /\ proxy' # [proxy EXCEPT !.op = "failed"]
          <5>1. PICK body \in BOOLEAN, host \in Hosts,
                   ahead \in IF proxy.ahead > 0 THEN {proxy.ahead - 1} ELSE 0 .. Proxy!AtHand(proxy) - 1 :
                   proxy' = [proxy EXCEPT !.op = "done", !.read = @ + 1, !.ahead = ahead, !.body = body,
                                          !.host = host]
            BY <1>2, <4>2 DEF Proxy!Complete
          <5>2. proxy'.op = "done"
            BY <1>1, <5>1 DEF Proxies
          <5> QED BY <2>4, <4>2, <5>2
        <4>3. CASE proxy.state # "receiving_request_head" /\ proxy' # [proxy EXCEPT !.op = "failed"]
          <5>1. PICK up \in {proxy.up} \cup {u \in {FALSE} : ServerCloses /\ proxy.state = "transferring_response_data"} :
                   proxy' = [proxy EXCEPT !.op = "done", !.up = up]
            BY <1>2, <4>3 DEF Proxy!Complete
          <5>2. up \in BOOLEAN
            BY <1>1, <5>1 DEF Proxies
          <5> QED BY <4>3, <5>1, <5>2
        <4> QED BY <4>1, <4>2, <4>3
      <3>2. /\ proxy' \in Proxies /\ proxy'.state = proxy.state /\ proxy'.op = o
            /\ proxy'.deleted = proxy.deleted /\ proxy'.watch_state = proxy.watch_state
            /\ proxy'.watch = proxy.watch /\ proxy'.finished = proxy.finished
            /\ proxy'.started = proxy.started /\ proxy'.failed = proxy.failed
            /\ proxy'.misled = proxy.misled /\ proxy'.keep = proxy.keep
            /\ proxy'.framed = proxy.framed /\ proxy'.host = proxy.host
            /\ proxy'.to = proxy.to /\ proxy'.local = proxy.local
        BY <1>1, <3>1 DEF Proxies
      <3>3. Named(proxy')
        BY <2>2, <3>1, <3>2 DEF Named
      <3> QED BY <1>1, <2>2, <3>2, <3>3, ProxyGoesOn
    <2> QED BY <2>3, <2>4
  <1>3. CASE Proxy!Watched
    <2>1. proxy' = [proxy EXCEPT !.watch = "ready"] /\ proxy.watch = "pending"
      BY <1>3 DEF Proxy!Watched
    <2>2. /\ proxy' \in Proxies /\ proxy'.state = proxy.state /\ proxy'.op = proxy.op
          /\ proxy'.deleted = proxy.deleted /\ proxy'.watch_state = proxy.watch_state
          /\ proxy'.watch = "ready" /\ proxy'.finished = proxy.finished
          /\ proxy'.started = proxy.started /\ proxy'.failed = proxy.failed
          /\ proxy'.misled = proxy.misled /\ proxy'.keep = proxy.keep
          /\ proxy'.framed = proxy.framed /\ proxy'.host = proxy.host
          /\ proxy'.to = proxy.to /\ proxy'.local = proxy.local
      BY <1>1, <2>1 DEF Proxies
    <2>3. Named(proxy') /\ Finishes(proxy')
      BY <2>2 DEF Named, Finishes, ProxyGood
    <2>4. Watches(proxy')
      BY <1>1, <2>1, <2>2 DEF Watches, ProxyGood
    <2> QED BY <2>2, <2>3, <2>4 DEF ProxyGood
  <1>4. CASE Proxy!Requests \/ Proxy!Leaves
    <2>1. PICK n \in Nat, g \in BOOLEAN : proxy' = [proxy EXCEPT !.sent = n, !.gone = g]
      <3>1. CASE Proxy!Requests
        <4>1. PICK n \in Nat : n = proxy.sent + 1
          BY <1>1 DEF Proxies
        <4>2. proxy' = [proxy EXCEPT !.sent = n, !.gone = proxy.gone] /\ proxy.gone \in BOOLEAN
          BY <1>1, <3>1, <4>1 DEF Proxy!Requests, Proxies
        <4> QED BY <4>2
      <3>2. CASE Proxy!Leaves
        <4>1. proxy' = [proxy EXCEPT !.sent = proxy.sent, !.gone = TRUE] /\ proxy.sent \in Nat
          BY <1>1, <3>2 DEF Proxy!Leaves, Proxies
        <4> QED BY <4>1
      <3> QED BY <1>4, <3>1, <3>2
    <2>2. /\ proxy' \in Proxies /\ proxy'.state = proxy.state /\ proxy'.op = proxy.op
          /\ proxy'.deleted = proxy.deleted /\ proxy'.watch_state = proxy.watch_state
          /\ proxy'.watch = proxy.watch /\ proxy'.finished = proxy.finished
          /\ proxy'.started = proxy.started /\ proxy'.failed = proxy.failed
          /\ proxy'.misled = proxy.misled /\ proxy'.keep = proxy.keep
          /\ proxy'.framed = proxy.framed /\ proxy'.host = proxy.host
          /\ proxy'.to = proxy.to /\ proxy'.local = proxy.local
      BY <1>1, <2>1 DEF Proxies
    <2>3. Named(proxy') /\ Finishes(proxy') /\ Watches(proxy')
      BY <2>2 DEF Named, Finishes, Watches, ProxyGood
    <2> QED BY <2>2, <2>3 DEF ProxyGood
  <1> QED BY <1>2, <1>3, <1>4

LEMMA ProxyStep ==
  ASSUME ProxyInUse, ProxyGood(proxy), Proxy!ProxyNext
  PROVE  ProxyGood(proxy')
  BY ProxyAsync, ProxyWatched, ProxyOthers DEF Proxy!ProxyNext

LEMMA ProxyIsSafe ==
  ASSUME ProxyGood(proxy)
  PROVE  Proxy!ProxySafe
  <1>1. proxy.started \in Nat
    BY DEF ProxyGood, Proxies
  <1>2. proxy.started - 0 = proxy.started
    BY <1>1
  <1>3. ~proxy.deleted => proxy.finished = proxy.started - (IF proxy.state \in Over THEN 0 ELSE 1)
    BY <1>2 DEF ProxyGood, Finishes
  <1>4. proxy.deleted => proxy.watch = "none" /\ proxy.op = "none" /\ proxy.finished = proxy.started
    BY DEF ProxyGood, Finishes, Watches
  <1> QED BY <1>3, <1>4 DEF ProxyGood, Proxy!ProxySafe, Over

-----------------------------------------------------------------------------
(* RtspSession: the numbers of the requests go through the queues in turn.    *)

\* The numbers of q behind its first w messages are lo + 1 to hi, in order; the
\* messages between them are zero.
InOrder(q, w, lo, hi) ==
    /\ lo <= hi
    /\ \A i \in DOMAIN q : i > w /\ q[i] # 0 => lo < q[i] /\ q[i] <= hi
    /\ \A i, j \in DOMAIN q : w < i /\ i < j /\ q[i] # 0 /\ q[j] # 0 => q[i] < q[j]
    /\ \A n \in Nat : lo < n /\ n <= hi => \E i \in DOMAIN q : i > w /\ q[i] = n

LEMMA InOrderEmpty ==
  ASSUME NEW n \in Nat, NEW w \in Nat
  PROVE  InOrder(<< >>, w, n, n)
  BY DEF InOrder

LEMMA InOrderZero ==
  ASSUME NEW q \in Seq(Nat), NEW w \in Nat, NEW lo \in Nat, NEW hi \in Nat, InOrder(q, w, lo, hi)
  PROVE  InOrder(Append(q, 0), w, lo, hi)
  <1> DEFINE r == Append(q, 0)
  <1>1. /\ DOMAIN r = 1 .. (Len(q) + 1) /\ DOMAIN q = 1 .. Len(q) /\ Len(q) \in Nat
        /\ \A i \in DOMAIN q : r[i] = q[i]
        /\ r[Len(q) + 1] = 0
    <2>1. DOMAIN q = 1 .. Len(q) /\ Len(q) \in Nat
      OBVIOUS
    <2>2. /\ r \in Seq(Nat) /\ Len(r) = Len(q) + 1 /\ r[Len(q) + 1] = 0
          /\ \A i \in 1 .. Len(q) : r[i] = q[i]
      BY AppendProperties
    <2> HIDE DEF r
    <2> QED BY <2>1, <2>2
  <1> HIDE DEF r
  <1>2. \A i \in DOMAIN r : r[i] # 0 => i \in DOMAIN q /\ r[i] = q[i]
    BY <1>1
  <1>3. ASSUME NEW n \in Nat, lo < n, n <= hi PROVE \E i \in DOMAIN r : i > w /\ r[i] = n
    <2>1. PICK i \in DOMAIN q : i > w /\ q[i] = n
      BY <1>3 DEF InOrder
    <2>2. i \in DOMAIN r /\ r[i] = q[i]
      BY <1>1
    <2> QED BY <2>1, <2>2
  <1>4. \A i \in DOMAIN r : i > w /\ r[i] # 0 => lo < r[i] /\ r[i] <= hi
    BY <1>2 DEF InOrder
  <1>5. \A i, j \in DOMAIN r : w < i /\ i < j /\ r[i] # 0 /\ r[j] # 0 => r[i] < r[j]
    BY <1>2 DEF InOrder
  <1> QED BY <1>3, <1>4, <1>5 DEF InOrder, r

LEMMA InOrderNext ==
  ASSUME NEW q \in Seq(Nat), NEW w \in Nat, NEW lo \in Nat, NEW hi \in Nat, InOrder(q, w, lo, hi),
         w <= Len(q)
  PROVE  InOrder(Append(q, hi + 1), w, lo, hi + 1)
  <1> DEFINE r == Append(q, hi + 1)
  <1>1. /\ DOMAIN r = 1 .. (Len(q) + 1) /\ DOMAIN q = 1 .. Len(q) /\ Len(q) \in Nat
        /\ \A i \in DOMAIN q : r[i] = q[i] /\ q[i] \in Nat
        /\ r[Len(q) + 1] = hi + 1
    <2>1. DOMAIN q = 1 .. Len(q) /\ Len(q) \in Nat /\ \A i \in DOMAIN q : q[i] \in Nat
      OBVIOUS
    <2>2. hi + 1 \in Nat
      OBVIOUS
    <2>3. /\ r \in Seq(Nat) /\ Len(r) = Len(q) + 1 /\ r[Len(q) + 1] = hi + 1
          /\ \A i \in 1 .. Len(q) : r[i] = q[i]
      BY <2>2, AppendProperties
    <2> HIDE DEF r
    <2> QED BY <2>1, <2>3
  <1> HIDE DEF r
  <1>2. \A i \in DOMAIN r : (i \in DOMAIN q /\ r[i] = q[i]) \/ (i = Len(q) + 1 /\ r[i] = hi + 1)
    BY <1>1
  <1>3. ASSUME NEW n \in Nat, lo < n, n <= hi + 1 PROVE \E i \in DOMAIN r : i > w /\ r[i] = n
    <2>1. CASE n = hi + 1
      <3>1. Len(q) + 1 \in DOMAIN r /\ Len(q) + 1 > w
        BY <1>1
      <3> QED BY <1>1, <2>1, <3>1
    <2>2. CASE n # hi + 1
      <3>1. n <= hi
        BY <1>3, <2>2
      <3>2. PICK i \in DOMAIN q : i > w /\ q[i] = n
        BY <1>3, <3>1 DEF InOrder
      <3>3. i \in DOMAIN r /\ r[i] = q[i]
        BY <1>1
      <3> QED BY <3>2, <3>3
    <2> QED BY <2>1, <2>2
  <1>4. \A i \in DOMAIN r : i > w /\ r[i] # 0 => lo < r[i] /\ r[i] <= hi + 1
    BY <1>1, <1>2 DEF InOrder
  <1>5. ASSUME NEW i \in DOMAIN r, NEW j \in DOMAIN r, w < i, i < j, r[i] # 0, r[j] # 0
        PROVE  r[i] < r[j]
    <2>1. i \in DOMAIN q /\ r[i] = q[i]
      BY <1>1, <1>2, <1>5
    <2>2. CASE j \in DOMAIN q
      BY <1>1, <1>5, <2>1, <2>2 DEF InOrder
    <2>3. CASE j \notin DOMAIN q
      <3>1. r[j] = hi + 1
        BY <1>2, <2>3
      <3>2. q[i] <= hi
        BY <1>5, <2>1 DEF InOrder
      <3> QED BY <1>1, <2>1, <3>1, <3>2
    <2> QED BY <2>2, <2>3
  <1>6. lo <= hi + 1
    BY DEF InOrder
  <1> QED BY <1>3, <1>4, <1>5, <1>6 DEF InOrder, r

\* The first message is written.
LEMMA InOrderHead ==
  ASSUME NEW q \in Seq(Nat), NEW lo \in Nat, NEW hi \in Nat, InOrder(q, 0, lo, hi), q # << >>
  PROVE  /\ Head(q) = 0 => InOrder(q, 1, lo, hi)
         /\ Head(q) # 0 => Head(q) = lo + 1 /\ InOrder(q, 1, lo + 1, hi)
  <1>1. DOMAIN q = 1 .. Len(q) /\ Len(q) \in Nat /\ 1 \in DOMAIN q /\ Head(q) = q[1] /\ q[1] \in Nat
    OBVIOUS
  <1>2. \A i \in DOMAIN q : q[i] \in Nat /\ (i > 0) /\ (i > 1 \/ i = 1)
    BY <1>1
  <1>3. CASE q[1] = 0
    <2>1. \A n \in Nat : lo < n /\ n <= hi => \E i \in DOMAIN q : i > 1 /\ q[i] = n
      BY <1>2, <1>3 DEF InOrder
    <2> QED BY <1>1, <1>2, <1>3, <2>1 DEF InOrder
  <1>4. CASE q[1] # 0
    <2>1. lo < q[1] /\ q[1] <= hi
      BY <1>1, <1>4 DEF InOrder
    <2>2. PICK i \in DOMAIN q : q[i] = lo + 1
      BY <1>1, <2>1 DEF InOrder
    <2>3. i = 1
      <3>1. CASE i > 1
        <4>1. q[1] < q[i]
          BY <1>1, <1>4, <2>2, <3>1 DEF InOrder
        <4> QED BY <1>1, <2>1, <2>2, <4>1
      <3> QED BY <1>2, <3>1
    <2>4. q[1] = lo + 1 /\ lo + 1 <= hi
      BY <2>1, <2>2, <2>3
    <2>5. ASSUME NEW j \in DOMAIN q, j > 1, q[j] # 0 PROVE lo + 1 < q[j] /\ q[j] <= hi
      <3>1. 1 \in DOMAIN q /\ 0 < 1 /\ j \in Nat /\ j > 0
        BY <1>1, <2>5
      <3>2. q[1] < q[j]
        BY <1>4, <2>5, <3>1 DEF InOrder
      <3>3. q[j] <= hi
        BY <2>5, <3>1 DEF InOrder
      <3> QED BY <2>4, <3>2, <3>3
    <2>6. ASSUME NEW n \in Nat, lo + 1 < n, n <= hi PROVE \E j \in DOMAIN q : j > 1 /\ q[j] = n
      <3>1. PICK j \in DOMAIN q : q[j] = n
        BY <2>6 DEF InOrder
      <3>2. j # 1
        BY <2>4, <2>6, <3>1
      <3> QED BY <1>2, <3>1, <3>2
    <2>7. \A k, j \in DOMAIN q : 1 < k /\ k < j /\ q[k] # 0 /\ q[j] # 0 => q[k] < q[j]
      BY <1>2 DEF InOrder
    <2> QED BY <1>1, <1>4, <2>4, <2>5, <2>6, <2>7 DEF InOrder
  <1> QED BY <1>1, <1>3, <1>4

\* The message that was written leaves the queue.
LEMMA InOrderTail ==
  ASSUME NEW q \in Seq(Nat), NEW lo \in Nat, NEW hi \in Nat, InOrder(q, 1, lo, hi), q # << >>
  PROVE  InOrder(Tail(q), 0, lo, hi)
  <1> DEFINE r == Tail(q)
  <1>1. /\ DOMAIN q = 1 .. Len(q) /\ Len(q) \in Nat /\ DOMAIN r = 1 .. (Len(q) - 1)
        /\ \A i \in DOMAIN r : r[i] = q[i + 1]
    OBVIOUS
  <1> HIDE DEF r
  <1>2. \A i \in DOMAIN r : i + 1 \in DOMAIN q /\ i + 1 > 1 /\ i \in Nat
    BY <1>1
  <1>3. ASSUME NEW n \in Nat, lo < n, n <= hi PROVE \E i \in DOMAIN r : i > 0 /\ r[i] = n
    <2>1. PICK j \in DOMAIN q : j > 1 /\ q[j] = n
      BY <1>3 DEF InOrder
    <2>2. j - 1 \in DOMAIN r /\ j - 1 > 0 /\ (j - 1) + 1 = j
      BY <1>1, <2>1
    <2>3. r[j - 1] = n
      BY <1>1, <2>1, <2>2
    <2> QED BY <2>2, <2>3
  <1>4. \A i \in DOMAIN r : i > 0 /\ r[i] # 0 => lo < r[i] /\ r[i] <= hi
    BY <1>1, <1>2 DEF InOrder
  <1>5. ASSUME NEW i \in DOMAIN r, NEW j \in DOMAIN r, i < j, r[i] # 0, r[j] # 0
        PROVE  r[i] < r[j]
    <2>1. i + 1 < j + 1 /\ r[i] = q[i + 1] /\ r[j] = q[j + 1]
      BY <1>1, <1>2, <1>5
    <2> QED BY <1>2, <1>5, <2>1 DEF InOrder
  <1> QED BY <1>3, <1>4, <1>5 DEF InOrder, r

LEMMA InOrderTaken ==
  ASSUME NEW q \in Seq(Nat), NEW lo \in Nat, NEW hi \in Nat, InOrder(q, 0, lo, hi), q # << >>
  PROVE  /\ Tail(q) \in Seq(Nat) /\ Head(q) \in Nat
         /\ Head(q) = 0 => InOrder(Tail(q), 0, lo, hi)
         /\ Head(q) # 0 => Head(q) = lo + 1 /\ InOrder(Tail(q), 0, lo + 1, hi)
  <1>1. Tail(q) \in Seq(Nat) /\ Head(q) \in Nat /\ lo + 1 \in Nat
    OBVIOUS
  <1> QED BY <1>1, InOrderHead, InOrderTail

\* The derived class posts nothing once a write has failed: what the code asks
\* of it (a message posted then is written to a connection that failed).
RtspInUse == PostAfterError = FALSE /\ PeerStalls \in BOOLEAN

Rtsps ==
    [recv : {"data", "none", "message"}, read : {"pending", "read", "lost", "idle"},
     writing : {"idle", "pending", "wrote", "failed"}, sends : Seq(Nat), requests : Seq(Nat),
     stopping : BOOLEAN, inbox : Seq(Nat), asked : Nat, posted : Nat, got : Seq(Nat),
     broken : BOOLEAN, gone : BOOLEAN, stalled : BOOLEAN, deleted : Nat, failed : BOOLEAN]

\* What was answered, what is to be sent behind the first w messages, what waits
\* for an answer and what is on its way are the requests of the peer, in turn.
Numbered(got, sends, w, requests, inbox, asked, broken) ==
    /\ \A i \in DOMAIN got : got[i] = i
    /\ \A i \in DOMAIN requests : requests[i] # 0
    /\ \E M, K \in Nat :
           /\ broken \/ InOrder(sends, w, Len(got), M)
           /\ InOrder(requests, 0, M, K)
           /\ InOrder(inbox, 0, K, asked)
InTurn(s, w) == Numbered(s.got, s.sends, w, s.requests, s.inbox, s.asked, s.broken)

Ended(s) == s.stopping /\ s.recv = "none" /\ s.sends = << >>

\* The queue is written one message at a time, until a write fails.
Out(s) == IF s.writing = "wrote" THEN 1 ELSE 0
Written(s) ==
    /\ InTurn(s, Out(s))
    /\ s.writing = "idle" <=> s.sends = << >>
    /\ s.broken => s.sends = << >>
    /\ ~s.failed

RtspGood(s) ==
    /\ s \in Rtsps
    /\ Written(s)
    /\ s.recv # "message" /\ (s.recv = "none" <=> s.read = "idle")
    /\ s.read = "read" => s.inbox # << >>
    /\ s.deleted = IF Ended(s) THEN 1 ELSE 0

LEMMA RtspStart ==
  ASSUME Rtsp!RtspInit
  PROVE  RtspGood(rtsp)
  <1>1. rtsp \in Rtsps
    BY DEF Rtsp!RtspInit, Rtsps
  <1>2. /\ rtsp.recv = "data" /\ rtsp.read = "pending" /\ rtsp.writing = "idle"
        /\ rtsp.sends = << >> /\ rtsp.requests = << >> /\ rtsp.inbox = << >> /\ rtsp.asked = 0
        /\ rtsp.got = << >> /\ rtsp.broken = FALSE /\ rtsp.stopping = FALSE
        /\ rtsp.deleted = 0 /\ rtsp.failed = FALSE
    BY DEF Rtsp!RtspInit
  <1>3. InOrder(<< >>, 0, 0, 0)
    BY InOrderEmpty
  <1>4. InTurn(rtsp, 0)
    <2>1. Numbered(<< >>, << >>, 0, << >>, << >>, 0, FALSE)
      BY <1>3 DEF Numbered
    <2> QED BY <1>2, <2>1 DEF InTurn
  <1> QED BY <1>1, <1>2, <1>4 DEF RtspGood, Written, Out, Ended

\* What post makes of the numbers.
LEMMA NumberedRequest ==
  ASSUME NEW got \in Seq(Nat), NEW sends \in Seq(Nat), NEW w \in Nat, NEW requests \in Seq(Nat),
         NEW inbox \in Seq(Nat), NEW asked \in Nat, NEW broken,
         Numbered(got, sends, w, requests, inbox, asked, broken)
  PROVE  Numbered(got, Append(sends, 0), w, requests, inbox, asked, broken)
  <1>1. PICK M \in Nat, K \in Nat :
           /\ broken \/ InOrder(sends, w, Len(got), M)
           /\ InOrder(requests, 0, M, K) /\ InOrder(inbox, 0, K, asked)
    BY DEF Numbered
  <1>2. Len(got) \in Nat
    OBVIOUS
  <1>3. broken \/ InOrder(Append(sends, 0), w, Len(got), M)
    BY <1>1, <1>2, InOrderZero
  <1> QED BY <1>1, <1>3 DEF Numbered

LEMMA NumberedResponse ==
  ASSUME NEW got \in Seq(Nat), NEW sends \in Seq(Nat), NEW w \in Nat, NEW requests \in Seq(Nat),
         NEW inbox \in Seq(Nat), NEW asked \in Nat, NEW broken, w <= Len(sends),
         Numbered(got, sends, w, requests, inbox, asked, broken), requests # << >>
  PROVE  Numbered(got, Append(sends, Head(requests)), w, Tail(requests), inbox, asked, broken)
  <1>1. PICK M \in Nat, K \in Nat :
           /\ broken \/ InOrder(sends, w, Len(got), M)
           /\ InOrder(requests, 0, M, K) /\ InOrder(inbox, 0, K, asked)
    BY DEF Numbered
  <1>2. Len(got) \in Nat /\ Head(requests) = requests[1] /\ 1 \in DOMAIN requests
    OBVIOUS
  <1>3. Head(requests) = M + 1 /\ InOrder(Tail(requests), 0, M + 1, K)
    <2>1. Head(requests) # 0
      BY <1>2 DEF Numbered
    <2> QED BY <1>1, <2>1, InOrderTaken
  <1>4. broken \/ InOrder(Append(sends, M + 1), w, Len(got), M + 1)
    BY <1>1, <1>2, InOrderNext
  <1>5. \A i \in DOMAIN Tail(requests) : Tail(requests)[i] # 0
    <2>1. \A i \in DOMAIN Tail(requests) : i + 1 \in DOMAIN requests /\ Tail(requests)[i] = requests[i + 1]
      OBVIOUS
    <2> QED BY <2>1 DEF Numbered
  <1> QED BY <1>1, <1>3, <1>4, <1>5 DEF Numbered

\* A message comes out of the inbox.
LEMMA NumberedRead ==
  ASSUME NEW got \in Seq(Nat), NEW sends \in Seq(Nat), NEW w \in Nat, NEW requests \in Seq(Nat),
         NEW inbox \in Seq(Nat), NEW asked \in Nat, NEW broken,
         Numbered(got, sends, w, requests, inbox, asked, broken), inbox # << >>
  PROVE  Numbered(got, sends, w, IF Head(inbox) = 0 THEN requests ELSE Append(requests, Head(inbox)),
                  Tail(inbox), asked, broken)
  <1>1. PICK M \in Nat, K \in Nat :
           /\ broken \/ InOrder(sends, w, Len(got), M)
           /\ InOrder(requests, 0, M, K) /\ InOrder(inbox, 0, K, asked)
    BY DEF Numbered
  <1>2. /\ Head(inbox) = 0 => InOrder(Tail(inbox), 0, K, asked)
        /\ Head(inbox) # 0 => Head(inbox) = K + 1 /\ InOrder(Tail(inbox), 0, K + 1, asked)
    BY <1>1, InOrderTaken
  <1>3. CASE Head(inbox) = 0
    BY <1>1, <1>2, <1>3 DEF Numbered
  <1>4. CASE Head(inbox) # 0
    <2>1. InOrder(Append(requests, K + 1), 0, M, K + 1)
      BY <1>1, InOrderNext
    <2>2. \A i \in DOMAIN Append(requests, K + 1) : Append(requests, K + 1)[i] # 0
      <3>1. \A i \in DOMAIN Append(requests, K + 1) :
               (i \in DOMAIN requests /\ Append(requests, K + 1)[i] = requests[i]) \/ Append(requests, K + 1)[i] = K + 1
        OBVIOUS
      <3>2. K + 1 # 0 /\ \A i \in DOMAIN requests : requests[i] # 0
        BY DEF Numbered
      <3> QED BY <3>1, <3>2
    <2>3. Numbered(got, sends, w, Append(requests, K + 1), Tail(inbox), asked, broken)
      BY <1>1, <1>2, <1>4, <2>1, <2>2 DEF Numbered
    <2> QED BY <1>2, <1>4, <2>3
  <1> QED BY <1>3, <1>4

\* The first message is written: a response is at the peer.
LEMMA NumberedWrite ==
  ASSUME NEW got \in Seq(Nat), NEW sends \in Seq(Nat), NEW requests \in Seq(Nat),
         NEW inbox \in Seq(Nat), NEW asked \in Nat,
         Numbered(got, sends, 0, requests, inbox, asked, FALSE), sends # << >>
  PROVE  Numbered(IF Head(sends) = 0 THEN got ELSE Append(got, Head(sends)), sends, 1, requests,
                  inbox, asked, FALSE)
  <1>1. PICK M \in Nat, K \in Nat :
           /\ InOrder(sends, 0, Len(got), M)
           /\ InOrder(requests, 0, M, K) /\ InOrder(inbox, 0, K, asked)
    BY DEF Numbered
  <1>2. Len(got) \in Nat
    OBVIOUS
  <1>3. /\ Head(sends) = 0 => InOrder(sends, 1, Len(got), M)
        /\ Head(sends) # 0 => Head(sends) = Len(got) + 1 /\ InOrder(sends, 1, Len(got) + 1, M)
    BY <1>1, <1>2, InOrderHead
  <1>4. CASE Head(sends) = 0
    BY <1>1, <1>3, <1>4 DEF Numbered
  <1>5. CASE Head(sends) # 0
    <2> DEFINE g == Append(got, Len(got) + 1)
    <2>1. Len(g) = Len(got) + 1 /\ \A i \in DOMAIN g : (i \in DOMAIN got /\ g[i] = got[i]) \/ (i = Len(got) + 1 /\ g[i] = i)
      OBVIOUS
    <2> HIDE DEF g
    <2>2. \A i \in DOMAIN g : g[i] = i
      BY <2>1 DEF Numbered
    <2>3. Numbered(g, sends, 1, requests, inbox, asked, FALSE)
      BY <1>1, <1>3, <1>5, <2>1, <2>2 DEF Numbered
    <2> QED BY <1>3, <1>5, <2>3 DEF g
  <1> QED BY <1>4, <1>5

\* Its handler takes it out.
LEMMA NumberedSent ==
  ASSUME NEW got \in Seq(Nat), NEW sends \in Seq(Nat), NEW requests \in Seq(Nat),
         NEW inbox \in Seq(Nat), NEW asked \in Nat,
         Numbered(got, sends, 1, requests, inbox, asked, FALSE), sends # << >>
  PROVE  Numbered(got, Tail(sends), 0, requests, inbox, asked, FALSE)
  <1>1. PICK M \in Nat, K \in Nat :
           /\ InOrder(sends, 1, Len(got), M)
           /\ InOrder(requests, 0, M, K) /\ InOrder(inbox, 0, K, asked)
    BY DEF Numbered
  <1>2. Len(got) \in Nat
    OBVIOUS
  <1>3. InOrder(Tail(sends), 0, Len(got), M)
    BY <1>1, <1>2, InOrderTail
  <1> QED BY <1>1, <1>3 DEF Numbered

\* The peer sends a message: the next request, or a response.
LEMMA NumberedAsked ==
  ASSUME NEW got \in Seq(Nat), NEW sends \in Seq(Nat), NEW w \in Nat, NEW requests \in Seq(Nat),
         NEW inbox \in Seq(Nat), NEW asked \in Nat, NEW broken,
         Numbered(got, sends, w, requests, inbox, asked, broken)
  PROVE  /\ Numbered(got, sends, w, requests, Append(inbox, asked + 1), asked + 1, broken)
         /\ Numbered(got, sends, w, requests, Append(inbox, 0), asked, broken)
  <1>1. PICK M \in Nat, K \in Nat :
           /\ broken \/ InOrder(sends, w, Len(got), M)
           /\ InOrder(requests, 0, M, K) /\ InOrder(inbox, 0, K, asked)
    BY DEF Numbered
  <1>2. InOrder(Append(inbox, asked + 1), 0, K, asked + 1)
    BY <1>1, InOrderNext
  <1>3. InOrder(Append(inbox, 0), 0, K, asked)
    BY <1>1, InOrderZero
  <1> QED BY <1>1, <1>2, <1>3 DEF Numbered

\* What a callback of the derived class does to a session that is alive.
Called(s, t, w) ==
    /\ t \in Rtsps /\ t.recv = s.recv /\ t.inbox = s.inbox /\ t.got = s.got /\ t.asked = s.asked
    /\ t.broken = s.broken /\ t.failed = FALSE
    /\ t.read = s.read \/ (s.read = "pending" /\ t.read = "lost")
    /\ s.sends # << >> => t.sends # << >> /\ (s.writing # "pending" => t.writing = s.writing)
    /\ s.writing = "pending" => t.writing \in {"pending", "failed"}
    /\ s.broken => t.sends = s.sends
    /\ (s.sends = << >> /\ s.writing = "idle") => (t.writing = "idle" <=> t.sends = << >>) /\ t.writing # "wrote"
    /\ t.deleted = IF Ended(t) THEN 1 ELSE 0
    /\ InTurn(t, w)

LEMMA RtspStop ==
  ASSUME NEW s \in Rtsps, NEW w \in Nat, InTurn(s, w), ~s.failed, s.deleted = 0
  PROVE  Called(s, Rtsp!stop(s), w)
  <1> DEFINE p == [s EXCEPT !.stopping = TRUE]
             c == [p EXCEPT !.read = IF @ = "pending" THEN "lost" ELSE @,
                            !.writing = IF @ = "pending" THEN "failed" ELSE @]
             d == [c EXCEPT !.deleted = @ + 1]
  <1>1. Rtsp!stop(s) = IF c.stopping /\ c.recv = "none" /\ c.sends = << >> THEN d ELSE c
    BY DEF Rtsp!stop, Rtsp!release, Rtsp!cancel
  <1>2. /\ p \in Rtsps /\ p.read = s.read /\ p.writing = s.writing /\ p.stopping = TRUE
        /\ p.recv = s.recv /\ p.inbox = s.inbox /\ p.got = s.got /\ p.asked = s.asked
        /\ p.broken = s.broken /\ p.failed = s.failed /\ p.sends = s.sends /\ p.gone = s.gone
        /\ p.requests = s.requests /\ p.deleted = s.deleted
    BY DEF Rtsps
  <1> HIDE DEF p
  <1>3. /\ c \in Rtsps /\ c.stopping = TRUE
        /\ c.recv = s.recv /\ c.inbox = s.inbox /\ c.got = s.got /\ c.asked = s.asked
        /\ c.broken = s.broken /\ c.failed = s.failed /\ c.sends = s.sends /\ c.gone = s.gone
        /\ c.requests = s.requests /\ c.deleted = s.deleted
        /\ c.read = (IF s.read = "pending" THEN "lost" ELSE s.read)
        /\ c.writing = (IF s.writing = "pending" THEN "failed" ELSE s.writing)
    BY <1>2 DEF Rtsps
  <1> HIDE DEF c
  <1>4. PICK t \in {c, d} : Rtsp!stop(s) = t /\ t.deleted = (IF Ended(c) THEN 1 ELSE 0)
           /\ t = [c EXCEPT !.deleted = t.deleted]
    <2>1. CASE Ended(c)
      <3>1. d = [c EXCEPT !.deleted = 1]
        BY <1>3 DEF Rtsps
      <3>2. d.deleted = 1
        BY <1>3, <3>1 DEF Rtsps
      <3> QED BY <1>1, <2>1, <3>1, <3>2 DEF Ended
    <2>2. CASE ~Ended(c)
      <3>1. c = [c EXCEPT !.deleted = c.deleted]
        BY <1>3 DEF Rtsps
      <3> QED BY <1>1, <1>3, <2>2, <3>1 DEF Ended
    <2> QED BY <2>1, <2>2
  <1>5. /\ t \in Rtsps /\ t.stopping = TRUE
        /\ t.recv = s.recv /\ t.inbox = s.inbox /\ t.got = s.got /\ t.asked = s.asked
        /\ t.broken = s.broken /\ t.failed = s.failed /\ t.sends = s.sends /\ t.gone = s.gone
        /\ t.requests = s.requests /\ t.read = c.read /\ t.writing = c.writing
    <2>1. PICK n \in Nat : n = t.deleted
      BY <1>4
    <2>2. t = [c EXCEPT !.deleted = n]
      BY <1>4, <2>1
    <2> QED BY <1>3, <2>2 DEF Rtsps
  <1>6. Ended(t) <=> Ended(c)
    BY <1>3, <1>5 DEF Ended
  <1>7. InTurn(t, w)
    BY <1>5 DEF InTurn
  <1> QED BY <1>3, <1>4, <1>5, <1>6, <1>7 DEF Called

Writes(a) == [a EXCEPT !.writing = "pending", !.failed = FALSE]

LEMMA RtspWrites ==
  ASSUME NEW a \in Rtsps, NEW t, t = Writes(a)
  PROVE  /\ t \in Rtsps /\ t.recv = a.recv /\ t.inbox = a.inbox /\ t.got = a.got /\ t.asked = a.asked
         /\ t.broken = a.broken /\ t.failed = FALSE /\ t.sends = a.sends /\ t.gone = a.gone
         /\ t.requests = a.requests /\ t.deleted = a.deleted /\ t.stopping = a.stopping
         /\ t.read = a.read /\ t.writing = "pending"
  BY DEF Rtsps, Writes

\* A message is queued, and written if it is the only one.
LEMMA RtspPosts ==
  ASSUME NEW s \in Rtsps, NEW w \in {0, 1}, ~s.failed, s.deleted = 0, ~Ended(s), ~s.broken,
         NEW m \in Nat, NEW p \in Rtsps, NEW q \in Seq(Nat), q = Append(s.sends, m),
         NEW r \in Seq(Nat), NEW n \in Nat, p = [s EXCEPT !.requests = r, !.posted = n],
         Numbered(s.got, q, w, r, s.inbox, s.asked, s.broken)
  PROVE  Called(s, Rtsp!post(p, m), w)
  <1>1. /\ p.recv = s.recv /\ p.inbox = s.inbox /\ p.got = s.got /\ p.asked = s.asked
        /\ p.broken = s.broken /\ p.failed = s.failed /\ p.sends = s.sends /\ p.gone = s.gone
        /\ p.requests = r /\ p.deleted = s.deleted /\ p.stopping = s.stopping
        /\ p.read = s.read /\ p.writing = s.writing
    BY DEF Rtsps
  <1> DEFINE a == [p EXCEPT !.sends = Append(@, m)]
  <1>2. a = [p EXCEPT !.sends = q]
    BY <1>1 DEF Rtsps
  <1>3. /\ a \in Rtsps /\ a.recv = s.recv /\ a.inbox = s.inbox /\ a.got = s.got /\ a.asked = s.asked
        /\ a.broken = s.broken /\ a.failed = s.failed /\ a.sends = q /\ a.gone = s.gone
        /\ a.requests = r /\ a.deleted = s.deleted /\ a.stopping = s.stopping
        /\ a.read = s.read /\ a.writing = s.writing
    <2>1. a \in Rtsps
      BY <1>1, <1>2 DEF Rtsps
    <2>2. /\ a.recv = s.recv /\ a.inbox = s.inbox /\ a.got = s.got /\ a.asked = s.asked
          /\ a.broken = s.broken /\ a.failed = s.failed /\ a.sends = q /\ a.gone = s.gone
          /\ a.requests = r /\ a.deleted = s.deleted /\ a.stopping = s.stopping
          /\ a.read = s.read /\ a.writing = s.writing
      BY <1>1, <1>2 DEF Rtsps
    <2> QED BY <2>1, <2>2
  <1> DEFINE t == Rtsp!post(p, m)
  <1>4. t = IF s.sends = << >> THEN [a EXCEPT !.writing = "pending", !.failed = a.broken] ELSE a
    BY <1>1 DEF Rtsp!post, Rtsp!send_next
  <1> HIDE DEF a
  <1>5. s.broken = FALSE /\ s.failed = FALSE
    BY DEF Rtsps
  <1>6. /\ t \in Rtsps /\ t.recv = s.recv /\ t.inbox = s.inbox /\ t.got = s.got /\ t.asked = s.asked
        /\ t.broken = s.broken /\ t.failed = FALSE /\ t.sends = q /\ t.gone = s.gone
        /\ t.requests = r /\ t.deleted = s.deleted /\ t.stopping = s.stopping
        /\ t.read = s.read
        /\ t.writing = (IF s.sends = << >> THEN "pending" ELSE s.writing)
    <2>1. CASE s.sends = << >>
      <3>1. t = Writes(a)
        BY <1>3, <1>4, <1>5, <2>1 DEF Writes
      <3> HIDE DEF t
      <3>2. /\ t \in Rtsps /\ t.recv = a.recv /\ t.inbox = a.inbox /\ t.got = a.got /\ t.asked = a.asked
            /\ t.broken = a.broken /\ t.failed = FALSE /\ t.sends = a.sends /\ t.gone = a.gone
            /\ t.requests = a.requests /\ t.deleted = a.deleted /\ t.stopping = a.stopping
            /\ t.read = a.read /\ t.writing = "pending"
        <4>1. a \in Rtsps
          BY <1>3
        <4> QED BY <3>1, <4>1, RtspWrites
      <3> QED BY <1>3, <2>1, <3>2
    <2>2. CASE s.sends # << >>
      <3> HIDE DEF t
      <3> QED BY <1>3, <1>4, <1>5, <2>2
    <2> QED BY <2>1, <2>2
  <1> HIDE DEF t
  <1>7. q # << >>
    OBVIOUS
  <1>8. InTurn(t, w)
    BY <1>6 DEF InTurn
  <1>9. t.deleted = IF Ended(t) THEN 1 ELSE 0
    BY <1>6, <1>7 DEF Ended
  <1>10. Called(s, t, w)
    BY <1>5, <1>6, <1>7, <1>8, <1>9 DEF Called
  <1> QED BY <1>10 DEF t

LEMMA RtspCallback ==
  ASSUME RtspInUse, NEW s \in Rtsps, NEW w \in {0, 1}, w <= Len(s.sends), InTurn(s, w), ~s.failed,
         s.deleted = 0, ~Ended(s), (s.writing = "idle" \/ s.sends # << >>),
         NEW t \in Rtsp!Callback(s)
  PROVE  Called(s, t, w)
  <1>1. /\ s.got \in Seq(Nat) /\ s.sends \in Seq(Nat) /\ s.requests \in Seq(Nat)
        /\ s.inbox \in Seq(Nat) /\ s.asked \in Nat /\ s.posted \in Nat
    BY DEF Rtsps
  <1>0. w \in Nat /\ Numbered(s.got, s.sends, w, s.requests, s.inbox, s.asked, s.broken)
    BY DEF InTurn
  <1>2. CASE t = s
    BY <1>2 DEF Called
  <1>3. CASE t = Rtsp!stop(s)
    BY <1>3, RtspStop
  <1>4. CASE s.requests # << >> /\ ~s.broken /\ t = Rtsp!PostResponse(s)
    <2> DEFINE m == Head(s.requests)
               r == Tail(s.requests)
               p == [s EXCEPT !.requests = r, !.posted = s.posted]
    <2>1. m \in Nat /\ r \in Seq(Nat) /\ Append(s.sends, m) \in Seq(Nat)
      BY <1>1, <1>4
    <2>2. Numbered(s.got, Append(s.sends, m), w, r, s.inbox, s.asked, s.broken)
      BY <1>0, <1>1, <1>4, NumberedResponse
    <2>3. [s EXCEPT !.requests = Tail(@)] = p
      BY <1>1 DEF Rtsps
    <2>4. t = Rtsp!post(p, m)
      BY <1>4, <2>3 DEF Rtsp!PostResponse
    <2>5. p \in Rtsps
      <3> HIDE DEF r
      <3> QED BY <1>1, <2>1 DEF Rtsps
    <2> HIDE DEF m, r
    <2> QED BY <1>1, <1>4, <2>1, <2>2, <2>4, <2>5, RtspPosts
  <1>5. CASE ~s.broken /\ t = Rtsp!PostRequest(s)
    <2> DEFINE p == [s EXCEPT !.requests = s.requests, !.posted = s.posted + 1]
    <2>1. Append(s.sends, 0) \in Seq(Nat)
      BY <1>1
    <2>2. Numbered(s.got, Append(s.sends, 0), w, s.requests, s.inbox, s.asked, s.broken)
      BY <1>0, <1>1, NumberedRequest
    <2>3. PICK n \in Nat : n = s.posted + 1
      BY <1>1
    <2>4. [s EXCEPT !.posted = @ + 1] = p
      BY <1>1 DEF Rtsps
    <2>5. t = Rtsp!post(p, 0)
      BY <1>5, <2>4 DEF Rtsp!PostRequest
    <2>6. p = [s EXCEPT !.requests = s.requests, !.posted = n]
      BY <2>3
    <2> HIDE DEF p
    <2>7. p \in Rtsps
      BY <1>1, <2>6 DEF Rtsps
    <2> DEFINE r == s.requests
    <2>8. r \in Seq(Nat) /\ Numbered(s.got, Append(s.sends, 0), w, r, s.inbox, s.asked, s.broken)
      BY <1>1, <2>2
    <2>9. p = [s EXCEPT !.requests = r, !.posted = n] /\ 0 \in Nat
      BY <2>6
    <2> HIDE DEF r
    <2> QED BY <1>5, <2>1, <2>5, <2>7, <2>8, <2>9, RtspPosts
  <1> QED BY <1>2, <1>3, <1>4, <1>5 DEF Rtsp!Callback, Rtsp!MayPost, RtspInUse

LEMMA RtspRelease ==
  ASSUME NEW c \in Rtsps, c.deleted = 0
  PROVE  \E t \in Rtsps :
            /\ t = Rtsp!release(c)
            /\ t.recv = c.recv /\ t.read = c.read /\ t.writing = c.writing /\ t.sends = c.sends
            /\ t.requests = c.requests /\ t.inbox = c.inbox /\ t.asked = c.asked /\ t.got = c.got
            /\ t.broken = c.broken /\ t.failed = c.failed /\ t.stopping = c.stopping
            /\ t.deleted = IF Ended(t) THEN 1 ELSE 0
  <1>1. CASE Ended(c)
    <2> DEFINE d == [c EXCEPT !.deleted = 1]
    <2>1. [c EXCEPT !.deleted = @ + 1] = d
      BY DEF Rtsps
    <2>2. Rtsp!release(c) = d
      BY <1>1, <2>1 DEF Rtsp!release, Ended
    <2>3. /\ d \in Rtsps /\ d.recv = c.recv /\ d.read = c.read /\ d.writing = c.writing
          /\ d.sends = c.sends /\ d.requests = c.requests /\ d.inbox = c.inbox
          /\ d.asked = c.asked /\ d.got = c.got /\ d.broken = c.broken /\ d.failed = c.failed
          /\ d.stopping = c.stopping /\ d.deleted = 1
      BY DEF Rtsps
    <2> HIDE DEF d
    <2>4. Ended(d)
      BY <1>1, <2>3 DEF Ended
    <2> QED BY <2>2, <2>3, <2>4
  <1>2. CASE ~Ended(c)
    <2>1. Rtsp!release(c) = c
      BY <1>2 DEF Rtsp!release, Ended
    <2> QED BY <1>2, <2>1
  <1> QED BY <1>1, <1>2

\* A callback leaves the queue as it must be.
LEMMA RtspKeeps ==
  ASSUME NEW s \in Rtsps, NEW t, Written(s), Called(s, t, Out(s))
  PROVE  Written(t)
  <1>1. (t.writing = "wrote" <=> s.writing = "wrote") /\ (t.writing = "idle" <=> t.sends = << >>)
    BY DEF Written, Called, Rtsps
  <1>2. InTurn(t, Out(t))
    BY <1>1 DEF Called, Out
  <1> QED BY <1>1, <1>2 DEF Written, Called

LEMMA RtspLost ==
  ASSUME RtspGood(rtsp), rtsp.deleted = 0, rtsp.read = "lost",
         NEW s \in Rtsp!on_error([rtsp EXCEPT !.read = "idle"]),
         rtsp' = Rtsp!release([s EXCEPT !.recv = "none"])
  PROVE  RtspGood(rtsp')
  <1> DEFINE r == [rtsp EXCEPT !.read = "idle"]
  <1>1. rtsp \in Rtsps /\ Written(rtsp) /\ rtsp.recv = "data"
    BY DEF RtspGood, Rtsps
  <1>2. /\ r \in Rtsps /\ r.recv = "data" /\ r.read = "idle" /\ r.writing = rtsp.writing
        /\ r.sends = rtsp.sends /\ r.requests = rtsp.requests /\ r.inbox = rtsp.inbox
        /\ r.asked = rtsp.asked /\ r.got = rtsp.got /\ r.broken = rtsp.broken
        /\ r.failed = rtsp.failed /\ r.stopping = rtsp.stopping /\ r.deleted = 0
    BY <1>1 DEF Rtsps
  <1>3. s = r \/ s = Rtsp!stop(r)
    BY DEF Rtsp!on_error
  <1> HIDE DEF r
  <1>4. Written(r)
    BY <1>1, <1>2 DEF Written, Out, InTurn
  <1>5. /\ s \in Rtsps /\ s.recv = "data" /\ s.read = "idle" /\ s.deleted = 0 /\ Written(s)
    <2>1. CASE s = r
      BY <1>2, <1>4, <2>1
    <2>2. CASE s = Rtsp!stop(r)
      <3>1. Called(r, s, Out(r))
        <4>1. Out(r) \in Nat
          BY DEF Out
        <4> QED BY <1>2, <1>4, <2>2, <4>1, RtspStop DEF Written
      <3> QED BY <1>2, <1>4, <3>1, RtspKeeps DEF Called, Ended
    <2> QED BY <1>3, <2>1, <2>2
  <1> DEFINE c == [s EXCEPT !.recv = "none"]
  <1>6. /\ c \in Rtsps /\ c.recv = "none" /\ c.read = "idle" /\ c.writing = s.writing
        /\ c.sends = s.sends /\ c.requests = s.requests /\ c.inbox = s.inbox
        /\ c.asked = s.asked /\ c.got = s.got /\ c.broken = s.broken
        /\ c.failed = s.failed /\ c.deleted = 0
    BY <1>5 DEF Rtsps
  <1> HIDE DEF c
  <1>7. Written(c)
    BY <1>5, <1>6 DEF Written, Out, InTurn
  <1>8. PICK t \in Rtsps :
            /\ t = Rtsp!release(c)
            /\ t.recv = c.recv /\ t.read = c.read /\ t.writing = c.writing /\ t.sends = c.sends
            /\ t.requests = c.requests /\ t.inbox = c.inbox /\ t.asked = c.asked /\ t.got = c.got
            /\ t.broken = c.broken /\ t.failed = c.failed /\ t.stopping = c.stopping
            /\ t.deleted = IF Ended(t) THEN 1 ELSE 0
    BY <1>6, RtspRelease
  <1>9. Written(t)
    BY <1>7, <1>8 DEF Written, Out, InTurn
  <1>10. RtspGood(t)
    BY <1>6, <1>8, <1>9 DEF RtspGood
  <1> QED BY <1>8, <1>10 DEF c

LEMMA RtspRead ==
  ASSUME RtspInUse, RtspGood(rtsp), rtsp.deleted = 0, rtsp.read = "read",
         NEW r, r = [rtsp EXCEPT !.inbox = Tail(@), !.read = "idle", !.recv = "message",
                                 !.requests = IF Head(rtsp.inbox) = 0 THEN @ ELSE Append(@, Head(rtsp.inbox))],
         NEW s \in Rtsp!Callback(r),
         rtsp' = IF s.stopping THEN Rtsp!release([s EXCEPT !.recv = "none"]) ELSE Rtsp!recv_next(s)
  PROVE  RtspGood(rtsp')
  <1>1. /\ rtsp \in Rtsps /\ Written(rtsp) /\ rtsp.recv = "data" /\ rtsp.inbox # << >>
        /\ rtsp.got \in Seq(Nat) /\ rtsp.sends \in Seq(Nat) /\ rtsp.requests \in Seq(Nat)
        /\ rtsp.inbox \in Seq(Nat) /\ rtsp.asked \in Nat
    BY DEF RtspGood, Rtsps
  <1>2. PICK i \in Seq(Nat), q \in Seq(Nat) :
           /\ i = Tail(rtsp.inbox)
           /\ q = IF Head(rtsp.inbox) = 0 THEN rtsp.requests ELSE Append(rtsp.requests, Head(rtsp.inbox))
    <2>1. Tail(rtsp.inbox) \in Seq(Nat) /\ Head(rtsp.inbox) \in Nat
      BY <1>1
    <2>2. Append(rtsp.requests, Head(rtsp.inbox)) \in Seq(Nat)
      BY <1>1, <2>1
    <2> QED BY <1>1, <2>1, <2>2
  <1>3. r = [rtsp EXCEPT !.inbox = i, !.read = "idle", !.recv = "message", !.requests = q]
    BY <1>1, <1>2 DEF Rtsps
  <1>4. /\ r \in Rtsps /\ r.recv = "message" /\ r.read = "idle" /\ r.writing = rtsp.writing
        /\ r.sends = rtsp.sends /\ r.requests = q /\ r.inbox = i
        /\ r.asked = rtsp.asked /\ r.got = rtsp.got /\ r.broken = rtsp.broken
        /\ r.failed = rtsp.failed /\ r.stopping = rtsp.stopping /\ r.deleted = 0
    <2>1. r \in Rtsps
      BY <1>1, <1>3 DEF Rtsps
    <2>2. /\ r.recv = "message" /\ r.read = "idle" /\ r.writing = rtsp.writing
          /\ r.sends = rtsp.sends /\ r.requests = q /\ r.inbox = i
          /\ r.asked = rtsp.asked /\ r.got = rtsp.got /\ r.broken = rtsp.broken
          /\ r.failed = rtsp.failed /\ r.stopping = rtsp.stopping /\ r.deleted = 0
      BY <1>1, <1>3 DEF Rtsps
    <2> QED BY <2>1, <2>2
  <1>5. Out(rtsp) \in {0, 1} /\ Out(r) = Out(rtsp)
    BY <1>4 DEF Out
  <1>6. Numbered(rtsp.got, rtsp.sends, Out(rtsp), rtsp.requests, rtsp.inbox, rtsp.asked, rtsp.broken)
    BY <1>1 DEF Written, InTurn
  <1>7. Numbered(rtsp.got, rtsp.sends, Out(rtsp), q, i, rtsp.asked, rtsp.broken)
    <2>1. Out(rtsp) \in Nat
      BY <1>5
    <2>2. Numbered(rtsp.got, rtsp.sends, Out(rtsp),
                   IF Head(rtsp.inbox) = 0 THEN rtsp.requests ELSE Append(rtsp.requests, Head(rtsp.inbox)),
                   Tail(rtsp.inbox), rtsp.asked, rtsp.broken)
      BY <1>1, <1>6, <2>1, NumberedRead
    <2> QED BY <1>2, <2>2
  <1>8. Written(r)
    BY <1>1, <1>4, <1>5, <1>7 DEF Written, InTurn
  <1>9. Out(r) <= Len(r.sends)
    <2>1. r.sends \in Seq(Nat) /\ (r.writing = "wrote" => r.sends # << >>)
      BY <1>1, <1>4, <1>8 DEF Written
    <2>2. r.sends # << >> => Len(r.sends) >= 1
      BY <2>1
    <2>3. Len(r.sends) \in Nat
      BY <2>1
    <2> QED BY <2>1, <2>2, <2>3 DEF Out
  <1>10. Called(r, s, Out(r))
    <2>1. ~Ended(r)
      BY <1>4 DEF Ended
    <2>2. InTurn(r, Out(r)) /\ ~r.failed /\ (r.writing = "idle" \/ r.sends # << >>)
      BY <1>8 DEF Written
    <2> QED BY <1>4, <1>5, <1>9, <2>1, <2>2, RtspCallback
  <1>11. /\ s \in Rtsps /\ s.recv = "message" /\ s.read = "idle" /\ s.deleted = 0 /\ Written(s)
    BY <1>4, <1>8, <1>10, RtspKeeps DEF Called, Ended
  <1>12. CASE s.stopping
    <2> DEFINE c == [s EXCEPT !.recv = "none"]
    <2>1. /\ c \in Rtsps /\ c.recv = "none" /\ c.read = "idle" /\ c.writing = s.writing
          /\ c.sends = s.sends /\ c.requests = s.requests /\ c.inbox = s.inbox
          /\ c.asked = s.asked /\ c.got = s.got /\ c.broken = s.broken
          /\ c.failed = s.failed /\ c.deleted = 0
      BY <1>11 DEF Rtsps
    <2>2. rtsp' = Rtsp!release(c)
      BY <1>12
    <2> HIDE DEF c
    <2>3. Written(c)
      BY <1>11, <2>1 DEF Written, Out, InTurn
    <2>4. PICK t \in Rtsps :
              /\ t = Rtsp!release(c)
              /\ t.recv = c.recv /\ t.read = c.read /\ t.writing = c.writing /\ t.sends = c.sends
              /\ t.requests = c.requests /\ t.inbox = c.inbox /\ t.asked = c.asked /\ t.got = c.got
              /\ t.broken = c.broken /\ t.failed = c.failed /\ t.stopping = c.stopping
              /\ t.deleted = IF Ended(t) THEN 1 ELSE 0
      BY <2>1, RtspRelease
    <2>5. Written(t)
      BY <2>3, <2>4 DEF Written, Out, InTurn
    <2>6. RtspGood(t)
      BY <2>1, <2>4, <2>5 DEF RtspGood
    <2> QED BY <2>2, <2>4, <2>6
  <1>13. CASE ~s.stopping
    <2> DEFINE c == [s EXCEPT !.recv = "data", !.read = "pending"]
    <2>1. rtsp' = c
      BY <1>13 DEF Rtsp!recv_next
    <2>2. /\ c \in Rtsps /\ c.recv = "data" /\ c.read = "pending" /\ c.writing = s.writing
          /\ c.sends = s.sends /\ c.requests = s.requests /\ c.inbox = s.inbox
          /\ c.asked = s.asked /\ c.got = s.got /\ c.broken = s.broken
          /\ c.failed = s.failed /\ c.deleted = 0
      BY <1>11 DEF Rtsps
    <2> HIDE DEF c
    <2>3. Written(c)
      BY <1>11, <2>2 DEF Written, Out, InTurn
    <2> QED BY <2>1, <2>2, <2>3 DEF RtspGood, Ended
  <1> QED BY <1>12, <1>13

LEMMA Queued ==
  ASSUME NEW q \in Seq(Nat), NEW n \in Nat
  PROVE  Append(q, n) \in Seq(Nat) /\ Append(q, n) # << >>
  <1>1. Append(q, n) \in Seq(Nat)
    OBVIOUS
  <1>2. Append(q, n)[1] = (IF q = << >> THEN n ELSE q[1]) /\ 1 \in DOMAIN Append(q, n)
    OBVIOUS
  <1> QED BY <1>1, <1>2

LEMMA Dequeued ==
  ASSUME NEW q \in Seq(Nat), q # << >>
  PROVE  Tail(q) \in Seq(Nat)
  OBVIOUS

LEMMA RtspUnsent ==
  ASSUME RtspGood(rtsp), rtsp.deleted = 0, rtsp.writing = "failed",
         NEW s \in Rtsp!on_error([rtsp EXCEPT !.writing = "idle", !.broken = TRUE]),
         rtsp' = Rtsp!release([s EXCEPT !.sends = << >>])
  PROVE  RtspGood(rtsp')
  <1> DEFINE r == [rtsp EXCEPT !.writing = "idle", !.broken = TRUE]
  <1>1. /\ rtsp \in Rtsps /\ Written(rtsp) /\ rtsp.sends # << >>
        /\ rtsp.recv # "message" /\ (rtsp.recv = "none" <=> rtsp.read = "idle")
        /\ (rtsp.read = "read" => rtsp.inbox # << >>)
    BY DEF RtspGood, Written
  <1>2. /\ r \in Rtsps /\ r.recv = rtsp.recv /\ r.read = rtsp.read /\ r.writing = "idle"
        /\ r.sends = rtsp.sends /\ r.requests = rtsp.requests /\ r.inbox = rtsp.inbox
        /\ r.asked = rtsp.asked /\ r.got = rtsp.got /\ r.broken = TRUE
        /\ r.failed = rtsp.failed /\ r.stopping = rtsp.stopping /\ r.deleted = 0
    BY <1>1 DEF Rtsps
  <1>3. s = r \/ s = Rtsp!stop(r)
    BY DEF Rtsp!on_error
  <1> HIDE DEF r
  <1>4. InTurn(r, 0)
    BY <1>1, <1>2 DEF Written, InTurn, Numbered
  <1>5. /\ s \in Rtsps /\ s.recv = rtsp.recv /\ s.deleted = 0 /\ s.inbox = rtsp.inbox
        /\ s.read = rtsp.read \/ (rtsp.read = "pending" /\ s.read = "lost")
        /\ s.writing = "idle" /\ s.failed = FALSE /\ InTurn(s, 0) /\ s.broken = TRUE
    <2>1. CASE s = r
      BY <1>1, <1>2, <1>4, <2>1 DEF Written, Rtsps
    <2>2. CASE s = Rtsp!stop(r)
      <3>1. ~r.failed
        BY <1>1, <1>2 DEF Written
      <3>2. Called(r, s, 0)
        BY <1>2, <1>4, <2>2, <3>1, RtspStop
      <3> QED BY <1>1, <1>2, <3>2 DEF Called, Ended
    <2> QED BY <1>3, <2>1, <2>2
  <1> DEFINE c == [s EXCEPT !.sends = << >>]
  <1>6. /\ c \in Rtsps /\ c.recv = s.recv /\ c.read = s.read /\ c.writing = "idle"
        /\ c.sends = << >> /\ c.requests = s.requests /\ c.inbox = s.inbox
        /\ c.asked = s.asked /\ c.got = s.got /\ c.broken = TRUE
        /\ c.failed = FALSE /\ c.deleted = 0
    <2>1. << >> \in Seq(Nat)
      OBVIOUS
    <2> QED BY <1>5, <2>1 DEF Rtsps
  <1> HIDE DEF c
  <1>7. Written(c)
    BY <1>5, <1>6 DEF Written, Out, InTurn, Numbered
  <1>8. PICK t \in Rtsps :
            /\ t = Rtsp!release(c)
            /\ t.recv = c.recv /\ t.read = c.read /\ t.writing = c.writing /\ t.sends = c.sends
            /\ t.requests = c.requests /\ t.inbox = c.inbox /\ t.asked = c.asked /\ t.got = c.got
            /\ t.broken = c.broken /\ t.failed = c.failed /\ t.stopping = c.stopping
            /\ t.deleted = IF Ended(t) THEN 1 ELSE 0
    BY <1>6, RtspRelease
  <1>9. Written(t)
    BY <1>7, <1>8 DEF Written, Out, InTurn
  <1>10. RtspGood(t)
    BY <1>1, <1>5, <1>6, <1>8, <1>9 DEF RtspGood
  <1> QED BY <1>8, <1>10 DEF c

LEMMA RtspOnward ==
  ASSUME NEW c \in Rtsps, InTurn(c, 0), c.sends # << >>, c.broken = FALSE, c.deleted = 0,
         c.recv # "message", c.recv = "none" <=> c.read = "idle", c.read = "read" => c.inbox # << >>,
         rtsp' = Rtsp!send_next(c)
  PROVE  RtspGood(rtsp')
  <1>1. PICK t : t = Writes(c) /\ rtsp' = t
    BY DEF Rtsp!send_next, Writes
  <1>2. /\ t \in Rtsps /\ t.recv = c.recv /\ t.inbox = c.inbox /\ t.got = c.got /\ t.asked = c.asked
        /\ t.broken = c.broken /\ t.failed = FALSE /\ t.sends = c.sends /\ t.gone = c.gone
        /\ t.requests = c.requests /\ t.deleted = c.deleted /\ t.stopping = c.stopping
        /\ t.read = c.read /\ t.writing = "pending"
    BY <1>1, RtspWrites
  <1>3. Written(t)
    BY <1>2 DEF Written, Out, InTurn
  <1>4. RtspGood(t)
    BY <1>2, <1>3 DEF RtspGood, Ended
  <1> QED BY <1>1, <1>4

LEMMA RtspSent ==
  ASSUME RtspInUse, RtspGood(rtsp), rtsp.deleted = 0, rtsp.writing = "wrote",
         NEW s \in Rtsp!Callback([rtsp EXCEPT !.writing = "idle"]),
         NEW c, c = [s EXCEPT !.sends = Tail(@)],
         rtsp' = IF c.sends = << >> THEN Rtsp!release(c) ELSE Rtsp!send_next(c)
  PROVE  RtspGood(rtsp')
  <1> DEFINE r == [rtsp EXCEPT !.writing = "idle"]
  <1>1. /\ rtsp \in Rtsps /\ Written(rtsp) /\ rtsp.sends # << >>
        /\ rtsp.recv # "message" /\ (rtsp.recv = "none" <=> rtsp.read = "idle")
        /\ (rtsp.read = "read" => rtsp.inbox # << >>) /\ rtsp.broken = FALSE
    BY DEF RtspGood, Written, Rtsps
  <1>2. /\ r \in Rtsps /\ r.recv = rtsp.recv /\ r.read = rtsp.read /\ r.writing = "idle"
        /\ r.sends = rtsp.sends /\ r.requests = rtsp.requests /\ r.inbox = rtsp.inbox
        /\ r.asked = rtsp.asked /\ r.got = rtsp.got /\ r.broken = FALSE
        /\ r.failed = rtsp.failed /\ r.stopping = rtsp.stopping /\ r.deleted = 0
    BY <1>1 DEF Rtsps
  <1> HIDE DEF r
  <1>3. InTurn(r, 1)
    BY <1>1, <1>2 DEF Written, InTurn, Out
  <1>4. Called(r, s, 1)
    <2>1. r.sends \in Seq(Nat) /\ r.sends # << >>
      BY <1>1, <1>2 DEF Rtsps
    <2>2. 1 <= Len(r.sends)
      BY <2>1
    <2>3. ~r.failed /\ ~Ended(r)
      BY <1>1, <1>2 DEF Written, Ended
    <2>4. s \in Rtsp!Callback(r)
      BY DEF r
    <2> QED BY <1>2, <1>3, <2>1, <2>2, <2>3, <2>4, RtspCallback
  <1>5. /\ s \in Rtsps /\ s.recv = rtsp.recv /\ s.deleted = 0 /\ s.inbox = rtsp.inbox
        /\ s.read = rtsp.read \/ (rtsp.read = "pending" /\ s.read = "lost")
        /\ s.writing = "idle" /\ s.failed = FALSE /\ InTurn(s, 1) /\ s.broken = FALSE
        /\ s.sends # << >>
    BY <1>1, <1>2, <1>4 DEF Called, Ended
  <1>6. /\ s.got \in Seq(Nat) /\ s.sends \in Seq(Nat) /\ s.requests \in Seq(Nat)
        /\ s.inbox \in Seq(Nat) /\ s.asked \in Nat
    BY <1>5 DEF Rtsps
  <1>7. PICK q \in Seq(Nat) : q = Tail(s.sends)
    BY <1>5, <1>6, Dequeued
  <1>8. Numbered(s.got, q, 0, s.requests, s.inbox, s.asked, FALSE)
    <2>1. Numbered(s.got, s.sends, 1, s.requests, s.inbox, s.asked, FALSE)
      BY <1>5 DEF InTurn
    <2> QED BY <1>5, <1>6, <1>7, <2>1, NumberedSent
  <1>9. c = [s EXCEPT !.sends = q]
    BY <1>5, <1>7 DEF Rtsps
  <1>10. /\ c \in Rtsps /\ c.recv = s.recv /\ c.read = s.read /\ c.writing = "idle"
         /\ c.sends = q /\ c.requests = s.requests /\ c.inbox = s.inbox
         /\ c.asked = s.asked /\ c.got = s.got /\ c.broken = FALSE
         /\ c.failed = FALSE /\ c.deleted = 0
    BY <1>5, <1>9 DEF Rtsps
  <1>11. InTurn(c, 0)
    BY <1>8, <1>10 DEF InTurn
  <1>12. CASE q = << >>
    <2>1. Written(c)
      BY <1>10, <1>11, <1>12 DEF Written, Out
    <2>2. PICK t \in Rtsps :
              /\ t = Rtsp!release(c)
              /\ t.recv = c.recv /\ t.read = c.read /\ t.writing = c.writing /\ t.sends = c.sends
              /\ t.requests = c.requests /\ t.inbox = c.inbox /\ t.asked = c.asked /\ t.got = c.got
              /\ t.broken = c.broken /\ t.failed = c.failed /\ t.stopping = c.stopping
              /\ t.deleted = IF Ended(t) THEN 1 ELSE 0
      BY <1>10, RtspRelease
    <2>3. Written(t)
      BY <2>1, <2>2 DEF Written, Out, InTurn
    <2>4. RtspGood(t)
      BY <1>1, <1>5, <1>10, <2>2, <2>3 DEF RtspGood
    <2> QED BY <1>10, <1>12, <2>2, <2>4
  <1>13. CASE q # << >>
    <2>1. /\ rtsp' = Rtsp!send_next(c)
          /\ c.recv # "message" /\ (c.recv = "none" <=> c.read = "idle")
          /\ c.read = "read" => c.inbox # << >>
      BY <1>1, <1>5, <1>10, <1>13
    <2> QED BY <1>10, <1>11, <1>13, <2>1, RtspOnward
  <1> QED BY <1>12, <1>13

LEMMA RtspHandlers ==
  ASSUME RtspInUse, RtspGood(rtsp), Rtsp!handle_receive_message \/ Rtsp!handle_send_message \/ Rtsp!Derived
  PROVE  RtspGood(rtsp')
  <1>1. rtsp.deleted = 0 /\ rtsp \in Rtsps /\ Written(rtsp) /\ ~Ended(rtsp)
    BY DEF Rtsp!handle_receive_message, Rtsp!handle_send_message, Rtsp!Derived, Rtsp!Alive, RtspGood
  <1>2. CASE Rtsp!handle_receive_message
    <2>1. CASE rtsp.read = "lost"
      <3>1. PICK s \in Rtsp!on_error([rtsp EXCEPT !.read = "idle"]) : rtsp' = Rtsp!release([s EXCEPT !.recv = "none"])
        BY <1>2, <2>1 DEF Rtsp!handle_receive_message
      <3> QED BY <1>1, <2>1, <3>1, RtspLost
    <2>2. CASE rtsp.read = "read"
      <3> DEFINE m == Head(rtsp.inbox)
                 r == [rtsp EXCEPT !.inbox = Tail(@), !.read = "idle", !.recv = "message",
                                   !.requests = IF Head(rtsp.inbox) = 0 THEN @ ELSE Append(@, Head(rtsp.inbox))]
      <3>1. PICK s \in Rtsp!Callback(r) :
               rtsp' = IF s.stopping THEN Rtsp!release([s EXCEPT !.recv = "none"]) ELSE Rtsp!recv_next(s)
        BY <1>2, <2>2 DEF Rtsp!handle_receive_message, Rtsp!IsRequest
      <3> HIDE DEF r
      <3>2. r = [rtsp EXCEPT !.inbox = Tail(@), !.read = "idle", !.recv = "message",
                             !.requests = IF Head(rtsp.inbox) = 0 THEN @ ELSE Append(@, Head(rtsp.inbox))]
        BY DEF r
      <3> QED BY <1>1, <2>2, <3>1, <3>2, RtspRead
    <2> QED BY <1>2, <2>1, <2>2 DEF Rtsp!handle_receive_message
  <1>3. CASE Rtsp!handle_send_message
    <2>1. CASE rtsp.writing = "failed"
      <3>1. PICK s \in Rtsp!on_error([rtsp EXCEPT !.writing = "idle", !.broken = TRUE]) :
               rtsp' = Rtsp!release([s EXCEPT !.sends = << >>])
        BY <1>3, <2>1 DEF Rtsp!handle_send_message
      <3> QED BY <1>1, <2>1, <3>1, RtspUnsent
    <2>2. CASE rtsp.writing = "wrote"
      <3>1. PICK s \in Rtsp!Callback([rtsp EXCEPT !.writing = "idle"]) :
               rtsp' = LET t == [s EXCEPT !.sends = Tail(@)]
                       IN  IF t.sends = << >> THEN Rtsp!release(t) ELSE Rtsp!send_next(t)
        BY <1>3, <2>2 DEF Rtsp!handle_send_message
      <3> DEFINE c == [s EXCEPT !.sends = Tail(@)]
      <3>2. rtsp' = IF c.sends = << >> THEN Rtsp!release(c) ELSE Rtsp!send_next(c)
        BY <3>1
      <3>3. c = [s EXCEPT !.sends = Tail(@)]
        OBVIOUS
      <3> HIDE DEF c
      <3> QED BY <1>1, <2>2, <3>2, <3>3, RtspSent
    <2> QED BY <1>3, <2>1, <2>2 DEF Rtsp!handle_send_message
  <1>4. CASE Rtsp!Derived
    <2>1. PICK s \in Rtsp!Callback(rtsp) : rtsp' = s
      BY <1>4 DEF Rtsp!Derived
    <2>2. /\ Out(rtsp) \in {0, 1} /\ InTurn(rtsp, Out(rtsp)) /\ ~rtsp.failed
          /\ (rtsp.writing = "idle" \/ rtsp.sends # << >>)
      BY <1>1 DEF Written, Out
    <2>3. Out(rtsp) <= Len(rtsp.sends)
      <3>1. rtsp.sends \in Seq(Nat) /\ (rtsp.writing = "wrote" => rtsp.sends # << >>)
        BY <1>1 DEF Written, Rtsps
      <3>2. (rtsp.sends # << >> => Len(rtsp.sends) >= 1) /\ Len(rtsp.sends) \in Nat
        BY <3>1
      <3> QED BY <3>1, <3>2 DEF Out
    <2>4. Called(rtsp, s, Out(rtsp))
      BY <1>1, <2>2, <2>3, RtspCallback
    <2>5. Written(s)
      BY <1>1, <2>4, RtspKeeps
    <2>6. RtspGood(s)
      BY <2>4, <2>5 DEF RtspGood, Called
    <2> QED BY <2>1, <2>6
  <1> QED BY <1>2, <1>3, <1>4

LEMMA RtspOthers ==
  ASSUME RtspInUse, RtspGood(rtsp), Rtsp!Reads \/ Rtsp!Writes \/ Rtsp!Peer
  PROVE  RtspGood(rtsp')
  <1>1. /\ rtsp.deleted = 0 /\ rtsp \in Rtsps /\ Written(rtsp) /\ ~Ended(rtsp)
        /\ rtsp.recv # "message" /\ (rtsp.recv = "none" <=> rtsp.read = "idle")
        /\ (rtsp.read = "read" => rtsp.inbox # << >>)
    BY DEF Rtsp!Reads, Rtsp!Writes, Rtsp!Peer, Rtsp!Alive, RtspGood
  <1>2. /\ rtsp.got \in Seq(Nat) /\ rtsp.sends \in Seq(Nat) /\ rtsp.requests \in Seq(Nat)
        /\ rtsp.inbox \in Seq(Nat) /\ rtsp.asked \in Nat
        /\ Out(rtsp) \in Nat
        /\ Numbered(rtsp.got, rtsp.sends, Out(rtsp), rtsp.requests, rtsp.inbox, rtsp.asked, rtsp.broken)
    BY <1>1 DEF Rtsps, Out, Written, InTurn
  <1>3. CASE Rtsp!Reads
    <2>1. PICK v \in {"read", "lost"} : rtsp' = [rtsp EXCEPT !.read = v] /\ (v = "read" => rtsp.inbox # << >>)
      BY <1>3 DEF Rtsp!Reads
    <2>2. rtsp.read = "pending"
      BY <1>3 DEF Rtsp!Reads
    <2> DEFINE t == rtsp'
    <2>3. /\ t \in Rtsps /\ t.recv = rtsp.recv /\ t.read = v /\ t.writing = rtsp.writing
          /\ t.sends = rtsp.sends /\ t.requests = rtsp.requests /\ t.inbox = rtsp.inbox
          /\ t.asked = rtsp.asked /\ t.got = rtsp.got /\ t.broken = rtsp.broken
          /\ t.failed = rtsp.failed /\ t.stopping = rtsp.stopping /\ t.deleted = 0
      BY <1>1, <2>1 DEF Rtsps
    <2> HIDE DEF t
    <2>4. Written(t)
      BY <1>1, <2>3 DEF Written, Out, InTurn
    <2>5. RtspGood(t)
      BY <1>1, <2>1, <2>2, <2>3, <2>4 DEF RtspGood, Ended
    <2> QED BY <2>5 DEF t
  <1>4. CASE Rtsp!Writes
    <2>1. rtsp.writing = "pending" /\ rtsp.sends # << >> /\ rtsp.broken = FALSE
      BY <1>1, <1>4 DEF Rtsp!Writes, Written, Rtsps
    <2>2. CASE rtsp' = [rtsp EXCEPT !.writing = "failed"]
      <3> DEFINE t == [rtsp EXCEPT !.writing = "failed"]
      <3>1. /\ t \in Rtsps /\ t.recv = rtsp.recv /\ t.read = rtsp.read /\ t.writing = "failed"
            /\ t.sends = rtsp.sends /\ t.requests = rtsp.requests /\ t.inbox = rtsp.inbox
            /\ t.asked = rtsp.asked /\ t.got = rtsp.got /\ t.broken = rtsp.broken
            /\ t.failed = rtsp.failed /\ t.stopping = rtsp.stopping /\ t.deleted = 0
        BY <1>1 DEF Rtsps
      <3> HIDE DEF t
      <3>2. Written(t)
        BY <1>1, <2>1, <3>1 DEF Written, Out, InTurn
      <3>3. RtspGood(t)
        BY <1>1, <3>1, <3>2 DEF RtspGood, Ended
      <3> QED BY <2>2, <3>3 DEF t
    <2>3. CASE rtsp' # [rtsp EXCEPT !.writing = "failed"]
      <3>1. rtsp' = [rtsp EXCEPT !.writing = "wrote",
                                 !.got = IF Head(rtsp.sends) = 0 THEN @ ELSE Append(@, Head(rtsp.sends))]
        BY <1>4, <2>3 DEF Rtsp!Writes, Rtsp!IsRequest
      <3>2. PICK g \in Seq(Nat) : g = IF Head(rtsp.sends) = 0 THEN rtsp.got ELSE Append(rtsp.got, Head(rtsp.sends))
        <4>1. Head(rtsp.sends) \in Nat
          BY <1>2, <2>1
        <4>2. Append(rtsp.got, Head(rtsp.sends)) \in Seq(Nat)
          BY <1>2, <4>1
        <4> QED BY <1>2, <4>2
      <3>3. rtsp' = [rtsp EXCEPT !.writing = "wrote", !.got = g]
        BY <1>1, <3>1, <3>2 DEF Rtsps
      <3> DEFINE t == [rtsp EXCEPT !.writing = "wrote", !.got = g]
      <3>4. /\ t \in Rtsps /\ t.recv = rtsp.recv /\ t.read = rtsp.read /\ t.writing = "wrote"
            /\ t.sends = rtsp.sends /\ t.requests = rtsp.requests /\ t.inbox = rtsp.inbox
            /\ t.asked = rtsp.asked /\ t.got = g /\ t.broken = FALSE
            /\ t.failed = rtsp.failed /\ t.stopping = rtsp.stopping /\ t.deleted = 0
        BY <1>1, <2>1 DEF Rtsps
      <3> HIDE DEF t
      <3>5. Numbered(g, rtsp.sends, 1, rtsp.requests, rtsp.inbox, rtsp.asked, FALSE)
        <4>1. Numbered(rtsp.got, rtsp.sends, 0, rtsp.requests, rtsp.inbox, rtsp.asked, FALSE)
          BY <1>2, <2>1 DEF Out
        <4>2. Numbered(IF Head(rtsp.sends) = 0 THEN rtsp.got ELSE Append(rtsp.got, Head(rtsp.sends)),
                       rtsp.sends, 1, rtsp.requests, rtsp.inbox, rtsp.asked, FALSE)
          BY <1>2, <2>1, <4>1, NumberedWrite
        <4> QED BY <3>2, <4>2
      <3>6. Written(t)
        BY <1>1, <2>1, <3>4, <3>5 DEF Written, Out, InTurn
      <3>7. RtspGood(t)
        BY <1>1, <3>4, <3>6 DEF RtspGood, Ended
      <3> QED BY <3>3, <3>7 DEF t
    <2> QED BY <2>2, <2>3
  <1>5. CASE Rtsp!Peer
    <2>1. PICK i \in Seq(Nat), n \in Nat, g \in BOOLEAN, h \in BOOLEAN :
             /\ rtsp' = [rtsp EXCEPT !.inbox = i, !.asked = n, !.gone = g, !.stalled = h]
             /\ rtsp.inbox # << >> => i # << >>
             /\ Numbered(rtsp.got, rtsp.sends, Out(rtsp), rtsp.requests, i, n, rtsp.broken)
      <3>1. rtsp.gone \in BOOLEAN /\ rtsp.stalled \in BOOLEAN
        BY <1>1 DEF Rtsps
      <3>2. CASE rtsp' = [rtsp EXCEPT !.asked = @ + 1, !.inbox = Append(@, rtsp.asked + 1)]
        <4>1. PICK n \in Nat : n = rtsp.asked + 1
          BY <1>2
        <4>2. PICK i \in Seq(Nat) : i = Append(rtsp.inbox, n) /\ i # << >>
          BY <1>2, Queued
        <4>3. Numbered(rtsp.got, rtsp.sends, Out(rtsp), rtsp.requests, Append(rtsp.inbox, rtsp.asked + 1),
                       rtsp.asked + 1, rtsp.broken)
          BY <1>2, NumberedAsked
        <4>4. Numbered(rtsp.got, rtsp.sends, Out(rtsp), rtsp.requests, i, n, rtsp.broken)
          BY <4>1, <4>2, <4>3
        <4>5. rtsp' = [rtsp EXCEPT !.inbox = i, !.asked = n, !.gone = rtsp.gone, !.stalled = rtsp.stalled]
          BY <1>1, <3>2, <4>1, <4>2 DEF Rtsps
        <4> QED BY <3>1, <4>2, <4>4, <4>5
      <3>3. CASE rtsp' = [rtsp EXCEPT !.inbox = Append(@, 0)]
        <4>1. PICK i \in Seq(Nat) : i = Append(rtsp.inbox, 0) /\ i # << >>
          BY <1>2, Queued
        <4>2. Numbered(rtsp.got, rtsp.sends, Out(rtsp), rtsp.requests, Append(rtsp.inbox, 0), rtsp.asked, rtsp.broken)
          BY <1>2, NumberedAsked
        <4>3. rtsp' = [rtsp EXCEPT !.inbox = i, !.asked = rtsp.asked, !.gone = rtsp.gone, !.stalled = rtsp.stalled]
          BY <1>1, <3>3, <4>1 DEF Rtsps
        <4> QED BY <1>2, <3>1, <4>1, <4>2, <4>3
      <3>4. CASE rtsp' = [rtsp EXCEPT !.gone = TRUE]
        <4>1. rtsp' = [rtsp EXCEPT !.inbox = rtsp.inbox, !.asked = rtsp.asked, !.gone = TRUE, !.stalled = rtsp.stalled]
          BY <1>1, <3>4 DEF Rtsps
        <4> QED BY <1>2, <3>1, <4>1
      <3>5. CASE rtsp' = [rtsp EXCEPT !.stalled = PeerStalls]
        <4>1. PeerStalls \in BOOLEAN
          BY DEF RtspInUse
        <4>2. rtsp' = [rtsp EXCEPT !.inbox = rtsp.inbox, !.asked = rtsp.asked, !.gone = rtsp.gone, !.stalled = PeerStalls]
          BY <1>1, <3>5 DEF Rtsps
        <4> QED BY <1>2, <3>1, <4>1, <4>2
      <3> QED BY <1>5, <3>2, <3>3, <3>4, <3>5 DEF Rtsp!Peer
    <2> DEFINE t == [rtsp EXCEPT !.inbox = i, !.asked = n, !.gone = g, !.stalled = h]
    <2>2. /\ t \in Rtsps /\ t.recv = rtsp.recv /\ t.read = rtsp.read /\ t.writing = rtsp.writing
          /\ t.sends = rtsp.sends /\ t.requests = rtsp.requests /\ t.inbox = i
          /\ t.asked = n /\ t.got = rtsp.got /\ t.broken = rtsp.broken
          /\ t.failed = rtsp.failed /\ t.stopping = rtsp.stopping /\ t.deleted = 0
      BY <1>1 DEF Rtsps
    <2> HIDE DEF t
    <2>3. Written(t)
      BY <1>1, <2>1, <2>2 DEF Written, Out, InTurn
    <2>4. RtspGood(t)
      BY <1>1, <2>1, <2>2, <2>3 DEF RtspGood, Ended
    <2> QED BY <2>1, <2>4 DEF t
  <1> QED BY <1>3, <1>4, <1>5

LEMMA RtspStep ==
  ASSUME RtspInUse, RtspGood(rtsp), Rtsp!RtspNext
  PROVE  RtspGood(rtsp')
  BY RtspHandlers, RtspOthers DEF Rtsp!RtspNext

LEMMA RtspIsSafe ==
  ASSUME RtspGood(rtsp)
  PROVE  Rtsp!SessionSafe
  BY DEF RtspGood, Written, InTurn, Numbered, Ended, Rtsp!SessionSafe

-----------------------------------------------------------------------------
(* RtpSockets: every socket of the client is in one place, and each end is     *)
(* connected to the ports of the other.                                        *)

\* A port has sixteen bits, so the number of ports is even; the server connects
\* with the transport that came, which names the client's ports.
RtpInUse == Ports \in Nat /\ Ports > 0 /\ Ports % 2 = 0 /\ ServerPasses = "in" /\ NonBlock \subseteq BOOLEAN

Ends == {"client", "server"}
Two == {0, 1}
PortPairs == {<< >>} \cup (Nat \X Nat)
Named2 == {"client_port", "server_port", "interleaved"}
Transports == Seq(Named2 \X PortPairs)

Rtps ==
    [proto : {"udp", "tcp"}, used : SUBSET Nat, trying : {"client", "server", "none"} \X Nat,
     ports : [Ends -> PortPairs], to : [Ends -> PortPairs], in : Transports, out : Transports,
     queue : [Two -> Nat], polled : SUBSET Two, fired : SUBSET Two, ready : Seq(Two), tasks : Nat,
     non_block : BOOLEAN, blocked : BOOLEAN]

\* Each socket is polled, about to be, or in the list, and in the list once.
Placed(polled, fired, ready) ==
    /\ polled \cup fired \cup {ready[i] : i \in DOMAIN ready} = Two
    /\ polled \cap fired = {}
    /\ \A i \in DOMAIN ready : ready[i] \notin polled /\ ready[i] \notin fired
    /\ \A i, j \in DOMAIN ready : ready[i] = ready[j] => i = j

LEMMA Smallest ==
  ASSUME NEW T \in SUBSET Nat, T # {}
  PROVE  \E x \in T : \A y \in T : x <= y
  <1> DEFINE R == {ss \in Nat \X Nat : ss[1] < ss[2]}
  <1>1. IsWellFoundedOn(R, Nat)
    BY NatLessThanWellFounded DEF OpToRel
  <1> HIDE DEF R
  <1>2. PICK x \in T : \A y \in T : ~(<<y, x>> \in R)
    BY <1>1, WFMin
  <1>3. ASSUME NEW y \in T
        PROVE  x <= y
    <2>1. <<y, x>> \notin R
      BY <1>2
    <2> QED BY <2>1 DEF R
  <1> QED BY <1>3

\* A set of numbers that has zero, and with each below N the next, has N.
LEMMA UpTo ==
  ASSUME NEW N \in Nat, NEW S, 0 \in S, \A n \in Nat : n < N /\ n \in S => n + 1 \in S
  PROVE  N \in S
  <1> SUFFICES ASSUME N \notin S PROVE FALSE
    OBVIOUS
  <1> DEFINE T == {n \in Nat : n <= N /\ n \notin S}
  <1>1. N \in T
    OBVIOUS
  <1>2. T \in SUBSET Nat
    OBVIOUS
  <1> HIDE DEF T
  <1>3. PICK x \in T : \A y \in T : x <= y
    BY <1>1, <1>2, Smallest
  <1>4. x \in Nat /\ x <= N /\ x \notin S /\ x # 0
    BY <1>3 DEF T
  <1>5. x - 1 \in Nat /\ x - 1 < N /\ (x - 1) + 1 = x
    BY <1>4
  <1>6. x - 1 \in S
    <2>1. CASE x - 1 \notin S
      <3>1. x - 1 \in T
        BY <1>5, <2>1 DEF T
      <3> QED BY <1>3, <1>4, <3>1
    <2> QED BY <2>1
  <1> QED BY <1>4, <1>5, <1>6

\* The list is served from its first socket that has a datagram, if there is one.
WithData(s) == {i \in 1 .. Len(s.ready) : s.queue[s.ready[i]] > 0}
First(s) == IF WithData(s) # {} THEN Rtp!Min(WithData(s)) ELSE 0

LEMMA FirstReady ==
  ASSUME NEW s \in Rtps
  PROVE  /\ First(s) \in 0 .. Len(s.ready)
         /\ First(s) # 0 => s.queue[s.ready[First(s)]] > 0
  <1> DEFINE I == WithData(s)
  <1>1. Len(s.ready) \in Nat
    BY DEF Rtps
  <1>2. I \in SUBSET Nat /\ \A i \in I : i \in 0 .. Len(s.ready) /\ s.queue[s.ready[i]] > 0 /\ i # 0
    BY <1>1 DEF WithData
  <1>3. CASE I = {}
    BY <1>1, <1>3 DEF First
  <1>4. CASE I # {}
    <2>1. Rtp!Min(I) \in I
      <3> HIDE DEF I
      <3>1. \E x \in I : \A y \in I : x <= y
        BY <1>2, <1>4, Smallest
      <3> QED BY <3>1 DEF Rtp!Min
    <2> QED BY <1>2, <1>4, <2>1 DEF First
  <1> QED BY <1>3, <1>4

\* What serving a read leaves: sockets go from the list to be polled.
Serves(s, t) ==
    \E u \in [Two -> Nat], d \in SUBSET Two, q \in Seq(Two), n \in Nat, b \in BOOLEAN :
        /\ t = [s EXCEPT !.queue = u, !.polled = d, !.ready = q, !.tasks = n, !.blocked = b]
        /\ Placed(s.polled, s.fired, s.ready) => Placed(d, s.fired, q)

LEMMA ServesBy ==
  ASSUME NEW s, NEW u \in [Two -> Nat], NEW d \in SUBSET Two, NEW q \in Seq(Two), NEW n \in Nat,
         NEW b \in BOOLEAN, NEW t,
         t = [s EXCEPT !.queue = u, !.polled = d, !.ready = q, !.tasks = n, !.blocked = b],
         Placed(s.polled, s.fired, s.ready) => Placed(d, s.fired, q)
  PROVE  Serves(s, t)
  <1> DEFINE Turned(v, e, p, m, c) ==
               [s EXCEPT !.queue = v, !.polled = e, !.ready = p, !.tasks = m, !.blocked = c]
  <1> SUFFICES \E v \in [Two -> Nat], e \in SUBSET Two, p \in Seq(Two), m \in Nat, c \in BOOLEAN :
                  /\ t = Turned(v, e, p, m, c)
                  /\ Placed(s.polled, s.fired, s.ready) => Placed(e, s.fired, p)
    BY DEF Serves
  <1>1. t = Turned(u, d, q, n, b)
    OBVIOUS
  <1> HIDE DEF Turned
  <1> WITNESS u \in [Two -> Nat], d \in SUBSET Two, q \in Seq(Two), n \in Nat, b \in BOOLEAN
  <1> QED BY <1>1

\* What is left of a list from its n-th socket on.
LEMMA Rest ==
  ASSUME NEW l \in Seq(Two), NEW n \in 1 .. Len(l)
  PROVE  \E q \in Seq(Two) :
            /\ q = SubSeq(l, n, Len(l))
            /\ DOMAIN l = 1 .. Len(l) /\ DOMAIN q = 1 .. (Len(l) - n + 1)
            /\ \A i \in DOMAIN q : q[i] = l[i + n - 1]
            /\ \A i \in DOMAIN q : i + n - 1 \in DOMAIN l /\ i + n - 1 >= n /\ i \in Nat
            /\ \A i \in DOMAIN l : i >= n => i - n + 1 \in DOMAIN q /\ q[i - n + 1] = l[i]
  <1> DEFINE q == SubSeq(l, n, Len(l))
  <1>1. Len(l) \in Nat /\ DOMAIN l = 1 .. Len(l)
    OBVIOUS
  <1>2. n \in 1 .. (Len(l) + 1) /\ Len(l) \in (n - 1) .. Len(l)
    BY <1>1
  <1>3. /\ q \in Seq(Two) /\ Len(q) = Len(l) - n + 1
        /\ \A i \in 1 .. (Len(l) - n + 1) : q[i] = l[n + i - 1]
    BY <1>2, SubSeqProperties
  <1> HIDE DEF q
  <1>4. DOMAIN q = 1 .. (Len(l) - n + 1)
    BY <1>3
  <1>5. \A i \in DOMAIN q : i + n - 1 \in DOMAIN l /\ i + n - 1 >= n /\ i \in Nat /\ n + i - 1 = i + n - 1
    BY <1>1, <1>4
  <1>6. ASSUME NEW i \in DOMAIN l, i >= n
        PROVE  i - n + 1 \in DOMAIN q /\ q[i - n + 1] = l[i]
    <2>1. i - n + 1 \in DOMAIN q /\ n + (i - n + 1) - 1 = i
      BY <1>1, <1>4, <1>6
    <2> QED BY <1>3, <1>4, <2>1
  <1>7. \A i \in DOMAIN q : q[i] = l[i + n - 1]
    BY <1>3, <1>4, <1>5
  <1>8. /\ q \in Seq(Two) /\ q = SubSeq(l, n, Len(l))
        /\ DOMAIN l = 1 .. Len(l) /\ DOMAIN q = 1 .. (Len(l) - n + 1)
    BY <1>1, <1>3, <1>4 DEF q
  <1> QED BY <1>5, <1>6, <1>7, <1>8

LEMMA HandleTask ==
  ASSUME NEW s \in Rtps
  PROVE  Serves(s, Rtp!handle_task(s)) /\ Rtp!handle_task(s).tasks = s.tasks
  <1>2. /\ s.ready \in Seq(Two) /\ Len(s.ready) \in Nat /\ s.queue \in [Two -> Nat]
        /\ s.polled \in SUBSET Two /\ s.fired \in SUBSET Two /\ s.tasks \in Nat /\ s.blocked \in BOOLEAN
    BY DEF Rtps
  <1> DEFINE n == First(s)
             waits == ~s.non_block /\ s.queue[Head(s.ready)] = 0
             idle == {s.ready[i] : i \in 1 .. (IF n = 0 THEN Len(s.ready) ELSE n - 1)}
             r == [s EXCEPT !.ready = IF n = 0 THEN << >> ELSE SubSeq(@, n, Len(@)), !.polled = @ \cup idle]
  <1>3. Rtp!handle_task(s) = IF waits THEN [s EXCEPT !.blocked = TRUE]
                             ELSE IF n = 0 THEN r ELSE [r EXCEPT !.queue[s.ready[n]] = @ - 1]
    BY DEF Rtp!handle_task, Rtp!SelectInSeq, First, WithData
  <1>1. n \in 0 .. Len(s.ready) /\ (n # 0 => s.queue[s.ready[n]] > 0)
    BY FirstReady
  <1> HIDE DEF n, waits
  <1>7. CASE waits
    <2> DEFINE w == [s EXCEPT !.blocked = TRUE]
    <2>1. /\ w = [s EXCEPT !.queue = s.queue, !.polled = s.polled, !.ready = s.ready, !.tasks = s.tasks,
                           !.blocked = TRUE]
          /\ w.tasks = s.tasks
      BY DEF Rtps
    <2> HIDE DEF w
    <2>2. Serves(s, w)
      BY <1>2, <2>1 DEF Serves
    <2>3. Rtp!handle_task(s) = w
      BY <1>3, <1>7 DEF w
    <2> QED BY <2>1, <2>2, <2>3
  <1>4. PICK d \in SUBSET Two : d = s.polled \cup idle
    <2>1. \A i \in 1 .. Len(s.ready) : s.ready[i] \in Two
      BY <1>2
    <2>2. idle \in SUBSET Two
      BY <1>1, <1>2, <2>1
    <2> QED BY <1>2, <2>2
  <1>5. CASE n = 0 /\ ~waits
    <2>1. r = [s EXCEPT !.queue = s.queue, !.polled = d, !.ready = << >>, !.tasks = s.tasks,
                        !.blocked = s.blocked]
      BY <1>4, <1>5 DEF Rtps
    <2>2. Placed(s.polled, s.fired, s.ready) => Placed(d, s.fired, << >>)
      BY <1>2, <1>4, <1>5 DEF Placed
    <2>3. << >> \in Seq(Two)
      OBVIOUS
    <2>4. r.tasks = s.tasks
      BY DEF Rtps
    <2> HIDE DEF r
    <2>5. Serves(s, r)
      BY <1>2, <2>1, <2>2, <2>3 DEF Serves
    <2> QED BY <1>3, <1>5, <2>4, <2>5
  <1>6. CASE n # 0 /\ ~waits
    <2>1. PICK q \in Seq(Two) :
            /\ q = SubSeq(s.ready, n, Len(s.ready))
            /\ DOMAIN s.ready = 1 .. Len(s.ready) /\ DOMAIN q = 1 .. (Len(s.ready) - n + 1)
            /\ \A i \in DOMAIN q : q[i] = s.ready[i + n - 1]
            /\ \A i \in DOMAIN q : i + n - 1 \in DOMAIN s.ready /\ i + n - 1 >= n /\ i \in Nat
            /\ \A i \in DOMAIN s.ready : i >= n => i - n + 1 \in DOMAIN q /\ q[i - n + 1] = s.ready[i]
      <3>1. n \in 1 .. Len(s.ready)
        BY <1>1, <1>2, <1>6
      <3> QED BY <1>2, <3>1, Rest
    <2>2. s.ready[n] \in Two /\ s.queue[s.ready[n]] \in Nat /\ s.queue[s.ready[n]] - 1 \in Nat
      BY <1>1, <1>2, <1>6
    <2>3. PICK u \in [Two -> Nat] : u = [s.queue EXCEPT ![s.ready[n]] = @ - 1]
      BY <1>2, <2>2
    <2>4. r = [s EXCEPT !.polled = d, !.ready = q]
      BY <1>4, <1>6, <2>1 DEF Rtps
    <2> HIDE DEF r
    <2>5. r.queue = s.queue
      BY <2>4 DEF Rtps
    <2>6. [r EXCEPT !.queue[s.ready[n]] = @ - 1] = [r EXCEPT !.queue = u]
      BY <2>3, <2>5
    <2>7. [r EXCEPT !.queue = u] = [s EXCEPT !.queue = u, !.polled = d, !.ready = q, !.tasks = s.tasks,
                                               !.blocked = s.blocked]
      BY <2>4 DEF Rtps
    <2>8. Placed(s.polled, s.fired, s.ready) => Placed(d, s.fired, q)
      <3> SUFFICES ASSUME Placed(s.polled, s.fired, s.ready) PROVE Placed(d, s.fired, q)
        OBVIOUS
      <3>1. n \in Nat /\ (IF n = 0 THEN Len(s.ready) ELSE n - 1) = n - 1 /\ DOMAIN s.ready = 1 .. Len(s.ready)
        BY <1>1, <1>2, <1>6, <2>1
      <3>2. \A i \in DOMAIN s.ready : i < n => i \in 1 .. (n - 1)
        BY <3>1
      <3>3. \A i \in DOMAIN s.ready : i < n => s.ready[i] \in idle
        BY <3>1, <3>2
      <3>4. \A i \in 1 .. (n - 1) : i \in DOMAIN s.ready /\ i < n
        BY <1>1, <1>2, <3>1
      <3>5. \A x \in idle : \E i \in DOMAIN s.ready : i < n /\ s.ready[i] = x
        BY <3>4, <3>1
      <3> HIDE DEF idle
      <3>6. \A i, j \in DOMAIN q : q[i] = q[j] => i = j
        BY <1>1, <2>1 DEF Placed
      <3>7. \A i \in DOMAIN q : q[i] \notin idle
        <4> SUFFICES ASSUME NEW i \in DOMAIN q, q[i] \in idle PROVE FALSE
          OBVIOUS
        <4>1. PICK j \in DOMAIN s.ready : j < n /\ s.ready[j] = q[i]
          BY <3>5
        <4>2. j = i + n - 1
          BY <2>1, <4>1 DEF Placed
        <4>3. i + n - 1 >= n
          BY <2>1
        <4> QED BY <3>1, <4>1, <4>2, <4>3
      <3>8. \A i \in DOMAIN q : q[i] \notin d /\ q[i] \notin s.fired
        BY <1>4, <2>1, <3>7 DEF Placed
      <3>9. d \cap s.fired = {}
        BY <1>4, <3>5 DEF Placed
      <3>10. ASSUME NEW x \in Two PROVE x \in d \cup s.fired \cup {q[i] : i \in DOMAIN q}
        <4>1. CASE x \in s.polled \/ x \in s.fired
          BY <1>4, <4>1
        <4>2. CASE \E i \in DOMAIN s.ready : s.ready[i] = x
          <5>1. PICK i \in DOMAIN s.ready : s.ready[i] = x
            BY <4>2
          <5>2. i \in Nat /\ n \in Nat
            BY <1>1, <1>2, <2>1
          <5> QED BY <1>4, <2>1, <3>3, <5>1, <5>2
        <4> QED BY <4>1, <4>2 DEF Placed
      <3>11. \A i \in DOMAIN q : q[i] \in Two
        OBVIOUS
      <3> QED BY <1>2, <3>6, <3>8, <3>9, <3>10, <3>11 DEF Placed
    <2>9. Serves(s, [r EXCEPT !.queue = u]) /\ [r EXCEPT !.queue = u].tasks = s.tasks
      <3> DEFINE w == [r EXCEPT !.queue = u]
      <3>1. w.tasks = s.tasks
        BY <2>7 DEF Rtps
      <3> HIDE DEF w
      <3>2. w = [s EXCEPT !.queue = u, !.polled = d, !.ready = q, !.tasks = s.tasks, !.blocked = s.blocked]
        BY <2>7 DEF w
      <3>3. Serves(s, w)
        BY <1>2, <2>8, <3>2, ServesBy
      <3> QED BY <3>1, <3>3 DEF w
    <2> QED BY <1>3, <1>6, <2>6, <2>9
  <1> QED BY <1>5, <1>6, <1>7

LEMMA ServesFrame ==
  ASSUME NEW s \in Rtps, NEW t, Serves(s, t)
  PROVE  /\ t \in Rtps /\ t.proto = s.proto /\ t.used = s.used /\ t.trying = s.trying
         /\ t.ports = s.ports /\ t.to = s.to /\ t.in = s.in /\ t.out = s.out /\ t.fired = s.fired
         /\ Placed(s.polled, s.fired, s.ready) => Placed(t.polled, t.fired, t.ready)
  <1>1. PICK u \in [Two -> Nat], d \in SUBSET Two, q \in Seq(Two), n \in Nat, b \in BOOLEAN :
            /\ t = [s EXCEPT !.queue = u, !.polled = d, !.ready = q, !.tasks = n, !.blocked = b]
            /\ Placed(s.polled, s.fired, s.ready) => Placed(d, s.fired, q)
    BY DEF Serves
  <1>2. /\ t \in Rtps /\ t.proto = s.proto /\ t.used = s.used /\ t.trying = s.trying
        /\ t.ports = s.ports /\ t.to = s.to /\ t.in = s.in /\ t.out = s.out /\ t.fired = s.fired
        /\ t.polled = d /\ t.ready = q
    BY <1>1 DEF Rtps
  <1> QED BY <1>1, <1>2

LEMMA ServesNone ==
  ASSUME NEW s \in Rtps
  PROVE  Serves(s, s)
  <1>1. /\ s.queue \in [Two -> Nat] /\ s.polled \in SUBSET Two /\ s.ready \in Seq(Two) /\ s.tasks \in Nat
        /\ s.blocked \in BOOLEAN
    BY DEF Rtps
  <1> DEFINE t == [s EXCEPT !.queue = s.queue, !.polled = s.polled, !.ready = s.ready, !.tasks = s.tasks,
                            !.blocked = s.blocked]
  <1>2. s = t
    BY DEF Rtps
  <1>3. Serves(s, t)
    BY <1>1, ServesBy, Zenon
  <1> HIDE DEF t
  <1> QED BY <1>2, <1>3

LEMMA ServesMore ==
  ASSUME NEW s \in Rtps, NEW t, Serves(s, t), NEW r, Serves(t, r)
  PROVE  Serves(s, r)
  <1>1. PICK u \in [Two -> Nat], d \in SUBSET Two, q \in Seq(Two), n \in Nat, b \in BOOLEAN :
            /\ t = [s EXCEPT !.queue = u, !.polled = d, !.ready = q, !.tasks = n, !.blocked = b]
            /\ Placed(s.polled, s.fired, s.ready) => Placed(d, s.fired, q)
    BY DEF Serves
  <1>2. PICK v \in [Two -> Nat], e \in SUBSET Two, p \in Seq(Two), m \in Nat, c \in BOOLEAN :
            /\ r = [t EXCEPT !.queue = v, !.polled = e, !.ready = p, !.tasks = m, !.blocked = c]
            /\ Placed(t.polled, t.fired, t.ready) => Placed(e, t.fired, p)
    BY DEF Serves
  <1>3. r = [s EXCEPT !.queue = v, !.polled = e, !.ready = p, !.tasks = m, !.blocked = c]
    BY <1>1, <1>2 DEF Rtps
  <1>4. Placed(s.polled, s.fired, s.ready) => Placed(e, s.fired, p)
    BY <1>2, ServesFrame
  <1> QED BY <1>3, <1>4 DEF Serves

\* A read or none has been taken from those that wait.
LEMMA ServesTasks ==
  ASSUME NEW s \in Rtps, NEW t, Serves(s, t), NEW n \in Nat
  PROVE  Serves(s, [t EXCEPT !.tasks = n])
  <1>1. PICK u \in [Two -> Nat], d \in SUBSET Two, q \in Seq(Two), m \in Nat, b \in BOOLEAN :
            /\ t = [s EXCEPT !.queue = u, !.polled = d, !.ready = q, !.tasks = m, !.blocked = b]
            /\ Placed(s.polled, s.fired, s.ready) => Placed(d, s.fired, q)
    BY DEF Serves
  <1> DEFINE w == [s EXCEPT !.queue = u, !.polled = d, !.ready = q, !.tasks = n, !.blocked = b]
  <1>2. [t EXCEPT !.tasks = n] = w
    BY <1>1 DEF Rtps
  <1>3. Serves(s, w)
    BY <1>1, ServesBy, Zenon
  <1> HIDE DEF w
  <1> QED BY <1>2, <1>3

LEMMA ServeOne ==
  ASSUME NEW s \in Rtps
  PROVE  Serves(s, Rtp!ServeOne(s))
  <1>1. CASE s.tasks = 0 \/ s.ready = << >> \/ s.blocked
    BY <1>1, ServesNone DEF Rtp!ServeOne
  <1>2. CASE ~(s.tasks = 0 \/ s.ready = << >> \/ s.blocked)
    <2> DEFINE t == Rtp!handle_task(s)
    <2>1. Serves(s, t) /\ t.tasks = s.tasks
      BY HandleTask
    <2>2. s.tasks - 1 \in Nat
      BY <1>2 DEF Rtps
    <2>3. Rtp!ServeOne(s) = IF Rtp!Served(s, t) THEN [t EXCEPT !.tasks = @ - 1] ELSE t
      BY <1>2 DEF Rtp!ServeOne
    <2> HIDE DEF t
    <2>4. PICK n \in Nat : n = s.tasks - 1
      BY <2>2
    <2>5. Rtp!ServeOne(s) = IF Rtp!Served(s, t) THEN [t EXCEPT !.tasks = n] ELSE t
      BY <2>1, <2>3, <2>4
    <2> QED BY <2>1, <2>5, ServesTasks
  <1> QED BY <1>1, <1>2

\* The recursive function of ServeTasks is there, for every number of reads.
LEMMA ServedUpTo ==
  ASSUME NEW s \in Rtps, NEW N \in Nat
  PROVE  \E f : /\ f = [n \in 0 .. N |-> IF n = 0 THEN s ELSE Rtp!ServeOne(f[n - 1])]
                /\ \A n \in 0 .. N : Serves(s, f[n])
  <1> DEFINE Step(f, M) == [n \in 0 .. M |-> IF n = 0 THEN s ELSE Rtp!ServeOne(f[n - 1])]
             S == {M \in Nat : \E f : f = Step(f, M) /\ \A n \in 0 .. M : Serves(s, f[n])}
  <1>1. 0 \in S
    <2> DEFINE f == [n \in 0 .. 0 |-> s]
    <2>1. f = Step(f, 0)
      OBVIOUS
    <2>2. \A n \in 0 .. 0 : Serves(s, f[n])
      BY ServesNone
    <2> QED BY <2>1, <2>2
  <1>2. ASSUME NEW M \in Nat, M \in S
        PROVE  M + 1 \in S
    <2>1. PICK f : f = Step(f, M) /\ \A n \in 0 .. M : Serves(s, f[n])
      BY <1>2
    <2> DEFINE g == [n \in 0 .. (M + 1) |-> IF n = M + 1 THEN Rtp!ServeOne(f[M]) ELSE f[n]]
    <2>2. ASSUME NEW n \in 0 .. (M + 1)
          PROVE  g[n] = IF n = 0 THEN s ELSE Rtp!ServeOne(g[n - 1])
      <3>1. CASE n = 0
        BY <2>1, <3>1
      <3>2. CASE n # 0 /\ n # M + 1
        <4>1. n \in 0 .. M /\ n - 1 \in 0 .. (M + 1) /\ n - 1 # M + 1
          BY <3>2
        <4>2. g[n] = f[n] /\ g[n - 1] = f[n - 1]
          BY <3>2, <4>1
        <4>3. f[n] = Rtp!ServeOne(f[n - 1])
          BY <2>1, <3>2, <4>1
        <4> QED BY <3>2, <4>2, <4>3
      <3>3. CASE n = M + 1
        <4>1. n - 1 = M /\ M \in 0 .. (M + 1) /\ M # M + 1 /\ n # 0
          BY <3>3
        <4> QED BY <3>3, <4>1
      <3> QED BY <3>1, <3>2, <3>3
    <2>3. g = Step(g, M + 1)
      <3>1. g = [n \in 0 .. (M + 1) |-> g[n]]
        OBVIOUS
      <3> HIDE DEF g
      <3> QED BY <2>2, <3>1
    <2>4. ASSUME NEW n \in 0 .. (M + 1)
          PROVE  Serves(s, g[n])
      <3>1. CASE n = M + 1
        <4>1. Serves(s, f[M])
          BY <2>1
        <4>2. Serves(f[M], Rtp!ServeOne(f[M]))
          BY <4>1, ServesFrame, ServeOne
        <4>3. Serves(s, Rtp!ServeOne(f[M]))
          BY <4>1, <4>2, ServesMore
        <4> QED BY <3>1, <4>3
      <3>2. CASE n # M + 1
        <4>1. n \in 0 .. M /\ g[n] = f[n]
          BY <3>2
        <4> QED BY <2>1, <4>1
      <3> QED BY <3>1, <3>2
    <2> HIDE DEF g
    <2> QED BY <2>3, <2>4
  <1>3. N \in S
    <2> HIDE DEF S
    <2> QED BY <1>1, <1>2, UpTo
  <1> QED BY <1>3

LEMMA ServeTasks ==
  ASSUME NEW s \in Rtps
  PROVE  Serves(s, Rtp!ServeTasks(s))
  <1> DEFINE Step(f) == [n \in 0 .. s.tasks |-> IF n = 0 THEN s ELSE Rtp!ServeOne(f[n - 1])]
             after == CHOOSE f : f = Step(f)
  <1>1. s.tasks \in Nat
    BY DEF Rtps
  <1>2. Rtp!ServeTasks(s) = after[s.tasks]
    BY DEF Rtp!ServeTasks
  <1>3. after = [n \in 0 .. s.tasks |-> IF n = 0 THEN s ELSE Rtp!ServeOne(after[n - 1])]
    <2>1. \E f : f = Step(f)
      BY <1>1, ServedUpTo
    <2>2. after = Step(after)
      <3> HIDE DEF Step
      <3> QED BY <2>1
    <2> HIDE DEF after
    <2> QED BY <2>2
  <1> HIDE DEF after
  <1> DEFINE S == {n \in 0 .. s.tasks : Serves(s, after[n])}
  <1>4. 0 \in S
    <2>1. after[0] = s
      BY <1>1, <1>3
    <2> QED BY <1>1, <2>1, ServesNone
  <1>5. ASSUME NEW n \in Nat, n < s.tasks, n \in S
        PROVE  n + 1 \in S
    <2>1. n + 1 \in 0 .. s.tasks /\ (n + 1) - 1 = n /\ n + 1 # 0
      BY <1>1, <1>5
    <2>2. after[n + 1] = Rtp!ServeOne(after[n])
      BY <1>3, <2>1
    <2>3. Serves(after[n], Rtp!ServeOne(after[n]))
      BY <1>5, ServesFrame, ServeOne
    <2>4. Serves(s, Rtp!ServeOne(after[n]))
      BY <1>5, <2>3, ServesMore
    <2> QED BY <2>1, <2>2, <2>4
  <1>6. s.tasks \in S
    <2> HIDE DEF S
    <2> QED BY <1>1, <1>4, <1>5, UpTo
  <1> QED BY <1>2, <1>6

\* An even number stays even as a port.
LEMMA EvenPorts ==
  ASSUME RtpInUse, NEW n \in Nat, n <= Ports + 1, n % 2 = 0
  PROVE  Rtp!Port(n) \in Nat /\ Rtp!Port(n) < Ports /\ Rtp!Port(n) % 2 = 0
  BY DEF RtpInUse, Rtp!Port

\* An end that looks for ports has none, and looks at even ones.
Searches(s) ==
    /\ s.proto = "udp" => s.trying[2] % 2 = 0 /\ s.trying[2] < Ports
    /\ s.trying[1] = "client" => s.ports["client"] = << >>
    /\ s.trying[1] # "none" => s.ports["server"] = << >>

\* The pairs are in use, even and odd, and apart.
Owns(s) ==
    /\ s.proto = "udp" => \A e \in Ends : s.ports[e] # << >> =>
            /\ s.ports[e][1] % 2 = 0
            /\ s.ports[e][1] \in s.used /\ s.ports[e][2] \in s.used
    /\ s.proto = "udp" /\ s.ports["server"] # << >> /\ s.ports["client"] # << >> =>
            \A i, j \in {1, 2} : s.ports["server"][i] # s.ports["client"][j]
    /\ s.ports["server"] # << >> => s.in # << >>

\* The transports name the pairs.
Mine(s) == <<IF s.proto = "tcp" THEN "interleaved" ELSE "client_port", s.ports["client"]>>
Answer(s) == IF s.proto = "tcp" THEN <<<<"interleaved", s.ports["server"]>>>>
             ELSE Append(s.in, <<"server_port", s.ports["server"]>>)
Tells(s) ==
    /\ s.in # << >> => s.ports["client"] # << >> /\ s.in = <<Mine(s)>>
    /\ s.out # << >> => s.ports["server"] # << >> /\ s.out = Answer(s)

Joins(s) ==
    /\ s.to["client"] # << >> => s.to["client"] = s.ports["server"]
    /\ s.to["server"] # << >> => s.to["server"] = s.ports["client"]

Places(s) ==
    IF s.proto = "udp" /\ s.to["client"] # << >> THEN Placed(s.polled, s.fired, s.ready)
    ELSE s.polled = {} /\ s.fired = {} /\ s.ready = << >>

RtpGood(s) == s \in Rtps /\ Searches(s) /\ Owns(s) /\ Tells(s) /\ Joins(s) /\ Places(s)

LEMMA RtpStart ==
  ASSUME RtpInUse, Rtp!RtpInit
  PROVE  RtpGood(rtp)
  <1>1. PICK proto \in {"udp", "tcp"}, used \in SUBSET (1 .. (Ports - 1)), non_block \in NonBlock :
          rtp = [proto |-> proto, used |-> used, trying |-> <<"client", 0>>,
                 ports |-> [e \in Ends |-> << >>], to |-> [e \in Ends |-> << >>],
                 in |-> << >>, out |-> << >>, queue |-> [s \in Two |-> 0], polled |-> {}, fired |-> {},
                 ready |-> << >>, tasks |-> 0, non_block |-> non_block, blocked |-> FALSE]
    BY DEF Rtp!RtpInit, Rtp!Client, Rtp!Server, Rtp!Unknown, Rtp!Sockets, Ends, Two
  <1>2. used \in SUBSET Nat /\ non_block \in BOOLEAN
    BY DEF RtpInUse
  <1>3. [e \in Ends |-> << >>] \in [Ends -> PortPairs] /\ [s \in Two |-> 0] \in [Two -> Nat]
    BY DEF PortPairs
  <1>4. << >> \in Transports /\ << >> \in Seq(Two)
    BY DEF Transports
  <1>5. rtp \in Rtps
    BY <1>1, <1>2, <1>3, <1>4 DEF Rtps
  <1>6. /\ rtp.trying = <<"client", 0>> /\ rtp.ports = [e \in Ends |-> << >>]
        /\ rtp.to = [e \in Ends |-> << >>] /\ rtp.in = << >> /\ rtp.out = << >>
        /\ rtp.polled = {} /\ rtp.fired = {} /\ rtp.ready = << >>
    BY <1>1
  <1>7. /\ rtp.ports["client"] = << >> /\ rtp.ports["server"] = << >>
        /\ rtp.to["client"] = << >> /\ rtp.to["server"] = << >>
        /\ \A e \in Ends : rtp.ports[e] = << >>
        /\ rtp.trying[2] = 0
    BY <1>6 DEF Ends
  <1>8. Searches(rtp)
    BY <1>7 DEF RtpInUse, Searches
  <1>9. Owns(rtp) /\ Tells(rtp) /\ Joins(rtp) /\ Places(rtp)
    BY <1>6, <1>7 DEF Owns, Tells, Joins, Places
  <1> QED BY <1>5, <1>8, <1>9 DEF RtpGood

LEMMA FieldThere ==
  ASSUME NEW t, NEW names, NEW k \in Nat, {i \in DOMAIN t : t[i][1] \in names} = {k}
  PROVE  Rtp!Field(t, names) = t[k][2]
  <1> DEFINE at == {i \in DOMAIN t : t[i][1] \in names}
  <1>1. Rtp!Field(t, names) = IF at = {} THEN << >> ELSE t[CHOOSE i \in at : \A j \in at : i <= j][2]
    BY DEF Rtp!Field, Rtp!Unknown
  <1> HIDE DEF at
  <1>2. at = {k}
    BY DEF at
  <1>3. (CHOOSE i \in at : \A j \in at : i <= j) = k
    BY <1>2
  <1> QED BY <1>1, <1>2, <1>3

LEMMA FieldMissing ==
  ASSUME NEW t, NEW names, {i \in DOMAIN t : t[i][1] \in names} = {}
  PROVE  Rtp!Field(t, names) = << >>
  BY DEF Rtp!Field, Rtp!Unknown

LEMMA PeersFound ==
  ASSUME NEW p \in Nat \X Nat, NEW c \in PortPairs
  PROVE  /\ Rtp!PeerPorts(<<<<"interleaved", p>>>>) = p
         /\ Rtp!PeerPorts(<<<<"client_port", p>>>>) = p
         /\ Rtp!PeerPorts(Append(<<<<"client_port", c>>>>, <<"server_port", p>>)) = p
  <1>1. p # << >>
    OBVIOUS
  <1>2. Rtp!PeerPorts(<<<<"interleaved", p>>>>) = p
    <2> DEFINE t == <<<<"interleaved", p>>>>
    <2>1. DOMAIN t = {1} /\ t[1][1] = "interleaved" /\ t[1][2] = p
      OBVIOUS
    <2> HIDE DEF t
    <2>2. {i \in DOMAIN t : t[i][1] \in {"interleaved"}} = {1}
      BY <2>1
    <2>3. Rtp!Field(t, {"interleaved"}) = p
      BY <2>1, <2>2, FieldThere
    <2>4. Rtp!PeerPorts(t) = p
      BY <1>1, <2>3 DEF Rtp!PeerPorts, Rtp!Unknown
    <2> QED BY <2>4 DEF t
  <1>3. Rtp!PeerPorts(<<<<"client_port", p>>>>) = p
    <2> DEFINE t == <<<<"client_port", p>>>>
    <2>1. DOMAIN t = {1} /\ t[1][1] = "client_port" /\ t[1][2] = p
      OBVIOUS
    <2> HIDE DEF t
    <2>2. /\ {i \in DOMAIN t : t[i][1] \in {"interleaved"}} = {}
          /\ {i \in DOMAIN t : t[i][1] \in {"server_port"}} = {}
          /\ {i \in DOMAIN t : t[i][1] \in {"client_port"}} = {1}
      BY <2>1
    <2>3. /\ Rtp!Field(t, {"interleaved"}) = << >> /\ Rtp!Field(t, {"server_port"}) = << >>
          /\ Rtp!Field(t, {"client_port"}) = p
      BY <2>1, <2>2, FieldThere, FieldMissing
    <2>4. Rtp!PeerPorts(t) = p
      BY <1>1, <2>3 DEF Rtp!PeerPorts, Rtp!Unknown
    <2> QED BY <2>4 DEF t
  <1>4. Rtp!PeerPorts(Append(<<<<"client_port", c>>>>, <<"server_port", p>>)) = p
    <2> DEFINE t == Append(<<<<"client_port", c>>>>, <<"server_port", p>>)
    <2>1. /\ DOMAIN t = {1, 2} /\ t[1][1] = "client_port"
          /\ t[2][1] = "server_port" /\ t[2][2] = p
      <3> DEFINE a == <<"client_port", c>>
                 b == <<"server_port", p>>
                 S == Named2 \X PortPairs
      <3>1. a \in S /\ b \in S /\ a[1] = "client_port" /\ b[1] = "server_port" /\ b[2] = p
        BY DEF Named2, PortPairs
      <3>2. t = Append(<<a>>, b)
        OBVIOUS
      <3> HIDE DEF a, b, S, t
      <3>3. <<a>> \in Seq(S) /\ Len(<<a>>) = 1 /\ <<a>>[1] = a
        BY <3>1
      <3>4. Len(t) = 2 /\ t[1] = a /\ t[2] = b /\ DOMAIN t = 1 .. 2
        BY <3>1, <3>2, <3>3
      <3> QED BY <3>1, <3>4
    <2> HIDE DEF t
    <2>2. /\ {i \in DOMAIN t : t[i][1] \in {"interleaved"}} = {}
          /\ {i \in DOMAIN t : t[i][1] \in {"server_port"}} = {2}
      BY <2>1
    <2>3. Rtp!Field(t, {"interleaved"}) = << >> /\ Rtp!Field(t, {"server_port"}) = p
      BY <2>1, <2>2, FieldThere, FieldMissing
    <2>4. Rtp!PeerPorts(t) = p
      BY <1>1, <2>3 DEF Rtp!PeerPorts, Rtp!Unknown
    <2> QED BY <2>4 DEF t
  <1> QED BY <1>2, <1>3, <1>4

\* The search goes on, and an end finds its ports.
LEMMA RtpSearches ==
  ASSUME RtpGood(rtp), NEW n \in Nat, n % 2 = 0, n < Ports,
         rtp' = [rtp EXCEPT !.trying = <<rtp.trying[1], n>>]
  PROVE  RtpGood(rtp')
  <1>1. rtp \in Rtps /\ rtp.trying \in {"client", "server", "none"} \X Nat
    BY DEF RtpGood, Rtps
  <1>2. PICK v \in {"client", "server", "none"} \X Nat : v = <<rtp.trying[1], n>> /\ v[1] = rtp.trying[1] /\ v[2] = n
    <2>1. rtp.trying[1] \in {"client", "server", "none"}
      BY <1>1
    <2>2. <<rtp.trying[1], n>> \in {"client", "server", "none"} \X Nat
      BY <2>1
    <2> QED BY <2>2
  <1>3. /\ rtp' \in Rtps /\ rtp'.proto = rtp.proto /\ rtp'.used = rtp.used /\ rtp'.trying = v
        /\ rtp'.ports = rtp.ports /\ rtp'.to = rtp.to /\ rtp'.in = rtp.in /\ rtp'.out = rtp.out
        /\ rtp'.polled = rtp.polled /\ rtp'.fired = rtp.fired /\ rtp'.ready = rtp.ready
    BY <1>1, <1>2 DEF Rtps
  <1>4. Searches(rtp')
    BY <1>2, <1>3 DEF RtpGood, Searches
  <1>5. Owns(rtp') /\ Tells(rtp') /\ Joins(rtp') /\ Places(rtp')
    BY <1>3 DEF RtpGood, Owns, Tells, Mine, Answer, Joins, Places
  <1> QED BY <1>3, <1>4, <1>5 DEF RtpGood

LEMMA RtpFinds ==
  ASSUME RtpInUse, RtpGood(rtp), NEW e \in Ends, e = rtp.trying[1], e = "server" => rtp.in # << >>,
         NEW v \in Nat \X Nat, NEW u \in SUBSET Nat, rtp.used \subseteq u,
         rtp.proto = "udp" => /\ v[1] % 2 = 0 /\ v[1] \in u /\ v[2] \in u
                              /\ v[1] \notin rtp.used /\ v[2] \notin rtp.used,
         rtp' = [rtp EXCEPT !.ports[e] = v, !.used = u,
                            !.trying = IF e = "client" THEN <<"server", 0>> ELSE <<"none", 0>>]
  PROVE  RtpGood(rtp')
  <1>1. /\ rtp \in Rtps /\ rtp.ports \in [Ends -> PortPairs] /\ v \in PortPairs /\ v # << >>
        /\ rtp.ports["client"] \in PortPairs
    BY DEF RtpGood, Rtps, PortPairs, Ends
  <1>2. PICK ps \in [Ends -> PortPairs] : ps = [rtp.ports EXCEPT ![e] = v]
    BY <1>1
  <1>3. PICK t \in {"client", "server", "none"} \X Nat :
          /\ t = (IF e = "client" THEN <<"server", 0>> ELSE <<"none", 0>>)
          /\ t[1] = (IF e = "client" THEN "server" ELSE "none") /\ t[2] = 0
    <2> DEFINE a == <<"server", 0>>
               b == <<"none", 0>>
    <2>1. /\ a \in {"client", "server", "none"} \X Nat /\ a[1] = "server" /\ a[2] = 0
          /\ b \in {"client", "server", "none"} \X Nat /\ b[1] = "none" /\ b[2] = 0
      OBVIOUS
    <2> SUFFICES \E t \in {"client", "server", "none"} \X Nat :
                    /\ t = (IF e = "client" THEN a ELSE b)
                    /\ t[1] = (IF e = "client" THEN "server" ELSE "none") /\ t[2] = 0
      OBVIOUS
    <2> HIDE DEF a, b
    <2>2. CASE e = "client"
      BY <2>1, <2>2
    <2>3. CASE e # "client"
      BY <2>1, <2>3
    <2> QED BY <2>2, <2>3
  <1>4. rtp' = [rtp EXCEPT !.ports = ps, !.used = u, !.trying = t]
    BY <1>2, <1>3
  <1>5. /\ rtp' \in Rtps /\ rtp'.proto = rtp.proto /\ rtp'.used = u /\ rtp'.trying = t
        /\ rtp'.ports = ps /\ rtp'.to = rtp.to /\ rtp'.in = rtp.in /\ rtp'.out = rtp.out
        /\ rtp'.polled = rtp.polled /\ rtp'.fired = rtp.fired /\ rtp'.ready = rtp.ready
    <2>1. rtp' \in Rtps
      BY <1>1, <1>4 DEF Rtps
    <2>2. /\ rtp'.proto = rtp.proto /\ rtp'.used = u /\ rtp'.trying = t
          /\ rtp'.ports = ps /\ rtp'.to = rtp.to /\ rtp'.in = rtp.in /\ rtp'.out = rtp.out
          /\ rtp'.polled = rtp.polled /\ rtp'.fired = rtp.fired /\ rtp'.ready = rtp.ready
      BY <1>1, <1>4 DEF Rtps
    <2> QED BY <2>1, <2>2
  <1>6. ps[e] = v /\ \A f \in Ends : f # e => ps[f] = rtp.ports[f]
    BY <1>1, <1>2
  <1>7. /\ rtp.ports["server"] = << >> /\ rtp.out = << >> /\ rtp.to["client"] = << >>
        /\ (e = "client" => /\ rtp.ports["client"] = << >> /\ rtp.in = << >>
                            /\ rtp.to["server"] = << >>)
    BY DEF RtpGood, Searches, Tells, Joins, Ends
  <1>8. CASE e = "client"
    <2>1. ps["client"] = v /\ ps["server"] = << >>
      BY <1>6, <1>7, <1>8 DEF Ends
    <2>2. Searches(rtp')
      <3>1. t[1] = "server" /\ t[2] = 0 /\ 0 % 2 = 0 /\ 0 < Ports
        BY <1>3, <1>8 DEF RtpInUse
      <3> QED BY <1>5, <2>1, <3>1 DEF Searches
    <2>3. Owns(rtp')
      BY <1>5, <2>1 DEF Owns, Ends
    <2>4. Tells(rtp') /\ Joins(rtp')
      BY <1>5, <1>7, <1>8, <2>1 DEF Tells, Joins
    <2>5. Places(rtp')
      BY <1>5 DEF RtpGood, Places
    <2> QED BY <1>5, <2>2, <2>3, <2>4, <2>5 DEF RtpGood
  <1>9. CASE e = "server"
    <2>1. ps["client"] = rtp.ports["client"] /\ ps["server"] = v
      BY <1>6, <1>9 DEF Ends
    <2>2. Searches(rtp')
      <3>1. t[1] = "none" /\ t[2] = 0 /\ 0 % 2 = 0 /\ 0 < Ports
        BY <1>3, <1>9 DEF RtpInUse
      <3> QED BY <1>5, <2>1, <3>1 DEF Searches
    <2>3. rtp.ports["client"] # << >> /\ rtp.in = <<Mine(rtp)>>
      BY <1>9 DEF RtpGood, Tells
    <2>4. rtp.proto = "udp" => /\ rtp.ports["client"][1] \in rtp.used /\ rtp.ports["client"][2] \in rtp.used
                               /\ rtp.ports["client"][1] % 2 = 0
      BY <2>3 DEF RtpGood, Owns, Ends
    <2>5. Owns(rtp')
      <3>1. rtp.proto = "udp" => \A i, j \in {1, 2} : v[i] # rtp.ports["client"][j]
        BY <2>4
      <3>2. rtp.proto = "udp" => \A f \in Ends :
               /\ ps[f][1] % 2 = 0 /\ ps[f][1] \in u /\ ps[f][2] \in u
        BY <2>1, <2>4 DEF Ends
      <3> QED BY <1>5, <1>9, <2>1, <3>1, <3>2 DEF Owns
    <2>6. Tells(rtp')
      BY <1>5, <1>7, <2>1, <2>3 DEF Tells, Mine
    <2>7. Joins(rtp')
      BY <1>5, <1>7, <2>1 DEF RtpGood, Joins
    <2>8. Places(rtp')
      BY <1>5 DEF RtpGood, Places
    <2> QED BY <1>5, <2>2, <2>5, <2>6, <2>7, <2>8 DEF RtpGood
  <1> QED BY <1>8, <1>9 DEF Ends

LEMMA RtpCreates ==
  ASSUME RtpInUse, RtpGood(rtp), Rtp!create_port \/ Rtp!create_channels
  PROVE  RtpGood(rtp')
  <1> DEFINE e == rtp.trying[1]
             p == rtp.trying[2]
  <1>1. /\ rtp \in Rtps /\ e \in {"client", "server", "none"} /\ p \in Nat
        /\ rtp.used \in SUBSET Nat
    BY DEF RtpGood, Rtps
  <1>2. e \in Ends /\ (e = "server" => rtp.in # << >>)
    BY <1>1 DEF Rtp!create_port, Rtp!create_channels, Ends, Rtp!Server
  <1>3. Ports \in Nat /\ Ports > 0 /\ Ports % 2 = 0
    BY DEF RtpInUse
  <1>4. CASE Rtp!create_channels
    <2>1. rtp.proto = "tcp"
      BY <1>4 DEF Rtp!create_channels
    <2>2. rtp' = [rtp EXCEPT !.ports[e] = <<0, 1>>,
                             !.trying = IF e = "client" THEN <<"server", 0>> ELSE <<"none", 0>>]
      BY <1>4 DEF Rtp!create_channels, Rtp!Client, Rtp!Server
    <2>3. PICK u \in SUBSET Nat : u = rtp.used
      BY <1>1
    <2>4. rtp' = [rtp EXCEPT !.ports[e] = <<0, 1>>, !.used = u,
                             !.trying = IF e = "client" THEN <<"server", 0>> ELSE <<"none", 0>>]
      BY <1>1, <2>2, <2>3 DEF Rtps
    <2>5. <<0, 1>> \in Nat \X Nat
      OBVIOUS
    <2> HIDE DEF e, p
    <2>6. e = rtp.trying[1]
      BY DEF e
    <2> QED BY <1>2, <2>1, <2>3, <2>4, <2>5, <2>6, RtpFinds
  <1>5. CASE Rtp!create_port
    <2>1. rtp.proto = "udp" /\ p % 2 = 0 /\ p < Ports
      BY <1>5 DEF Rtp!create_port, RtpGood, Searches
    <2>2. CASE \E q \in Rtp!Bound(rtp, p) :
                 rtp' = IF q + 1 \in rtp.used THEN [rtp EXCEPT !.trying = <<e, Rtp!Port(q + 2)>>]
                        ELSE Rtp!Created(rtp, e, q)
      <3>1. PICK q \in Rtp!Bound(rtp, p) :
                 rtp' = IF q + 1 \in rtp.used THEN [rtp EXCEPT !.trying = <<e, Rtp!Port(q + 2)>>]
                        ELSE Rtp!Created(rtp, e, q)
        BY <2>2
      <3>2. q \in Nat /\ q < Ports /\ q % 2 = 0 /\ q \notin rtp.used
        BY <1>1, <1>3, <2>1 DEF Rtp!Bound
      <3>3. CASE q + 1 \in rtp.used
        <4>1. (q + 2) \in Nat /\ q + 2 <= Ports + 1 /\ (q + 2) % 2 = 0
          BY <1>3, <3>2
        <4>2. PICK n \in Nat : n = Rtp!Port(q + 2) /\ n < Ports /\ n % 2 = 0
          BY <4>1, EvenPorts
        <4>3. rtp' = [rtp EXCEPT !.trying = <<rtp.trying[1], n>>]
          BY <3>1, <3>3, <4>2
        <4> QED BY <4>2, <4>3, RtpSearches
      <3>4. CASE q + 1 \notin rtp.used
        <4> DEFINE v == <<q, q + 1>>
                   u == rtp.used \cup {q, q + 1}
        <4>1. v \in Nat \X Nat /\ v[1] = q /\ v[2] = q + 1 /\ u \in SUBSET Nat /\ rtp.used \subseteq u
          BY <1>1, <3>2
        <4>2. v[1] \in u /\ v[2] \in u
          OBVIOUS
        <4>3. rtp' = [rtp EXCEPT !.ports[e] = v, !.used = u,
                                 !.trying = IF e = "client" THEN <<"server", 0>> ELSE <<"none", 0>>]
          BY <3>1, <3>4 DEF Rtp!Created, Rtp!Client, Rtp!Server
        <4> HIDE DEF v, u, e, p
        <4>4. e = rtp.trying[1]
          BY DEF e
        <4> QED BY <1>2, <3>2, <3>4, <4>1, <4>2, <4>3, <4>4, RtpFinds
      <3> QED BY <3>3, <3>4
    <2>3. CASE (p = 0 \/ p \in rtp.used) /\ \E q \in Rtp!Onward(rtp, p) : rtp' = [rtp EXCEPT !.trying = <<e, q>>]
      <3>1. PICK q \in Rtp!Onward(rtp, p) : rtp' = [rtp EXCEPT !.trying = <<e, q>>]
        BY <2>3
      <3>2. PICK m \in Nat : q = Rtp!Port(m) /\ m <= Ports + 1 /\ m % 2 = 0
        <4>1. CASE p # 0
          <5>1. q = Rtp!Port(p + 2)
            BY <3>1, <4>1 DEF Rtp!Onward
          <5>2. p + 2 \in Nat /\ p + 2 <= Ports + 1 /\ (p + 2) % 2 = 0
            BY <1>1, <1>3, <2>1
          <5> QED BY <5>1, <5>2
        <4>2. CASE p = 0
          <5>1. PICK o \in 1 .. (Ports - 1) : o % 2 = 1 /\ q = Rtp!Port(o + 1)
            BY <3>1, <4>2 DEF Rtp!Onward
          <5>2. o + 1 \in Nat /\ o + 1 <= Ports + 1 /\ (o + 1) % 2 = 0
            BY <1>3, <5>1
          <5> QED BY <5>1, <5>2
        <4> QED BY <4>1, <4>2
      <3>3. q \in Nat /\ q < Ports /\ q % 2 = 0
        BY <3>2, EvenPorts
      <3> QED BY <3>1, <3>3, RtpSearches
    <2> QED BY <1>5, <2>2, <2>3 DEF Rtp!create_port
  <1> QED BY <1>4, <1>5


\* What the reads change has no part in the ports.
LEMMA RtpKeeps ==
  ASSUME NEW s, RtpGood(s), NEW t \in Rtps, Places(t),
         t.proto = s.proto, t.used = s.used, t.trying = s.trying, t.ports = s.ports,
         t.to = s.to, t.in = s.in, t.out = s.out
  PROVE  RtpGood(t)
  <1>1. Searches(t) /\ Owns(t)
    BY DEF RtpGood, Searches, Owns
  <1>2. Tells(t) /\ Joins(t)
    BY DEF RtpGood, Tells, Mine, Answer, Joins
  <1> QED BY <1>1, <1>2 DEF RtpGood

LEMMA RtpServed ==
  ASSUME NEW s, RtpGood(s), s.proto = "udp", s.to["client"] # << >>, NEW t, Serves(s, t)
  PROVE  RtpGood(t)
  <1>1. s \in Rtps /\ Placed(s.polled, s.fired, s.ready)
    BY DEF RtpGood, Places
  <1>2. /\ t \in Rtps /\ t.proto = s.proto /\ t.used = s.used /\ t.trying = s.trying
        /\ t.ports = s.ports /\ t.to = s.to /\ t.in = s.in /\ t.out = s.out
        /\ Placed(t.polled, t.fired, t.ready)
    BY <1>1, ServesFrame
  <1>3. Places(t)
    BY <1>2 DEF Places
  <1> QED BY <1>2, <1>3, RtpKeeps

LEMMA RtpTransports ==
  ASSUME RtpGood(rtp), Rtp!create_transport
  PROVE  RtpGood(rtp')
  <1>1. /\ rtp \in Rtps /\ rtp.in \in Transports /\ rtp.out \in Transports
        /\ rtp.ports["client"] \in PortPairs /\ rtp.ports["server"] \in PortPairs
    BY DEF RtpGood, Rtps, Ends
  <1>2. rtp.out # << >> => rtp.in # << >>
    BY DEF RtpGood, Tells, Owns
  <1>3. CASE /\ rtp.ports["client"] # << >> /\ rtp.in = << >>
             /\ rtp' = [rtp EXCEPT !.in = <<Mine(rtp)>>]
    <2>1. Mine(rtp) \in Named2 \X PortPairs
      <3>1. CASE rtp.proto = "tcp"
        BY <1>1, <3>1 DEF Mine, Named2
      <3>2. CASE rtp.proto # "tcp"
        BY <1>1, <3>2 DEF Mine, Named2
      <3> QED BY <3>1, <3>2
    <2>2. PICK i \in Transports : i = <<Mine(rtp)>> /\ i # << >>
      <3> HIDE DEF Mine
      <3>1. <<Mine(rtp)>> \in Seq(Named2 \X PortPairs) /\ <<Mine(rtp)>> # << >>
        BY <2>1
      <3> QED BY <3>1 DEF Transports
    <2>3. /\ rtp' \in Rtps /\ rtp'.proto = rtp.proto /\ rtp'.used = rtp.used /\ rtp'.trying = rtp.trying
          /\ rtp'.ports = rtp.ports /\ rtp'.to = rtp.to /\ rtp'.in = i /\ rtp'.out = rtp.out
          /\ rtp'.polled = rtp.polled /\ rtp'.fired = rtp.fired /\ rtp'.ready = rtp.ready
      BY <1>1, <1>3, <2>2 DEF Rtps
    <2>4. Mine(rtp') = Mine(rtp) /\ rtp'.out = << >>
      BY <1>2, <1>3, <2>3 DEF Mine
    <2>5. Tells(rtp')
      BY <1>3, <2>2, <2>3, <2>4 DEF Tells
    <2>6. Searches(rtp') /\ Owns(rtp') /\ Joins(rtp') /\ Places(rtp')
      BY <1>3, <2>2, <2>3 DEF RtpGood, Searches, Owns, Joins, Places
    <2> QED BY <2>3, <2>5, <2>6 DEF RtpGood
  <1>4. CASE /\ rtp.ports["server"] # << >> /\ rtp.out = << >>
             /\ rtp' = [rtp EXCEPT !.out = Answer(rtp)]
    <2>1. PICK o \in Transports : o = Answer(rtp)
      <3> DEFINE a == <<"interleaved", rtp.ports["server"]>>
                 b == <<"server_port", rtp.ports["server"]>>
                 S == Named2 \X PortPairs
      <3>1. a \in S /\ b \in S
        BY <1>1 DEF Named2
      <3>2. Answer(rtp) = IF rtp.proto = "tcp" THEN <<a>> ELSE Append(rtp.in, b)
        BY DEF Answer
      <3>3. rtp.in \in Seq(S)
        BY <1>1 DEF Transports
      <3> SUFFICES Answer(rtp) \in Seq(S)
        BY DEF Transports
      <3> HIDE DEF a, b, S
      <3>4. <<a>> \in Seq(S)
        BY <3>1
      <3>5. Append(rtp.in, b) \in Seq(S)
        BY <3>1, <3>3
      <3> QED BY <3>2, <3>4, <3>5
    <2>2. /\ rtp' \in Rtps /\ rtp'.proto = rtp.proto /\ rtp'.used = rtp.used /\ rtp'.trying = rtp.trying
          /\ rtp'.ports = rtp.ports /\ rtp'.to = rtp.to /\ rtp'.in = rtp.in /\ rtp'.out = o
          /\ rtp'.polled = rtp.polled /\ rtp'.fired = rtp.fired /\ rtp'.ready = rtp.ready
      BY <1>1, <1>4, <2>1 DEF Rtps
    <2>3. Answer(rtp') = Answer(rtp) /\ Mine(rtp') = Mine(rtp)
      BY <2>2 DEF Answer, Mine
    <2>4. Tells(rtp')
      BY <1>4, <2>1, <2>2, <2>3 DEF RtpGood, Tells
    <2>5. Searches(rtp') /\ Owns(rtp') /\ Joins(rtp') /\ Places(rtp')
      BY <2>2 DEF RtpGood, Searches, Owns, Joins, Places
    <2> QED BY <2>2, <2>4, <2>5 DEF RtpGood
  <1> QED BY <1>3, <1>4 DEF Rtp!create_transport, Rtp!Client, Rtp!Server, Rtp!Unknown, Mine, Answer

LEMMA RtpConnects ==
  ASSUME RtpInUse, RtpGood(rtp), Rtp!connect_transport
  PROVE  RtpGood(rtp')
  <1> DEFINE Peer(e) == Rtp!PeerPorts(IF e = "server" THEN rtp.in ELSE rtp.out)
  <1>1. PICK e \in Ends :
          /\ rtp.out # << >> /\ rtp.to[e] = << >>
          /\ rtp' = [rtp EXCEPT !.to[e] = Peer(e),
                                !.polled = IF e = "client" /\ rtp.proto = "udp" THEN Two ELSE @]
    BY DEF Rtp!connect_transport, Rtp!Client, Rtp!Server, Rtp!Unknown, Rtp!Sockets, Ends, Two, RtpInUse
  <1>2. /\ rtp \in Rtps /\ rtp.proto \in {"udp", "tcp"} /\ rtp.to \in [Ends -> PortPairs]
        /\ rtp.ports["client"] \in PortPairs /\ rtp.ports["server"] \in PortPairs
        /\ rtp.polled \in SUBSET Two
    BY DEF RtpGood, Rtps, Ends
  <1>3. /\ rtp.ports["server"] # << >> /\ rtp.out = Answer(rtp)
        /\ rtp.ports["client"] # << >> /\ rtp.in = <<Mine(rtp)>>
    BY <1>1 DEF RtpGood, Tells, Owns
  <1>4. rtp.ports["client"] \in Nat \X Nat /\ rtp.ports["server"] \in Nat \X Nat
    BY <1>2, <1>3 DEF PortPairs
  <1>5. e = "client" => Peer(e) = rtp.ports["server"]
    <2> SUFFICES Rtp!PeerPorts(rtp.out) = rtp.ports["server"]
      OBVIOUS
    <2>1. CASE rtp.proto = "tcp"
      <3>1. rtp.out = <<<<"interleaved", rtp.ports["server"]>>>>
        BY <1>3, <2>1 DEF Answer
      <3> QED BY <1>2, <1>4, <3>1, PeersFound
    <2>2. CASE rtp.proto = "udp"
      <3>1. rtp.in = <<<<"client_port", rtp.ports["client"]>>>>
        BY <1>3, <2>2 DEF Mine
      <3>2. rtp.out = Append(rtp.in, <<"server_port", rtp.ports["server"]>>)
        BY <1>3, <2>2 DEF Answer
      <3>3. rtp.out = Append(<<<<"client_port", rtp.ports["client"]>>>>, <<"server_port", rtp.ports["server"]>>)
        BY <3>1, <3>2
      <3>4. /\ rtp.ports["client"] \in PortPairs /\ rtp.ports["server"] \in Nat \X Nat
        BY <1>2, <1>4
      <3>5. Rtp!PeerPorts(Append(<<<<"client_port", rtp.ports["client"]>>>>, <<"server_port", rtp.ports["server"]>>))
              = rtp.ports["server"]
        BY <3>4, PeersFound, Zenon
      <3> QED BY <3>3, <3>5
    <2> QED BY <1>2, <2>1, <2>2
  <1>6. e = "server" => Peer(e) = rtp.ports["client"]
    <2> SUFFICES Rtp!PeerPorts(rtp.in) = rtp.ports["client"]
      OBVIOUS
    <2>1. CASE rtp.proto = "tcp"
      <3>1. rtp.in = <<<<"interleaved", rtp.ports["client"]>>>>
        BY <1>3, <2>1 DEF Mine
      <3> QED BY <1>2, <1>4, <3>1, PeersFound
    <2>2. CASE rtp.proto = "udp"
      <3>1. rtp.in = <<<<"client_port", rtp.ports["client"]>>>>
        BY <1>3, <2>2 DEF Mine
      <3> QED BY <1>2, <1>4, <3>1, PeersFound
    <2> QED BY <1>2, <2>1, <2>2
  <1>7. PICK p \in PortPairs : p = Peer(e) /\ p # << >>
    BY <1>2, <1>3, <1>5, <1>6 DEF Ends
  <1> HIDE DEF Peer
  <1>8. PICK d \in SUBSET Two : d = IF e = "client" /\ rtp.proto = "udp" THEN Two ELSE rtp.polled
    BY <1>2
  <1>9. PICK w \in [Ends -> PortPairs] : w = [rtp.to EXCEPT ![e] = p]
    BY <1>2, <1>7
  <1>10. rtp' = [rtp EXCEPT !.to = w, !.polled = d]
    BY <1>1, <1>7, <1>8, <1>9
  <1>11. /\ rtp' \in Rtps /\ rtp'.proto = rtp.proto /\ rtp'.used = rtp.used /\ rtp'.trying = rtp.trying
         /\ rtp'.ports = rtp.ports /\ rtp'.to = w /\ rtp'.in = rtp.in /\ rtp'.out = rtp.out
         /\ rtp'.polled = d /\ rtp'.fired = rtp.fired /\ rtp'.ready = rtp.ready
    BY <1>2, <1>10 DEF Rtps
  <1>12. w[e] = p /\ \A f \in Ends : f # e => w[f] = rtp.to[f]
    BY <1>2, <1>9
  <1>13. Joins(rtp')
    <2>1. CASE e = "client"
      BY <1>5, <1>7, <1>11, <1>12, <2>1 DEF RtpGood, Joins, Ends
    <2>2. CASE e = "server"
      BY <1>6, <1>7, <1>11, <1>12, <2>2 DEF RtpGood, Joins, Ends
    <2> QED BY <2>1, <2>2 DEF Ends
  <1>14. Places(rtp')
    <2>1. CASE e = "client"
      <3>1. rtp.polled = {} /\ rtp.fired = {} /\ rtp.ready = << >>
        BY <1>1, <2>1 DEF RtpGood, Places
      <3>2. Placed(Two, {}, << >>)
        BY DEF Placed
      <3> QED BY <1>7, <1>8, <1>11, <1>12, <2>1, <3>1, <3>2 DEF Places
    <2>2. CASE e = "server"
      <3>1. w["client"] = rtp.to["client"] /\ d = rtp.polled
        BY <1>8, <1>12, <2>2 DEF Ends
      <3> QED BY <1>11, <3>1 DEF RtpGood, Places
    <2> QED BY <2>1, <2>2 DEF Ends
  <1>15. Searches(rtp') /\ Owns(rtp') /\ Tells(rtp')
    BY <1>11 DEF RtpGood, Searches, Owns, Tells, Mine, Answer
  <1> QED BY <1>11, <1>13, <1>14, <1>15 DEF RtpGood

LEMMA RtpReads ==
  ASSUME RtpGood(rtp), Rtp!async_read_some
  PROVE  RtpGood(rtp')
  <1> DEFINE t == IF rtp.ready = << >> THEN rtp ELSE Rtp!handle_task(rtp)
  <1>1. rtp \in Rtps /\ rtp.proto = "udp" /\ rtp.to["client"] # << >> /\ rtp.tasks \in Nat
    BY DEF RtpGood, Rtps, Rtp!async_read_some, Rtp!Client, Rtp!Unknown
  <1>2. Serves(rtp, t) /\ t.tasks = rtp.tasks
    BY <1>1, HandleTask, ServesNone
  <1>3. rtp' = IF Rtp!Served(rtp, t) THEN t ELSE [t EXCEPT !.tasks = @ + 1]
    BY DEF Rtp!async_read_some
  <1> HIDE DEF t
  <1>4. PICK n \in Nat : n = rtp.tasks + 1
    BY <1>1
  <1>5. rtp' = IF Rtp!Served(rtp, t) THEN t ELSE [t EXCEPT !.tasks = n]
    BY <1>2, <1>3, <1>4
  <1>6. Serves(rtp, rtp')
    BY <1>1, <1>2, <1>5, ServesTasks
  <1> QED BY <1>1, <1>6, RtpServed

LEMMA RtpDatagram ==
  ASSUME RtpGood(rtp), Rtp!Datagram
  PROVE  RtpGood(rtp')
  <1>1. rtp \in Rtps /\ rtp.queue \in [Two -> Nat]
    BY DEF RtpGood, Rtps
  <1>2. PICK k \in Two : rtp' = [rtp EXCEPT !.queue[k] = @ + 1]
    BY DEF Rtp!Datagram, Rtp!Sockets, Two
  <1>3. rtp.queue[k] + 1 \in Nat
    BY <1>1
  <1>4. PICK u \in [Two -> Nat] : u = [rtp.queue EXCEPT ![k] = @ + 1]
    BY <1>1, <1>3
  <1>5. rtp' = [rtp EXCEPT !.queue = u]
    BY <1>2, <1>4
  <1>6. /\ rtp' \in Rtps /\ rtp'.proto = rtp.proto /\ rtp'.used = rtp.used /\ rtp'.trying = rtp.trying
        /\ rtp'.ports = rtp.ports /\ rtp'.to = rtp.to /\ rtp'.in = rtp.in /\ rtp'.out = rtp.out
        /\ rtp'.polled = rtp.polled /\ rtp'.fired = rtp.fired /\ rtp'.ready = rtp.ready
    BY <1>1, <1>5 DEF Rtps
  <1>7. Places(rtp')
    BY <1>6 DEF RtpGood, Places
  <1> QED BY <1>6, <1>7, RtpKeeps

\* A socket's poll completes: it is in the hands of on_read.
LEMMA RtpPolls ==
  ASSUME RtpGood(rtp), NEW k \in Two, Rtp!poll_read(k)
  PROVE  RtpGood(rtp')
  <1>1. rtp \in Rtps /\ rtp.polled \in SUBSET Two /\ rtp.fired \in SUBSET Two /\ k \in rtp.polled
    BY DEF RtpGood, Rtps, Rtp!poll_read
  <1>2. rtp.proto = "udp" /\ rtp.to["client"] # << >> /\ Placed(rtp.polled, rtp.fired, rtp.ready)
    BY <1>1 DEF RtpGood, Places
  <1>3. PICK d \in SUBSET Two, f \in SUBSET Two : d = rtp.polled \ {k} /\ f = rtp.fired \cup {k}
    BY <1>1
  <1>4. rtp' = [rtp EXCEPT !.polled = d, !.fired = f]
    BY <1>3 DEF Rtp!poll_read
  <1>5. /\ rtp' \in Rtps /\ rtp'.proto = rtp.proto /\ rtp'.used = rtp.used /\ rtp'.trying = rtp.trying
        /\ rtp'.ports = rtp.ports /\ rtp'.to = rtp.to /\ rtp'.in = rtp.in /\ rtp'.out = rtp.out
        /\ rtp'.polled = d /\ rtp'.fired = f /\ rtp'.ready = rtp.ready
    BY <1>1, <1>4 DEF Rtps
  <1>6. Placed(d, f, rtp.ready)
    BY <1>1, <1>2, <1>3 DEF Placed
  <1>7. Places(rtp')
    BY <1>2, <1>5, <1>6 DEF Places
  <1> QED BY <1>5, <1>7, RtpKeeps

\* on_read puts the socket at the end of the list, and serves the reads that wait.
LEMMA RtpOnRead ==
  ASSUME RtpGood(rtp), NEW k \in Two, Rtp!on_read(k)
  PROVE  RtpGood(rtp')
  <1> DEFINE s == [rtp EXCEPT !.fired = @ \ {k}, !.ready = Append(@, k)]
  <1>1. /\ rtp \in Rtps /\ rtp.polled \in SUBSET Two /\ rtp.fired \in SUBSET Two /\ rtp.ready \in Seq(Two)
        /\ k \in rtp.fired /\ rtp' = Rtp!ServeTasks(s)
    BY DEF RtpGood, Rtps, Rtp!on_read
  <1>2. rtp.proto = "udp" /\ rtp.to["client"] # << >> /\ Placed(rtp.polled, rtp.fired, rtp.ready)
    BY <1>1 DEF RtpGood, Places
  <1>3. PICK f \in SUBSET Two : f = rtp.fired \ {k}
    BY <1>1
  <1>4. PICK q \in Seq(Two) :
          /\ q = Append(rtp.ready, k)
          /\ DOMAIN q = 1 .. (Len(rtp.ready) + 1) /\ DOMAIN rtp.ready = 1 .. Len(rtp.ready)
          /\ Len(rtp.ready) \in Nat /\ q[Len(rtp.ready) + 1] = k
          /\ \A i \in DOMAIN rtp.ready : q[i] = rtp.ready[i]
    <2>1. Append(rtp.ready, k) \in Seq(Two)
      BY <1>1
    <2>2. PICK q \in Seq(Two) : q = Append(rtp.ready, k)
      BY <2>1
    <2>3. /\ DOMAIN q = 1 .. (Len(rtp.ready) + 1) /\ DOMAIN rtp.ready = 1 .. Len(rtp.ready)
          /\ Len(rtp.ready) \in Nat /\ q[Len(rtp.ready) + 1] = k
          /\ \A i \in DOMAIN rtp.ready : q[i] = rtp.ready[i]
      BY <1>1, <2>2
    <2> QED BY <2>2, <2>3
  <1>5. s = [rtp EXCEPT !.fired = f, !.ready = q]
    BY <1>3, <1>4
  <1> HIDE DEF s
  <1>6. /\ s \in Rtps /\ s.proto = rtp.proto /\ s.used = rtp.used /\ s.trying = rtp.trying
        /\ s.ports = rtp.ports /\ s.to = rtp.to /\ s.in = rtp.in /\ s.out = rtp.out
        /\ s.polled = rtp.polled /\ s.fired = f /\ s.ready = q
    BY <1>1, <1>5 DEF Rtps
  <1>7. Placed(rtp.polled, f, q)
    <2> DEFINE n == Len(rtp.ready) + 1
    <2>1. \A i \in DOMAIN q : i \in DOMAIN rtp.ready \/ i = n
      BY <1>4
    <2>2. n \in DOMAIN q /\ q[n] = k /\ n \notin DOMAIN rtp.ready
      BY <1>4
    <2>3. \A i \in DOMAIN rtp.ready : i \in DOMAIN q /\ q[i] = rtp.ready[i]
      BY <1>4
    <2>4. \A i \in DOMAIN rtp.ready : rtp.ready[i] # k
      BY <1>1, <1>2 DEF Placed
    <2> HIDE DEF n
    <2>5. \A i, j \in DOMAIN q : q[i] = q[j] => i = j
      BY <1>2, <2>1, <2>2, <2>3, <2>4 DEF Placed
    <2>6. \A i \in DOMAIN q : q[i] \notin rtp.polled /\ q[i] \notin f
      BY <1>1, <1>2, <1>3, <2>1, <2>2, <2>3, <2>4 DEF Placed
    <2>7. rtp.polled \cup f \cup {q[i] : i \in DOMAIN q} = Two
      <3>1. ASSUME NEW x \in Two PROVE x \in rtp.polled \cup f \cup {q[i] : i \in DOMAIN q}
        <4>1. CASE x = k
          BY <2>2, <4>1
        <4>2. CASE x # k
          <5>1. x \in rtp.polled \/ x \in f \/ \E i \in DOMAIN rtp.ready : rtp.ready[i] = x
            BY <1>2, <1>3, <4>2 DEF Placed
          <5> QED BY <2>3, <5>1
        <4> QED BY <4>1, <4>2
      <3>2. \A i \in DOMAIN q : q[i] \in Two
        OBVIOUS
      <3> QED BY <1>1, <3>1, <3>2
    <2> QED BY <1>2, <1>3, <2>5, <2>6, <2>7 DEF Placed
  <1>8. Places(s)
    BY <1>2, <1>6, <1>7 DEF Places
  <1>9. RtpGood(s)
    BY <1>6, <1>8, RtpKeeps
  <1> QED BY <1>1, <1>2, <1>6, <1>9, ServeTasks, RtpServed

\* The receive that blocked returns.
LEMMA RtpReceives ==
  ASSUME RtpGood(rtp), Rtp!receive
  PROVE  RtpGood(rtp')
  <1> DEFINE s == [rtp EXCEPT !.blocked = FALSE]
  <1>1. rtp \in Rtps /\ rtp.ready # << >> /\ rtp' = Rtp!ServeTasks(s)
    BY DEF RtpGood, Rtp!receive
  <1>2. rtp.proto = "udp" /\ rtp.to["client"] # << >>
    BY <1>1 DEF RtpGood, Places
  <1>3. /\ s \in Rtps /\ s.proto = rtp.proto /\ s.used = rtp.used /\ s.trying = rtp.trying
        /\ s.ports = rtp.ports /\ s.to = rtp.to /\ s.in = rtp.in /\ s.out = rtp.out
        /\ s.polled = rtp.polled /\ s.fired = rtp.fired /\ s.ready = rtp.ready
    BY <1>1 DEF Rtps
  <1> HIDE DEF s
  <1>4. Places(s)
    BY <1>3 DEF RtpGood, Places
  <1>5. RtpGood(s)
    BY <1>3, <1>4, RtpKeeps
  <1> QED BY <1>1, <1>2, <1>3, <1>5, ServeTasks, RtpServed

\* What is known of the ports and the sockets is kept by every step.
LEMMA RtpStep ==
  ASSUME RtpInUse, RtpGood(rtp), Rtp!RtpNext
  PROVE  RtpGood(rtp')
  <1>1. CASE Rtp!create_port \/ Rtp!create_channels
    BY <1>1, RtpCreates
  <1>2. CASE Rtp!create_transport
    BY <1>2, RtpTransports
  <1>3. CASE Rtp!connect_transport
    BY <1>3, RtpConnects
  <1>4. CASE Rtp!async_read_some
    BY <1>4, RtpReads
  <1>5. CASE Rtp!Datagram
    BY <1>5, RtpDatagram
  <1>6. ASSUME NEW k \in Two, Rtp!poll_read(k)
        PROVE  RtpGood(rtp')
    BY <1>6, RtpPolls
  <1>7. ASSUME NEW k \in Two, Rtp!on_read(k)
        PROVE  RtpGood(rtp')
    BY <1>7, RtpOnRead
  <1>8. CASE Rtp!receive
    BY <1>8, RtpReceives
  <1> QED BY <1>1, <1>2, <1>3, <1>4, <1>5, <1>6, <1>7, <1>8 DEF Rtp!RtpNext, Rtp!Sockets, Two

LEMMA RtpIsSafe ==
  ASSUME RtpGood(rtp)
  PROVE  Rtp!PortsAgree
  <1>1. /\ rtp \in Rtps /\ rtp.ports["client"] \in PortPairs /\ rtp.ports["server"] \in PortPairs
        /\ rtp.ready \in Seq(Two) /\ rtp.polled \in SUBSET Two /\ rtp.fired \in SUBSET Two
    BY DEF RtpGood, Rtps, Ends
  <1>2. rtp.proto = "udp" => \A e \in Ends : rtp.ports[e] # << >> => rtp.ports[e][1] % 2 = 0
    BY DEF RtpGood, Owns
  <1>3. ASSUME rtp.proto = "udp", rtp.ports["server"] # << >>
        PROVE  Rtp!ToSet(rtp.ports["server"]) \cap Rtp!ToSet(rtp.ports["client"]) = {}
    <2>1. rtp.ports["client"] # << >>
      BY <1>3 DEF RtpGood, Owns, Tells
    <2>2. rtp.ports["client"] \in Nat \X Nat /\ rtp.ports["server"] \in Nat \X Nat
      BY <1>1, <1>3, <2>1 DEF PortPairs
    <2>3. \A p \in Nat \X Nat : DOMAIN p = {1, 2}
      OBVIOUS
    <2>4. \A i, j \in {1, 2} : rtp.ports["server"][i] # rtp.ports["client"][j]
      BY <1>3, <2>1 DEF RtpGood, Owns
    <2> QED BY <2>2, <2>3, <2>4 DEF Rtp!ToSet
  <1>4. /\ rtp.to["client"] # << >> => rtp.to["client"] = rtp.ports["server"]
        /\ rtp.to["server"] # << >> => rtp.to["server"] = rtp.ports["client"]
    BY DEF RtpGood, Joins
  <1>5. ASSUME rtp.to["client"] # << >>, rtp.proto = "udp"
        PROVE  /\ rtp.polled \cup rtp.fired \cup Rtp!ToSet(rtp.ready) = Two
               /\ Rtp!Cardinality(rtp.polled) + Rtp!Cardinality(rtp.fired) + Len(rtp.ready) = 2
    <2> DEFINE R == {rtp.ready[i] : i \in DOMAIN rtp.ready}
    <2>1. Placed(rtp.polled, rtp.fired, rtp.ready)
      BY <1>5 DEF RtpGood, Places
    <2>2. Rtp!ToSet(rtp.ready) = R
      BY DEF Rtp!ToSet
    <2>3. IsFiniteSet(Two) /\ Cardinality(Two) = 2
      <3>1. PICK a \in Int, b \in Int : a = 0 /\ b = 1
        OBVIOUS
      <3>2. Two = a .. b
        BY <3>1 DEF Two
      <3>3. IsFiniteSet(a .. b) /\ Cardinality(a .. b) = IF a > b THEN 0 ELSE b - a + 1
        BY FS_Interval
      <3> QED BY <3>1, <3>2, <3>3
    <2>4. R \subseteq Two
      BY <1>1
    <2>5. /\ IsFiniteSet(R) /\ IsFiniteSet(rtp.polled) /\ IsFiniteSet(rtp.fired)
      BY <1>1, <2>3, <2>4, FS_Subset
    <2>6. Cardinality(R) = Len(rtp.ready)
      <3>1. Len(rtp.ready) \in Nat /\ DOMAIN rtp.ready = 1 .. Len(rtp.ready)
        BY <1>1
      <3>2. IsFiniteSet(1 .. Len(rtp.ready)) /\ Cardinality(1 .. Len(rtp.ready)) = Len(rtp.ready)
        BY <3>1, FS_Interval
      <3>3. rtp.ready \in Bijection(1 .. Len(rtp.ready), R)
        <4>1. rtp.ready \in [1 .. Len(rtp.ready) -> R]
          BY <1>1, <3>1
        <4>2. \A i, j \in 1 .. Len(rtp.ready) : rtp.ready[i] = rtp.ready[j] => i = j
          BY <2>1, <3>1 DEF Placed
        <4>3. \A x \in R : \E i \in 1 .. Len(rtp.ready) : rtp.ready[i] = x
          BY <3>1
        <4> QED BY <4>1, <4>2, <4>3, Fun_IsBij
      <3>4. ExistsBijection(1 .. Len(rtp.ready), R)
        BY <3>3, Fun_ExistsBij
      <3> QED BY <3>2, <3>4, FS_Bijection
    <2>7. /\ rtp.polled \cap rtp.fired = {} /\ (rtp.polled \cup rtp.fired) \cap R = {}
          /\ rtp.polled \cup rtp.fired \cup R = Two
      BY <2>1 DEF Placed
    <2> HIDE DEF R
    <2>8. ASSUME NEW S, NEW T, IsFiniteSet(S), IsFiniteSet(T), S \cap T = {}
          PROVE  /\ IsFiniteSet(S \cup T) /\ Cardinality(S) \in Nat /\ Cardinality(T) \in Nat
                 /\ Cardinality(S \cup T) = Cardinality(S) + Cardinality(T)
      <3>1. Cardinality(S \cup T) = Cardinality(S) + Cardinality(T) - Cardinality(S \cap T)
        BY <2>8, FS_Union
      <3>2. IsFiniteSet(S \cup T)
        BY <2>8, FS_Union
      <3>3. Cardinality(S \cap T) = 0
        BY <2>8, FS_EmptySet
      <3>4. Cardinality(S) \in Nat /\ Cardinality(T) \in Nat
        BY <2>8, FS_CardinalityType
      <3> QED BY <3>1, <3>2, <3>3, <3>4
    <2>9. /\ IsFiniteSet(rtp.polled \cup rtp.fired)
          /\ Cardinality(rtp.polled \cup rtp.fired) = Cardinality(rtp.polled) + Cardinality(rtp.fired)
          /\ Cardinality(rtp.polled) \in Nat /\ Cardinality(rtp.fired) \in Nat
      BY <2>5, <2>7, <2>8
    <2>10. Cardinality((rtp.polled \cup rtp.fired) \cup R)
            = Cardinality(rtp.polled \cup rtp.fired) + Cardinality(R)
      BY <2>5, <2>7, <2>8, <2>9
    <2>11. Cardinality(rtp.polled) + Cardinality(rtp.fired) + Len(rtp.ready) = 2
      BY <2>3, <2>6, <2>7, <2>9, <2>10
    <2>12. \A S : Rtp!Cardinality(S) = Cardinality(S)
      BY DEF Rtp!Cardinality, Cardinality
    <2> QED BY <2>2, <2>7, <2>11, <2>12
  <1> QED BY <1>2, <1>3, <1>4, <1>5
      DEF Rtp!PortsAgree, Rtp!Client, Rtp!Server, Rtp!Unknown, Rtp!Sockets, Ends, Two

-----------------------------------------------------------------------------
(* The sessions together.                                                    *)

\* What the theorem asks of the constants; the run's instance meets it.
InUse == ProxyInUse /\ RtspInUse /\ RtpInUse

SessionsGood ==
    /\ proxy # Absent => ProxyGood(proxy)
    /\ rtsp # Absent => RtspGood(rtsp)
    /\ rtp # Absent => RtpGood(rtp)

LEMMA SessionsStart ==
  ASSUME InUse, Init
  PROVE  SessionsGood
  BY ProxyStart, RtspStart, RtpStart DEF InUse, Init, SessionsGood

LEMMA SessionsStep ==
  ASSUME InUse, SessionsGood, [Next]_vars
  PROVE  SessionsGood'
  <1>1. CASE UNCHANGED <<proxy, rtsp, rtp>>
    BY <1>1 DEF SessionsGood
  <1>2. CASE proxy # Absent /\ Proxy!ProxyNext /\ UNCHANGED <<rtmp, mmsp, rtsp, rtp>>
    <2>1. ProxyGood(proxy')
      BY <1>2, ProxyStep DEF InUse, SessionsGood
    <2> QED BY <1>2, <2>1 DEF SessionsGood
  <1>3. CASE rtsp # Absent /\ Rtsp!RtspNext /\ UNCHANGED <<rtmp, mmsp, proxy, rtp>>
    <2>1. RtspGood(rtsp')
      BY <1>3, RtspStep DEF InUse, SessionsGood
    <2> QED BY <1>3, <2>1 DEF SessionsGood
  <1>4. CASE rtp # Absent /\ Rtp!RtpNext /\ UNCHANGED <<rtmp, mmsp, proxy, rtsp>>
    <2>1. RtpGood(rtp')
      BY <1>4, RtpStep DEF InUse, SessionsGood
    <2> QED BY <1>4, <2>1 DEF SessionsGood
  <1> QED BY <1>1, <1>2, <1>3, <1>4 DEF Next, vars

LEMMA SessionsGoodIsSafe == SessionsGood => SessionsSafe
  BY ProxyIsSafe, RtspIsSafe, RtpIsSafe DEF SessionsGood, SessionsSafe, PortsAgree

(* A proxy and an rtsp session are deleted once and with nothing under way, a   *)
(* proxy answers what the server named in the request says, an rtsp session in   *)
(* the order of the requests, and the ends of an rtp transport name each other's  *)
(* ports, each socket in one place: for any number of requests, ports and reads    *)
(* (HttpProxy.cpp, RtspSession.cpp, RtspTransport.cpp, RtpUdpSocket.hpp).           *)
THEOREM SessionsAreSafe == InUse => (Spec => []SessionsSafe)
  <1> SUFFICES ASSUME InUse PROVE Spec => []SessionsSafe
    OBVIOUS
  <1>1. Init => SessionsGood
    BY SessionsStart
  <1>2. SessionsGood /\ [Next]_vars => SessionsGood'
    BY SessionsStep
  <1> QED BY <1>1, <1>2, SessionsGoodIsSafe, PTL DEF Spec
=============================================================================
