-------------------------- MODULE AsyncTcpTheorems --------------------------
(***************************************************************************)
(* What holds of the asynchronous TCP sender for every number of messages, *)
(* their sizes and types, every queue limit, burst and length of teardown. *)
(***************************************************************************)
EXTENDS AsyncTcp, FiniteSetTheorems, TLAPS

-----------------------------------------------------------------------------
(* Sums over finite sets.  TotalSize is a fold; the facts that make a fold *)
(* of additions a sum are proved from a minimal counterexample, which a    *)
(* nonempty family of finite sets has.                                     *)

\* The element a fold takes from a set next.
Chosen(T) == CHOOSE x \in T : TRUE

\* h computes the sums of g over the subsets of S.
IsSumOf(h, g, S) ==
    h = [T \in SUBSET S |-> IF T = {} THEN 0 ELSE g[Chosen(T)] + h[T \ {Chosen(T)}]]

SumsOf(g, S) == CHOOSE h : IsSumOf(h, g, S)

SumOver(g, S) == SumsOf(g, S)[S]

\* A nonempty family of subsets of a finite set has a member with no smaller one
\* in the family.
LEMMA MinimalSet ==
    ASSUME NEW S, IsFiniteSet(S), NEW F \in SUBSET SUBSET S, F # {}
    PROVE  \E T \in F : \A U \in F : U \subseteq T => U = T
<1>1. IsWellFoundedOn(StrictSubsetOrdering(S), FiniteSubsetsOf(S))
  BY FS_StrictSubsetOrderingWellFounded
<1>2. F \subseteq FiniteSubsetsOf(S)
  BY FS_Subset DEF FiniteSubsetsOf
<1>3. PICK T \in F : \A U \in F : <<U, T>> \notin StrictSubsetOrdering(S)
  BY <1>1, <1>2, WFMin
<1>4. ASSUME NEW U \in F, U \subseteq T
      PROVE  U = T
  <2>1. U \in SUBSET S /\ T \in SUBSET S /\ <<U, T>> \notin StrictSubsetOrdering(S)
    BY <1>3
  <2> QED BY <1>4, <2>1 DEF StrictSubsetOrdering
<1> QED BY <1>3, <1>4

\* TotalSize, the fold of the model, is the sum defined here.
LEMMA TotalSizeIsSum ==
    ASSUME NEW s, NEW D
    PROVE  TotalSize(s, D) = SumOver(s.total_size, D)
BY Zenon DEF TotalSize, MapThenSumSet, MapThenFoldSet, SumOver, SumsOf, IsSumOf, Chosen

\* Two tables of sums agree where both are defined.
LEMMA SumsAgree ==
    ASSUME NEW S, IsFiniteSet(S), NEW T \in SUBSET S, NEW g, NEW h, NEW k,
           IsSumOf(h, g, S), IsSumOf(k, g, T)
    PROVE  \A U \in SUBSET T : h[U] = k[U]
<1> DEFINE F == {U \in SUBSET T : h[U] # k[U]}
<1> SUFFICES ASSUME F # {} PROVE FALSE
  OBVIOUS
<1>1. F \in SUBSET SUBSET S
  OBVIOUS
<1>2. PICK U \in F : \A V \in F : V \subseteq U => V = U
  <2> HIDE DEF F
  <2> QED BY <1>1, MinimalSet
<1>3. /\ h[U] = IF U = {} THEN 0 ELSE g[Chosen(U)] + h[U \ {Chosen(U)}]
      /\ k[U] = IF U = {} THEN 0 ELSE g[Chosen(U)] + k[U \ {Chosen(U)}]
  <2>1. U \in SUBSET S /\ U \in SUBSET T
    OBVIOUS
  <2> QED BY <2>1, Zenon DEF IsSumOf
<1>4. U # {} /\ h[U] # k[U]
  BY <1>3
<1>5. Chosen(U) \in U
  BY <1>4 DEF Chosen
<1>6. U \ {Chosen(U)} \in SUBSET T /\ U \ {Chosen(U)} # U
  BY <1>5
<1>7. h[U \ {Chosen(U)}] = k[U \ {Chosen(U)}]
  BY <1>2, <1>6
<1> QED BY <1>3, <1>4, <1>7

\* Every finite set has its table of sums, by the smallest set without one.
LEMMA SumsExist ==
    ASSUME NEW S, IsFiniteSet(S), NEW g
    PROVE  \A T \in SUBSET S : IsSumOf(SumsOf(g, T), g, T)
<1> DEFINE F == {T \in SUBSET S : ~IsSumOf(SumsOf(g, T), g, T)}
<1> SUFFICES ASSUME F # {} PROVE FALSE
  OBVIOUS
<1>1. PICK T \in F : \A U \in F : U \subseteq T => U = T
  <2>1. F \in SUBSET SUBSET S
    OBVIOUS
  <2> HIDE DEF F
  <2> QED BY <2>1, MinimalSet
<1>2. \A U \in SUBSET T : U # T => IsSumOf(SumsOf(g, U), g, U)
  BY <1>1
<1> DEFINE e(U) == IF U = {} THEN 0 ELSE g[Chosen(U)] + SumOver(g, U \ {Chosen(U)})
           h    == [U \in SUBSET T |-> e(U)]
<1>3. \A U \in SUBSET T : U # {} => Chosen(U) \in U
  BY DEF Chosen
<1>4. ASSUME NEW U \in SUBSET T, U # T
      PROVE  SumOver(g, U) = e(U)
  <2>1. IsSumOf(SumsOf(g, U), g, U)
    BY <1>2, <1>4
  <2>2. SumOver(g, U) = IF U = {} THEN 0 ELSE g[Chosen(U)] + SumsOf(g, U)[U \ {Chosen(U)}]
    BY <2>1, Zenon DEF IsSumOf, SumOver
  <2>3. CASE U = {}
    BY <2>2, <2>3
  <2>4. CASE U # {}
    <3>1. U \ {Chosen(U)} \in SUBSET U /\ U \ {Chosen(U)} \in SUBSET T /\ U \ {Chosen(U)} # T
      BY <1>3, <1>4, <2>4
    <3>2. IsFiniteSet(U)
      BY FS_Subset
    <3>3. SumsOf(g, U)[U \ {Chosen(U)}] = SumOver(g, U \ {Chosen(U)})
      BY <1>2, <2>1, <3>1, <3>2, SumsAgree DEF SumOver
    <3> QED BY <2>2, <2>4, <3>3
  <2> QED BY <2>3, <2>4
<1>5. IsSumOf(h, g, T)
  <2>1. ASSUME NEW U \in SUBSET T, U # {}
        PROVE  SumOver(g, U \ {Chosen(U)}) = h[U \ {Chosen(U)}]
    <3>1. U \ {Chosen(U)} \in SUBSET T /\ U \ {Chosen(U)} # T
      BY <1>3, <2>1
    <3>2. SumOver(g, U \ {Chosen(U)}) = e(U \ {Chosen(U)})
      BY <1>4, <3>1, Zenon
    <3> QED BY <3>1, <3>2
  <2>2. \A U \in SUBSET T : e(U) = IF U = {} THEN 0 ELSE g[Chosen(U)] + h[U \ {Chosen(U)}]
    BY <2>1, Zenon
  <2> HIDE DEF e
  <2> DEFINE f(U) == IF U = {} THEN 0 ELSE g[Chosen(U)] + h[U \ {Chosen(U)}]
  <2>3. h = [U \in SUBSET T |-> f(U)]
    BY <2>2, Zenon
  <2> QED BY <2>3, Zenon DEF IsSumOf
<1>6. IsSumOf(SumsOf(g, T), g, T)
  BY <1>5, Zenon DEF SumsOf
<1> QED BY <1>6

\* The recursion the fold follows.
LEMMA SumStep ==
    ASSUME NEW S, IsFiniteSet(S), NEW g
    PROVE  /\ SumOver(g, {}) = 0
           /\ S # {} => /\ Chosen(S) \in S
                        /\ SumOver(g, S) = g[Chosen(S)] + SumOver(g, S \ {Chosen(S)})
<1>1. IsSumOf(SumsOf(g, {}), g, {}) /\ IsSumOf(SumsOf(g, S), g, S)
  BY SumsExist
<1>2. SumOver(g, {}) = 0
  BY <1>1, Zenon DEF IsSumOf, SumOver
<1>3. ASSUME S # {}
      PROVE  Chosen(S) \in S /\ SumOver(g, S) = g[Chosen(S)] + SumOver(g, S \ {Chosen(S)})
  <2>1. Chosen(S) \in S
    BY <1>3 DEF Chosen
  <2>2. SumOver(g, S) = g[Chosen(S)] + SumsOf(g, S)[S \ {Chosen(S)}]
    BY <1>1, <1>3, Zenon DEF IsSumOf, SumOver
  <2>3. S \ {Chosen(S)} \in SUBSET S
    OBVIOUS
  <2>4. SumsOf(g, S)[S \ {Chosen(S)}] = SumOver(g, S \ {Chosen(S)})
    BY <1>1, <2>3, SumsExist, SumsAgree DEF SumOver
  <2> QED BY <2>1, <2>2, <2>4
<1> QED BY <1>2, <1>3

\* A sum of naturals is a natural.
LEMMA SumNat ==
    ASSUME NEW S, IsFiniteSet(S), NEW g, \A x \in S : g[x] \in Nat
    PROVE  \A T \in SUBSET S : SumOver(g, T) \in Nat
<1> DEFINE F == {T \in SUBSET S : SumOver(g, T) \notin Nat}
<1> SUFFICES ASSUME F # {} PROVE FALSE
  OBVIOUS
<1>1. PICK T \in F : \A U \in F : U \subseteq T => U = T
  <2>1. F \in SUBSET SUBSET S
    OBVIOUS
  <2> HIDE DEF F
  <2> QED BY <2>1, MinimalSet
<1>2. IsFiniteSet(T)
  BY FS_Subset
<1>3. T # {} /\ Chosen(T) \in T /\ SumOver(g, T) = g[Chosen(T)] + SumOver(g, T \ {Chosen(T)})
  <2>1. SumOver(g, {}) = 0 /\ SumOver(g, T) \notin Nat
    BY <1>2, SumStep, Zenon
  <2>2. T # {}
    BY <2>1
  <2> QED BY <1>2, <2>2, SumStep, Zenon
<1>4. SumOver(g, T \ {Chosen(T)}) \in Nat
  BY <1>1, <1>3
<1> QED BY <1>3, <1>4

\* The order in which the fold takes the elements does not matter.
LEMMA SumRemove ==
    ASSUME NEW S, IsFiniteSet(S), NEW g, \A x \in S : g[x] \in Nat
    PROVE  \A T \in SUBSET S : \A x \in T : SumOver(g, T) = g[x] + SumOver(g, T \ {x})
<1> DEFINE F == {T \in SUBSET S : \E x \in T : SumOver(g, T) # g[x] + SumOver(g, T \ {x})}
<1> SUFFICES ASSUME F # {} PROVE FALSE
  BY Zenon
<1>1. PICK T \in F : \A U \in F : U \subseteq T => U = T
  <2>1. F \in SUBSET SUBSET S
    OBVIOUS
  <2> HIDE DEF F
  <2> QED BY <2>1, MinimalSet
<1>2. PICK x \in T : SumOver(g, T) # g[x] + SumOver(g, T \ {x})
  OBVIOUS
<1> DEFINE c == Chosen(T)
<1>3. IsFiniteSet(T) /\ T # {}
  BY FS_Subset
<1>4. c \in T /\ SumOver(g, T) = g[c] + SumOver(g, T \ {c})
  BY <1>3, SumStep, Zenon
<1> HIDE DEF c
<1>5. x # c
  BY <1>2, <1>4
<1>6. SumOver(g, T \ {c}) = g[x] + SumOver(g, (T \ {c}) \ {x})
  BY <1>1, <1>4, <1>5, Zenon
<1>7. SumOver(g, T \ {x}) = g[c] + SumOver(g, (T \ {x}) \ {c})
  BY <1>1, <1>4, <1>5, Zenon
<1>8. SumOver(g, (T \ {c}) \ {x}) = SumOver(g, (T \ {x}) \ {c})
  <2>1. (T \ {c}) \ {x} = (T \ {x}) \ {c}
    OBVIOUS
  <2> QED BY <2>1, Zenon
<1>9. g[x] \in Nat /\ g[c] \in Nat /\ SumOver(g, (T \ {x}) \ {c}) \in Nat
  BY <1>4, SumNat
<1> QED BY <1>2, <1>4, <1>6, <1>7, <1>8, <1>9

\* Only the values on the set matter.
LEMMA SumSame ==
    ASSUME NEW S, IsFiniteSet(S), NEW g, NEW h, \A x \in S : g[x] = h[x]
    PROVE  \A T \in SUBSET S : SumOver(g, T) = SumOver(h, T)
<1> DEFINE F == {T \in SUBSET S : SumOver(g, T) # SumOver(h, T)}
<1> SUFFICES ASSUME F # {} PROVE FALSE
  OBVIOUS
<1>1. PICK T \in F : \A U \in F : U \subseteq T => U = T
  <2>1. F \in SUBSET SUBSET S
    OBVIOUS
  <2> HIDE DEF F
  <2> QED BY <2>1, MinimalSet
<1>2. IsFiniteSet(T)
  BY FS_Subset
<1>3. /\ T # {} /\ Chosen(T) \in T
      /\ SumOver(g, T) = g[Chosen(T)] + SumOver(g, T \ {Chosen(T)})
      /\ SumOver(h, T) = h[Chosen(T)] + SumOver(h, T \ {Chosen(T)})
  BY <1>2, SumStep, Zenon
<1>4. SumOver(g, T \ {Chosen(T)}) = SumOver(h, T \ {Chosen(T)})
  BY <1>1, <1>3
<1> QED BY <1>3, <1>4

\* What leaves the set leaves the sum.
LEMMA SumDifference ==
    ASSUME NEW S, IsFiniteSet(S), NEW g, \A x \in S : g[x] \in Nat
    PROVE  \A D \in SUBSET S : SumOver(g, S) = SumOver(g, D) + SumOver(g, S \ D)
<1> DEFINE F == {D \in SUBSET S : SumOver(g, S) # SumOver(g, D) + SumOver(g, S \ D)}
<1> SUFFICES ASSUME F # {} PROVE FALSE
  BY Zenon
<1>1. PICK D \in F : \A U \in F : U \subseteq D => U = D
  <2>1. F \in SUBSET SUBSET S
    OBVIOUS
  <2> HIDE DEF F
  <2> QED BY <2>1, MinimalSet
<1>2. SumOver(g, S) \in Nat /\ SumOver(g, {}) = 0 /\ S \ {} = S
  BY SumNat, SumStep, Zenon
<1>3. PICK x \in D : TRUE
  BY <1>2
<1> DEFINE U == D \ {x}
<1>4. SumOver(g, S) = SumOver(g, U) + SumOver(g, S \ U)
  BY <1>1
<1>5. SumOver(g, D) = g[x] + SumOver(g, U) /\ SumOver(g, S \ U) = g[x] + SumOver(g, (S \ U) \ {x})
  BY SumRemove
<1>6. SumOver(g, (S \ U) \ {x}) = SumOver(g, S \ D)
  <2>1. (S \ U) \ {x} = S \ D
    OBVIOUS
  <2> QED BY <2>1, Zenon
<1>7. g[x] \in Nat /\ SumOver(g, U) \in Nat /\ SumOver(g, S \ D) \in Nat
  BY SumNat
<1>8. SumOver(g, S) # SumOver(g, D) + SumOver(g, S \ D)
  OBVIOUS
<1> HIDE DEF F, U
<1> QED BY <1>4, <1>5, <1>6, <1>7, <1>8

-----------------------------------------------------------------------------
(* The same facts of TotalSize. *)

\* There are finitely many messages.
LEMMA FiniteMessages == IsFiniteSet(Messages)
BY FS_Interval, AsyncTcpAssumption DEF Messages

\* The byte total of a list is a number, and taking messages off the list takes
\* their bytes off the total (wd_async_tcp_pending_remove).
LEMMA TotalSizeFacts ==
    ASSUME NEW s, s.total_size \in [Messages -> Nat], NEW P \in SUBSET Messages, NEW D \in SUBSET P
    PROVE  /\ TotalSize(s, D) \in Nat /\ TotalSize(s, P) \in Nat
           /\ TotalSize(s, {}) = 0
           /\ TotalSize(s, P \ D) = TotalSize(s, P) - TotalSize(s, D)
<1> DEFINE g == s.total_size
<1>1. IsFiniteSet(P) /\ \A x \in P : g[x] \in Nat
  BY FiniteMessages, FS_Subset
<1>2. SumOver(g, P) \in Nat /\ SumOver(g, D) \in Nat /\ SumOver(g, P \ D) \in Nat
  BY <1>1, SumNat
<1>3. SumOver(g, P) = SumOver(g, D) + SumOver(g, P \ D)
  BY <1>1, SumDifference
<1>4. SumOver(g, {}) = 0
  BY <1>1, SumStep, Zenon
<1>5. /\ TotalSize(s, {}) = SumOver(g, {}) /\ TotalSize(s, P) = SumOver(g, P)
      /\ TotalSize(s, D) = SumOver(g, D) /\ TotalSize(s, P \ D) = SumOver(g, P \ D)
  BY TotalSizeIsSum
<1> QED BY <1>2, <1>3, <1>4, <1>5

\* A new message adds its size.
Joins(s, r, m) ==
    /\ m \in Messages \ s.pending /\ s.pending \in SUBSET Messages /\ r.pending = s.pending \cup {m}
    /\ s.total_size \in [Messages -> Nat] /\ r.total_size \in [Messages -> Nat]
    /\ \A k \in s.pending : r.total_size[k] = s.total_size[k]

\* A message that joins the list adds its bytes to the total
\* (wd_async_tcp_pending_add).
LEMMA TotalSizeAdd ==
    ASSUME NEW s, NEW r, NEW m, Joins(s, r, m)
    PROVE  TotalSize(r, r.pending) = TotalSize(s, s.pending) + r.total_size[m]
<1> USE DEF Joins
<1> DEFINE P == s.pending
           Q == r.pending
<1>1. IsFiniteSet(P) /\ IsFiniteSet(Q) /\ \A x \in Q : r.total_size[x] \in Nat
  BY FiniteMessages, FS_Subset
<1>2. SumOver(r.total_size, Q) = r.total_size[m] + SumOver(r.total_size, Q \ {m})
  BY <1>1, SumRemove
<1>3. SumOver(r.total_size, Q \ {m}) = SumOver(r.total_size, P)
  <2>1. Q \ {m} = P
    OBVIOUS
  <2> QED BY <2>1, Zenon
<1>4. SumOver(r.total_size, P) = SumOver(s.total_size, P)
  BY <1>1, SumSame
<1>5. SumOver(s.total_size, P) \in Nat
  BY <1>1, SumNat
<1>6. TotalSize(r, Q) = SumOver(r.total_size, Q) /\ TotalSize(s, P) = SumOver(s.total_size, P)
  BY TotalSizeIsSum
<1>7. r.total_size[m] \in Nat
  BY <1>1
<1> QED BY <1>2, <1>3, <1>4, <1>5, <1>6, <1>7

-----------------------------------------------------------------------------
(* The sender. *)

Outcomes == {"none", "sent", "dropped", "failed"}
Pins == Sockets \cup {NoSocket}

Sender ==
    [ring_ready : BOOLEAN, syscall_fallback : BOOLEAN, submit_retry_pending : BOOLEAN,
     inflight : Nat, pending : SUBSET Messages, pending_bytes : Nat, transport_failures : Nat,
     socket_pin : Pins, shut : BOOLEAN, taken : BOOLEAN, cqe : Int,
     type : [Messages -> Types \cup {"none"}], fd : [Messages -> Pins],
     total_size : [Messages -> Nat], bytes_sent : [Messages -> Nat],
     submitted : [Messages -> BOOLEAN], outcome : [Messages -> Outcomes], wire : [Messages -> Nat]]

\* Updates of one field.
LEMMA SetFields ==
    ASSUME NEW s \in Sender
    PROVE  /\ \A b \in BOOLEAN : [s EXCEPT !.taken = b] \in Sender
           /\ \A b \in BOOLEAN : [s EXCEPT !.submit_retry_pending = b] \in Sender
           /\ \A k \in Nat : [s EXCEPT !.inflight = k] \in Sender
           /\ \A r \in Int : [s EXCEPT !.cqe = r] \in Sender
           /\ \A f \in [Messages -> BOOLEAN] : [s EXCEPT !.submitted = f] \in Sender
           /\ \A f \in [Messages -> Nat] : [s EXCEPT !.bytes_sent = f] \in Sender
           /\ \A f \in [Messages -> Nat] : [s EXCEPT !.wire = f] \in Sender
           /\ \A f \in [Messages -> Nat] : [s EXCEPT !.total_size = f] \in Sender
           /\ \A f \in [Messages -> Types \cup {"none"}] : [s EXCEPT !.type = f] \in Sender
           /\ \A f \in [Messages -> Pins] : [s EXCEPT !.fd = f] \in Sender
           /\ \A P \in SUBSET Messages : [s EXCEPT !.pending = P] \in Sender
           /\ \A k \in Nat : [s EXCEPT !.pending_bytes = k] \in Sender
<1>1. \A b \in BOOLEAN : [s EXCEPT !.taken = b] \in Sender
  BY DEF Sender
<1>2. \A b \in BOOLEAN : [s EXCEPT !.submit_retry_pending = b] \in Sender
  BY DEF Sender
<1>3. \A k \in Nat : [s EXCEPT !.inflight = k] \in Sender
  BY DEF Sender
<1>4. \A r \in Int : [s EXCEPT !.cqe = r] \in Sender
  BY DEF Sender
<1>5. \A f \in [Messages -> BOOLEAN] : [s EXCEPT !.submitted = f] \in Sender
  BY DEF Sender
<1>6. \A f \in [Messages -> Nat] : [s EXCEPT !.bytes_sent = f] \in Sender
  BY DEF Sender
<1>7. \A f \in [Messages -> Nat] : [s EXCEPT !.wire = f] \in Sender
  BY DEF Sender
<1>8. \A f \in [Messages -> Nat] : [s EXCEPT !.total_size = f] \in Sender
  BY DEF Sender
<1>9. \A f \in [Messages -> Types \cup {"none"}] : [s EXCEPT !.type = f] \in Sender
  BY DEF Sender
<1>10. \A f \in [Messages -> Pins] : [s EXCEPT !.fd = f] \in Sender
  BY DEF Sender
<1>11. \A P \in SUBSET Messages : [s EXCEPT !.pending = P] \in Sender
  BY DEF Sender
<1>12. \A k \in Nat : [s EXCEPT !.pending_bytes = k] \in Sender
  BY DEF Sender
<1> QED BY <1>1, <1>2, <1>3, <1>4, <1>5, <1>6, <1>7, <1>8, <1>9, <1>10, <1>11, <1>12

\* The list: who is on it, what it weighs, and which socket it is for.
ListOK(s, n) ==
    /\ \A m \in Messages : m \in s.pending <=> m < n /\ s.outcome[m] = "none"
    /\ \A m \in Messages : m >= n => s.outcome[m] = "none" /\ s.bytes_sent[m] = 0 /\ s.wire[m] = 0
    /\ s.pending_bytes = TotalSize(s, s.pending)
    /\ MaxPendingBytes # 0 => s.pending_bytes <= MaxPendingBytes
    /\ \A m \in s.pending : s.fd[m] = s.socket_pin

\* The kernel's hold: the head and no other, over a ring that is there; an
\* entry it took or refused is a submitted one, a completion that of one it took.
HoldOK(s) ==
    /\ \A m \in Messages : s.submitted[m] =>
          m \in s.pending /\ (\A k \in s.pending : m <= k) /\ s.inflight = 1 /\ s.ring_ready
    /\ s.inflight = 0 \/ \E m \in Messages : s.submitted[m]
    /\ s.cqe # NoResult => s.taken
    /\ s.taken \/ s.submit_retry_pending => s.inflight # 0

\* The bytes of a listed message that are on the stream are those the sender
\* counts and those of a completion it has yet to reap; nothing follows a
\* listed message.
BytesOK(s) ==
    /\ s.cqe \in {AGAIN, UNSUPPORTED, ERROR} \cup Nat
    /\ \A m \in s.pending :
          /\ s.wire[m] = s.bytes_sent[m] + IF s.submitted[m] /\ s.cqe > 0 THEN s.cqe ELSE 0
          /\ s.wire[m] <= s.total_size[m]
          /\ \A k \in Messages : m < k => s.wire[k] = 0
    /\ \A m \in Messages :
          /\ s.outcome[m] = "sent" => s.wire[m] = s.total_size[m]
          /\ s.outcome[m] = "dropped" => s.wire[m] = 0

Good(s, n) == s \in Sender /\ ListOK(s, n) /\ HoldOK(s) /\ BytesOK(s)

\* Outside a teardown's last step a sender can make progress: the ring or the
\* fallback is there.
TcpInv ==
    /\ next_id \in Nat \ {0}
    /\ Good(tx, next_id)
    /\ phase # "closed" => Available(tx)
    /\ phase = "closed" => tx.pending = {}

\* No message that has been reported is reported again.
Once(s, r) == \A m \in Messages : s.outcome[m] # "none" => r.outcome[m] = s.outcome[m]

\* Reports that survive two steps survive both.
LEMMA OnceOnce == \A s, q, r : Once(s, q) /\ Once(q, r) => Once(s, r)
BY DEF Once

\* The byte total depends on the sizes only.
LEMMA TotalSizeSame ==
    ASSUME NEW s, NEW r, r.total_size = s.total_size, NEW D
    PROVE  TotalSize(r, D) = TotalSize(s, D)
BY TotalSizeIsSum

\* A list that is not empty has an oldest message.
LEMMA HeadIsOldest ==
    ASSUME NEW s, s.pending \in SUBSET Messages, s.pending # {}
    PROVE  PendingHead(s) \in s.pending /\ \A k \in s.pending : PendingHead(s) <= k
<1> DEFINE F == {1 .. m : m \in s.pending}
<1>1. Messages \subseteq Nat /\ \A m \in Messages : m \in 1 .. m /\ 1 .. m \subseteq Messages
  BY AsyncTcpAssumption DEF Messages
<1>2. PICK T \in F : \A U \in F : U \subseteq T => U = T
  <2>1. F \in SUBSET SUBSET Messages /\ F # {}
    BY <1>1, Zenon
  <2> HIDE DEF F
  <2> QED BY <2>1, FiniteMessages, MinimalSet
<1>3. PICK m \in s.pending : T = 1 .. m
  OBVIOUS
<1>4. ASSUME NEW k \in s.pending, ~(m <= k)
      PROVE  FALSE
  <2> k \in Nat /\ m \in Nat /\ m \in 1 .. m
    BY <1>1, Zenon
  <2>1. 1 .. k \subseteq 1 .. m /\ m \in 1 .. m /\ m \notin 1 .. k
    BY <1>4
  <2>2. 1 .. k = 1 .. m
    BY <1>2, <1>3, <2>1, Zenon
  <2> QED BY <2>1, <2>2
<1>5. \E h \in s.pending : \A k \in s.pending : h <= k
  BY <1>4
<1> QED BY <1>5 DEF PendingHead

\* What pending_remove does to the sender.
Removed(s, r, D, outcome) ==
    /\ r.pending = s.pending \ D
    /\ r.pending_bytes = TotalSize(r, r.pending) /\ r.pending_bytes <= s.pending_bytes
    /\ \A m \in Messages : r.outcome[m] = IF m \in D THEN outcome ELSE s.outcome[m]
    /\ r.ring_ready = s.ring_ready /\ r.syscall_fallback = s.syscall_fallback
    /\ r.submit_retry_pending = s.submit_retry_pending
    /\ r.inflight = s.inflight /\ r.taken = s.taken /\ r.cqe = s.cqe /\ r.shut = s.shut
    /\ r.socket_pin = s.socket_pin /\ r.fd = s.fd /\ r.total_size = s.total_size
    /\ r.bytes_sent = s.bytes_sent /\ r.submitted = s.submitted /\ r.wire = s.wire

\* Messages are removed from the list with their bytes, and reported; nothing
\* else of the sender changes.
LEMMA PendingRemoveFields ==
    ASSUME NEW s \in Sender, s.pending_bytes = TotalSize(s, s.pending),
           NEW D \in SUBSET s.pending, NEW outcome \in Outcomes
    PROVE  /\ PendingRemove(s, D, outcome) \in Sender
           /\ Removed(s, PendingRemove(s, D, outcome), D, outcome)
<1> DEFINE bytes == TotalSize(s, D)
           r     == PendingRemove(s, D, outcome)
<1>1. /\ s.pending \in SUBSET Messages /\ s.total_size \in [Messages -> Nat]
      /\ s.outcome \in [Messages -> Outcomes]
  BY DEF Sender
<1>2. /\ bytes \in Nat /\ s.pending_bytes \in Nat
      /\ TotalSize(s, s.pending \ D) = s.pending_bytes - bytes
      /\ TotalSize(s, s.pending \ D) \in Nat
  <2>1. s.pending \ D \in SUBSET s.pending
    OBVIOUS
  <2> QED BY <1>1, <2>1, TotalSizeFacts
<1> HIDE DEF bytes
<1>3. r = [s EXCEPT !.pending = s.pending \ D, !.pending_bytes = s.pending_bytes - bytes,
                    !.outcome = [m \in Messages |-> IF m \in D THEN outcome ELSE s.outcome[m]]]
  <2>1. (IF s.pending_bytes >= bytes THEN s.pending_bytes - bytes ELSE 0) = s.pending_bytes - bytes
    BY <1>2
  <2> QED BY <2>1, Zenon DEF PendingRemove, bytes
<1>4. s.pending_bytes - bytes \in Nat /\ s.pending_bytes - bytes <= s.pending_bytes
  BY <1>2
<1>5. [m \in Messages |-> IF m \in D THEN outcome ELSE s.outcome[m]] \in [Messages -> Outcomes]
  BY <1>1
<1> HIDE DEF r
<1>6. r \in Sender
  BY <1>1, <1>3, <1>4, <1>5, Zenon DEF Sender
<1>7. r.total_size = s.total_size /\ r.pending = s.pending \ D /\ r.pending_bytes = s.pending_bytes - bytes
  BY <1>3 DEF Sender
<1>8. r.pending_bytes = TotalSize(r, r.pending)
  BY <1>2, <1>7, TotalSizeSame
<1>9. \A m \in Messages : r.outcome[m] = IF m \in D THEN outcome ELSE s.outcome[m]
  BY <1>3 DEF Sender
<1>10. Removed(s, r, D, outcome)
  BY <1>3, <1>4, <1>7, <1>8, <1>9 DEF Removed, Sender
<1> QED BY <1>6, <1>10 DEF r

\* What every helper leaves: a good sender that can go on, with the reports of
\* the one it was given.
Serves(s, n, r) == Good(r, n) /\ Available(r) /\ Once(s, r)

\* Helpers may be called one after the other.
LEMMA ServesServes ==
    ASSUME NEW s, NEW q, NEW r, NEW n, Serves(s, n, q), Serves(q, n, r)
    PROVE  Serves(s, n, r)
BY OnceOnce DEF Serves

\* Removing messages the kernel does not hold.
LEMMA RemoveGood ==
    ASSUME NEW n \in Nat, NEW s, Good(s, n), NEW D \in SUBSET s.pending, NEW outcome \in Outcomes \ {"none"},
           \A m \in D : ~s.submitted[m],
           outcome = "sent" => \A m \in D : s.wire[m] = s.total_size[m],
           outcome = "dropped" => \A m \in D : s.wire[m] = 0
    PROVE  LET r == PendingRemove(s, D, outcome)
           IN  Good(r, n) /\ Removed(s, r, D, outcome) /\ Once(s, r)
<1> DEFINE r == PendingRemove(s, D, outcome)
<1>1. s \in Sender /\ ListOK(s, n) /\ HoldOK(s) /\ BytesOK(s) /\ s.pending_bytes = TotalSize(s, s.pending)
  BY DEF Good, ListOK
<1>2. r \in Sender /\ Removed(s, r, D, outcome)
  BY <1>1, PendingRemoveFields
<1> HIDE DEF r
<1>3. s.pending \in SUBSET Messages /\ s.pending_bytes \in Nat /\ r.pending_bytes \in Nat
  BY <1>1, <1>2 DEF Sender
<1>4. ListOK(r, n)
  <2>1. \A m \in Messages : m \in r.pending <=> m < n /\ r.outcome[m] = "none"
    BY <1>1, <1>2, <1>3 DEF ListOK, Removed
  <2>2. \A m \in Messages : m >= n => r.outcome[m] = "none" /\ r.bytes_sent[m] = 0 /\ r.wire[m] = 0
    <3>1. \A m \in Messages : m >= n => m \notin D
      BY <1>1, <1>3, AsyncTcpAssumption DEF ListOK, Messages
    <3> QED BY <1>1, <1>2, <3>1 DEF ListOK, Removed
  <2>3. MaxPendingBytes # 0 => r.pending_bytes <= MaxPendingBytes
    BY <1>1, <1>2, <1>3, AsyncTcpAssumption DEF ListOK, Removed
  <2>4. \A m \in r.pending : r.fd[m] = r.socket_pin
    BY <1>1, <1>2 DEF ListOK, Removed
  <2> QED BY <1>2, <2>1, <2>2, <2>3, <2>4 DEF ListOK, Removed
<1>5. HoldOK(r)
  BY <1>1, <1>2 DEF HoldOK, Removed
<1>6. BytesOK(r)
  BY <1>1, <1>2 DEF BytesOK, Removed
<1>7. Once(s, r)
  BY <1>1, <1>2 DEF Once, Removed, ListOK
<1> QED BY <1>2, <1>4, <1>5, <1>6, <1>7 DEF Good, r

\* Whole sends of the oldest messages.
LEMMA SentWholeGood ==
    ASSUME NEW n \in Nat, NEW s, Good(s, n), s.inflight = 0, NEW D \in Prefixes(s)
    PROVE  LET r == SentWhole(s, D)
           IN  /\ Good(r, n) /\ Once(s, r) /\ r.inflight = 0
               /\ Available(s) => Available(r)
<1> DEFINE q == [s EXCEPT !.bytes_sent = [m \in Messages |-> IF m \in D THEN s.total_size[m] ELSE s.bytes_sent[m]],
                          !.wire = [m \in Messages |-> IF m \in D THEN s.total_size[m] ELSE s.wire[m]]]
           r == PendingRemove(q, D, "sent")
<1>1. s \in Sender /\ ListOK(s, n) /\ HoldOK(s) /\ BytesOK(s)
  BY DEF Good
<1>2. D \in SUBSET s.pending /\ \A d \in D : \A k \in s.pending \ D : d < k
  BY DEF Prefixes
<1>3. SentWhole(s, D) = r
  BY Zenon DEF SentWhole
<1>4. /\ q \in Sender
      /\ q.pending = s.pending /\ q.pending_bytes = s.pending_bytes /\ q.outcome = s.outcome
      /\ q.ring_ready = s.ring_ready /\ q.syscall_fallback = s.syscall_fallback
      /\ q.inflight = s.inflight /\ q.taken = s.taken /\ q.cqe = s.cqe
      /\ q.submit_retry_pending = s.submit_retry_pending
      /\ q.socket_pin = s.socket_pin /\ q.fd = s.fd /\ q.total_size = s.total_size
      /\ q.submitted = s.submitted
      /\ \A m \in Messages : /\ q.bytes_sent[m] = IF m \in D THEN s.total_size[m] ELSE s.bytes_sent[m]
                             /\ q.wire[m] = IF m \in D THEN s.total_size[m] ELSE s.wire[m]
  BY <1>1, Zenon DEF Sender
<1> HIDE DEF q
<1>5. q.pending_bytes = TotalSize(q, q.pending)
  BY <1>1, <1>4, TotalSizeSame DEF ListOK
<1>6. r \in Sender /\ Removed(q, r, D, "sent")
  BY <1>2, <1>4, <1>5, PendingRemoveFields DEF Outcomes
<1> HIDE DEF r
<1>7. s.pending \in SUBSET Messages /\ s.pending_bytes \in Nat /\ r.pending_bytes \in Nat
  BY <1>1, <1>6 DEF Sender
<1>8. \A m \in Messages : m >= n => m \notin D
  BY <1>1, <1>2, AsyncTcpAssumption DEF ListOK, Messages
<1>9. ListOK(r, n)
  <2>1. \A m \in Messages : m \in r.pending <=> m < n /\ r.outcome[m] = "none"
    BY <1>1, <1>2, <1>4, <1>6, <1>7 DEF ListOK, Removed
  <2>2. \A m \in Messages : m >= n => r.outcome[m] = "none" /\ r.bytes_sent[m] = 0 /\ r.wire[m] = 0
    BY <1>1, <1>4, <1>6, <1>8 DEF ListOK, Removed
  <2>3. MaxPendingBytes # 0 => r.pending_bytes <= MaxPendingBytes
    BY <1>1, <1>4, <1>6, <1>7, AsyncTcpAssumption DEF ListOK, Removed
  <2>4. \A m \in r.pending : r.fd[m] = r.socket_pin
    BY <1>1, <1>4, <1>6 DEF ListOK, Removed
  <2> QED BY <1>6, <2>1, <2>2, <2>3, <2>4 DEF ListOK, Removed
<1>10. HoldOK(r)
  BY <1>1, <1>4, <1>6 DEF HoldOK, Removed
<1>11. BytesOK(r)
  <2>1. \A m \in Messages : ~s.submitted[m]
    BY <1>1 DEF HoldOK
  <2>2. ASSUME NEW m \in r.pending
        PROVE  /\ r.wire[m] = r.bytes_sent[m] + IF r.submitted[m] /\ r.cqe > 0 THEN r.cqe ELSE 0
               /\ r.wire[m] <= r.total_size[m]
    <3>1. m \in Messages /\ m \in s.pending /\ m \notin D
      BY <1>4, <1>6, <1>7, <2>2 DEF Removed
    <3> QED BY <1>1, <1>4, <1>6, <2>1, <3>1 DEF BytesOK, Removed
  <2>3. ASSUME NEW m \in r.pending, NEW k \in Messages, m < k
        PROVE  r.wire[k] = 0
    <3>1. m \in Messages /\ m \in s.pending /\ m \notin D
      BY <1>4, <1>6, <1>7, <2>3 DEF Removed
    <3>2. k \notin D
      BY <1>2, <2>3, <3>1, AsyncTcpAssumption DEF Messages
    <3> QED BY <1>1, <1>4, <1>6, <2>3, <3>1, <3>2 DEF BytesOK, Removed
  <2>4. ASSUME NEW m \in Messages
        PROVE  /\ r.outcome[m] = "sent" => r.wire[m] = r.total_size[m]
               /\ r.outcome[m] = "dropped" => r.wire[m] = 0
    BY <1>1, <1>4, <1>6 DEF BytesOK, Removed
  <2> QED BY <1>1, <1>4, <1>6, <2>2, <2>3, <2>4 DEF BytesOK, Removed
<1>12. Once(s, r)
  BY <1>1, <1>2, <1>4, <1>6, <1>7 DEF Once, Removed, ListOK
<1>13. r.inflight = 0 /\ (Available(s) => Available(r))
  BY <1>4, <1>6 DEF Removed, Available
<1> QED BY <1>3, <1>6, <1>9, <1>10, <1>11, <1>12, <1>13 DEF Good

\* Two senders that differ only in what Good does not speak of.
Alike(s, r) ==
    /\ r.pending = s.pending /\ r.pending_bytes = s.pending_bytes /\ r.outcome = s.outcome
    /\ r.inflight = s.inflight /\ r.taken = s.taken /\ r.cqe = s.cqe
    /\ r.submit_retry_pending => s.submit_retry_pending
    /\ r.socket_pin = s.socket_pin /\ r.fd = s.fd /\ r.total_size = s.total_size
    /\ r.bytes_sent = s.bytes_sent /\ r.submitted = s.submitted /\ r.wire = s.wire

\* A sender with the same list, reports and bytes on the wire is as good.
LEMMA AlikeGood ==
    ASSUME NEW n \in Nat, NEW s, Good(s, n), NEW r \in Sender, Alike(s, r),
           r.ring_ready = s.ring_ready \/ s.inflight = 0
    PROVE  Good(r, n) /\ Once(s, r)
<1>1. s \in Sender /\ ListOK(s, n) /\ HoldOK(s) /\ BytesOK(s)
  BY DEF Good
<1>2. TotalSize(r, r.pending) = TotalSize(s, s.pending)
  BY TotalSizeSame DEF Alike
<1>3. ListOK(r, n)
  BY <1>1, <1>2 DEF ListOK, Alike
<1>4. HoldOK(r)
  BY <1>1 DEF HoldOK, Alike
<1>5. BytesOK(r)
  BY <1>1 DEF BytesOK, Alike
<1>6. Once(s, r)
  BY DEF Once, Alike
<1> QED BY <1>3, <1>4, <1>5, <1>6 DEF Good

\* A failed send removes its message.
LEMMA FailureGood ==
    ASSUME NEW n \in Nat, NEW s, Good(s, n), NEW m \in s.pending, ~s.submitted[m]
    PROVE  LET r == RecordTransportFailure(s, m)
           IN  /\ Good(r, n) /\ Once(s, r) /\ r.inflight = s.inflight
               /\ Available(s) => Available(r)
<1> DEFINE q == [s EXCEPT !.transport_failures = @ + 1]
           r == PendingRemove(q, {m}, "failed")
<1>1. s \in Sender
  BY DEF Good
<1>2. /\ q \in Sender /\ Alike(s, q) /\ q.ring_ready = s.ring_ready
      /\ q.syscall_fallback = s.syscall_fallback
  BY <1>1 DEF Sender, Alike
<1>3. RecordTransportFailure(s, m) = r
  BY Zenon DEF RecordTransportFailure
<1> HIDE DEF q
<1>4. Good(q, n) /\ Once(s, q)
  BY <1>2, AlikeGood
<1>5. {m} \in SUBSET q.pending /\ \A k \in {m} : ~q.submitted[k]
  BY <1>2 DEF Alike
<1>6. Good(r, n) /\ Removed(q, r, {m}, "failed") /\ Once(q, r)
  BY <1>4, <1>5, RemoveGood DEF Outcomes
<1> HIDE DEF r
<1>7. r.inflight = s.inflight /\ (Available(s) => Available(r))
  BY <1>2, <1>6 DEF Removed, Alike, Available
<1> QED BY <1>3, <1>4, <1>6, <1>7, OnceOnce

\* A short send of the head.
LEMMA ShortSendGood ==
    ASSUME NEW n \in Nat, NEW s, Good(s, n), s.inflight = 0, NEW m \in s.pending, \A k \in s.pending : m <= k,
           NEW b \in 1 .. (Remaining(s, m) - 1)
    PROVE  Good(ShortSend(s, m, b), n) /\ Once(s, ShortSend(s, m, b)) /\ (Available(s) => Available(ShortSend(s, m, b)))
<1> DEFINE r == ShortSend(s, m, b)
<1>1. s \in Sender /\ ListOK(s, n) /\ HoldOK(s) /\ BytesOK(s)
  BY DEF Good
<1>2. /\ m \in Messages /\ m \in Nat /\ s.pending \in SUBSET Messages
      /\ s.bytes_sent[m] \in Nat /\ s.wire[m] \in Nat /\ s.total_size[m] \in Nat
      /\ b \in Nat /\ b < s.total_size[m] - s.bytes_sent[m]
  <2>1. m \in Messages /\ m \in Nat /\ s.pending \in SUBSET Messages
    BY <1>1, AsyncTcpAssumption DEF Sender, Messages
  <2>2. s.bytes_sent[m] \in Nat /\ s.wire[m] \in Nat /\ s.total_size[m] \in Nat
    BY <1>1, <2>1 DEF Sender
  <2> QED BY <2>1, <2>2 DEF Remaining
<1>3. /\ r \in Sender
      /\ r.pending = s.pending /\ r.pending_bytes = s.pending_bytes /\ r.outcome = s.outcome
      /\ r.ring_ready = s.ring_ready /\ r.syscall_fallback = s.syscall_fallback
      /\ r.inflight = s.inflight /\ r.taken = s.taken /\ r.cqe = s.cqe
      /\ r.submit_retry_pending = s.submit_retry_pending
      /\ r.socket_pin = s.socket_pin /\ r.fd = s.fd /\ r.total_size = s.total_size
      /\ r.submitted = s.submitted
      /\ \A k \in Messages : /\ r.bytes_sent[k] = IF k = m THEN s.bytes_sent[m] + b ELSE s.bytes_sent[k]
                             /\ r.wire[k] = IF k = m THEN s.wire[m] + b ELSE s.wire[k]
  <2> DEFINE sent == [s.bytes_sent EXCEPT ![m] = s.bytes_sent[m] + b]
             out  == [s.wire EXCEPT ![m] = s.wire[m] + b]
  <2>1. r = [s EXCEPT !.bytes_sent = sent, !.wire = out]
    BY <1>1 DEF ShortSend, Sender
  <2>2. s.bytes_sent \in [Messages -> Nat] /\ s.wire \in [Messages -> Nat]
    BY <1>1 DEF Sender
  <2>3. /\ sent \in [Messages -> Nat] /\ out \in [Messages -> Nat]
        /\ \A k \in Messages : /\ sent[k] = IF k = m THEN s.bytes_sent[m] + b ELSE s.bytes_sent[k]
                               /\ out[k] = IF k = m THEN s.wire[m] + b ELSE s.wire[k]
    BY <1>2, <2>2
  <2> HIDE DEF r, sent, out
  <2> QED BY <1>1, <2>1, <2>3, Zenon DEF Sender
<1> HIDE DEF r
<1>4. TotalSize(r, r.pending) = TotalSize(s, s.pending)
  BY <1>3, TotalSizeSame
<1>5. m < n /\ s.outcome[m] = "none"
  BY <1>1, <1>2 DEF ListOK
<1>6. ListOK(r, n)
  <2>1. \A k \in Messages : k >= n => r.outcome[k] = "none" /\ r.bytes_sent[k] = 0 /\ r.wire[k] = 0
    BY <1>1, <1>2, <1>3, <1>5, AsyncTcpAssumption DEF ListOK, Messages
  <2> QED BY <1>1, <1>3, <1>4, <2>1 DEF ListOK
<1>7. HoldOK(r)
  BY <1>1, <1>3 DEF HoldOK
<1>8. \A k \in Messages : ~s.submitted[k]
  BY <1>1 DEF HoldOK
<1>9. BytesOK(r)
  <2>1. ASSUME NEW k \in r.pending
        PROVE  /\ r.wire[k] = r.bytes_sent[k] + IF r.submitted[k] /\ r.cqe > 0 THEN r.cqe ELSE 0
               /\ r.wire[k] <= r.total_size[k]
    BY <1>1, <1>2, <1>3, <1>8 DEF BytesOK, Sender
  <2>2. ASSUME NEW j \in r.pending, NEW k \in Messages, j < k
        PROVE  r.wire[k] = 0
    <3>1. k # m
      BY <1>2, <1>3, <2>2, AsyncTcpAssumption DEF Messages
    <3> QED BY <1>1, <1>3, <2>2, <3>1 DEF BytesOK
  <2>3. \A k \in Messages : /\ r.outcome[k] = "sent" => r.wire[k] = r.total_size[k]
                            /\ r.outcome[k] = "dropped" => r.wire[k] = 0
    BY <1>1, <1>3, <1>5 DEF BytesOK
  <2> QED BY <1>1, <1>3, <2>1, <2>2, <2>3 DEF BytesOK
<1>10. Once(s, r) /\ (Available(s) => Available(r))
  BY <1>3 DEF Once, Available
<1> QED BY <1>3, <1>6, <1>7, <1>9, <1>10 DEF Good, r

\* The burst of direct sends of the syscall fallback keeps the sender good.
LEMMA AfterWholeSendsGood ==
    ASSUME NEW n \in Nat, NEW s, Good(s, n), s.inflight = 0, Available(s), NEW k, NEW r \in AfterWholeSends(s, k)
    PROVE  Serves(s, n, r)
<1>1. Serves(s, n, s)
  BY DEF Serves, Once
<1>2. CASE s.pending = {} \/ k = SyscallBurst
  BY <1>1, <1>2 DEF AfterWholeSends
<1>3. CASE ~(s.pending = {} \/ k = SyscallBurst)
  <2> DEFINE m == PendingHead(s)
  <2>1. s.pending \in SUBSET Messages /\ \A j \in Messages : ~s.submitted[j]
    BY DEF Good, Sender, HoldOK
  <2>2. m \in s.pending /\ \A j \in s.pending : m <= j
    BY <1>3, <2>1, HeadIsOldest
  <2>3. \/ r = RecordTransportFailure(s, m)
        \/ r = s
        \/ \E b \in 1 .. (Remaining(s, m) - 1) : r = ShortSend(s, m, b)
    BY <1>3 DEF AfterWholeSends
  <2> HIDE DEF m
  <2>4. CASE r = RecordTransportFailure(s, m)
    BY <2>1, <2>2, <2>4, FailureGood DEF Serves
  <2>5. ASSUME NEW b \in 1 .. (Remaining(s, m) - 1), r = ShortSend(s, m, b)
        PROVE  Serves(s, n, r)
    BY <2>2, <2>5, ShortSendGood DEF Serves
  <2> QED BY <1>1, <2>3, <2>4, <2>5
<1> QED BY <1>2, <1>3

\* One round of the syscall fallback keeps the sender good.
LEMMA ProgressGood ==
    ASSUME NEW n \in Nat, NEW s, Good(s, n), Available(s), NEW r \in ProgressSyscallFallback(s)
    PROVE  Serves(s, n, r)
<1>1. CASE ~s.syscall_fallback \/ s.inflight # 0
  BY <1>1 DEF ProgressSyscallFallback, Serves, Once
<1>2. CASE ~(~s.syscall_fallback \/ s.inflight # 0)
  <2>1. PICK D \in Prefixes(s) : r \in AfterWholeSends(SentWhole(s, D), Cardinality(D))
    BY <1>2 DEF ProgressSyscallFallback
  <2> DEFINE q == SentWhole(s, D)
  <2>2. Good(q, n) /\ Once(s, q) /\ q.inflight = 0 /\ Available(q)
    BY <1>2, SentWholeGood
  <2> HIDE DEF q
  <2>3. Serves(q, n, r)
    BY <2>1, <2>2, AfterWholeSendsGood DEF q
  <2> QED BY <2>2, <2>3, ServesServes DEF Serves
<1> QED BY <1>1, <1>2

\* Giving up an idle ring keeps the sender good.
LEMMA RetireGood ==
    ASSUME NEW n \in Nat, NEW s, Good(s, n), s.inflight = 0
    PROVE  Serves(s, n, RetireRing(s))
<1> DEFINE r == RetireRing(s)
<1>1. s \in Sender
  BY DEF Good
<1>2. r \in Sender /\ Alike(s, r) /\ r.syscall_fallback
  BY <1>1, Zenon DEF RetireRing, Sender, Alike
<1> HIDE DEF r
<1>3. Good(r, n) /\ Once(s, r)
  BY <1>2, AlikeGood
<1> QED BY <1>2, <1>3 DEF Serves, Available, r

\* Handing the head to the ring.
LEMMA SubmitGood ==
    ASSUME NEW n \in Nat, NEW s, Good(s, n), s.inflight = 0, s.ring_ready,
           NEW m \in s.pending, \A k \in s.pending : m <= k,
           NEW r \in SubmitMessage(s, m)
    PROVE  Serves(s, n, r)
<1> DEFINE p == [s EXCEPT !.submitted[m] = TRUE, !.inflight = @ + 1]
<1>1. s \in Sender /\ ListOK(s, n) /\ HoldOK(s) /\ BytesOK(s)
  BY DEF Good
<1>2. m \in Messages /\ s.pending \in SUBSET Messages /\ \A k \in Messages : ~s.submitted[k]
  BY <1>1 DEF Sender, HoldOK
<1>3. ~s.taken /\ s.cqe = 0
  BY <1>1 DEF HoldOK, NoResult
<1>4. CASE r = RetireRing(s)
  BY <1>4, RetireGood
<1>5. CASE r = [p EXCEPT !.submit_retry_pending = TRUE] \/ r = [p EXCEPT !.taken = TRUE]
  <2>1. /\ p \in Sender /\ p.inflight = 1
        /\ \A k \in Messages : p.submitted[k] <=> k = m
        /\ p.pending = s.pending /\ p.pending_bytes = s.pending_bytes /\ p.outcome = s.outcome
        /\ p.ring_ready = s.ring_ready /\ p.cqe = s.cqe /\ p.taken = s.taken
        /\ p.socket_pin = s.socket_pin /\ p.fd = s.fd /\ p.total_size = s.total_size
        /\ p.bytes_sent = s.bytes_sent /\ p.wire = s.wire
    <3> DEFINE held == [s.submitted EXCEPT ![m] = TRUE]
    <3>1. p = [s EXCEPT !.submitted = held, !.inflight = 1]
      BY <1>1 DEF Sender
    <3>2. held \in [Messages -> BOOLEAN] /\ \A k \in Messages : held[k] <=> k = m
      BY <1>1, <1>2 DEF Sender
    <3> HIDE DEF p, held
    <3> QED BY <1>1, <3>1, <3>2, Zenon DEF Sender
  <2> HIDE DEF p
  <2>2. /\ r \in Sender /\ r.inflight = 1
        /\ \A k \in Messages : r.submitted[k] <=> k = m
        /\ r.pending = s.pending /\ r.pending_bytes = s.pending_bytes /\ r.outcome = s.outcome
        /\ r.ring_ready /\ r.cqe = 0
        /\ r.socket_pin = s.socket_pin /\ r.fd = s.fd /\ r.total_size = s.total_size
        /\ r.bytes_sent = s.bytes_sent /\ r.wire = s.wire
    <3>3. p \in Sender /\ TRUE \in BOOLEAN
      BY <2>1
    <3>1. r \in Sender
      BY <1>5, <3>3, SetFields, Zenon
    <3>2. /\ r.inflight = p.inflight /\ r.submitted = p.submitted
          /\ r.pending = p.pending /\ r.pending_bytes = p.pending_bytes /\ r.outcome = p.outcome
          /\ r.ring_ready = p.ring_ready /\ r.cqe = p.cqe
          /\ r.socket_pin = p.socket_pin /\ r.fd = p.fd /\ r.total_size = p.total_size
          /\ r.bytes_sent = p.bytes_sent /\ r.wire = p.wire
      <4>1. CASE r = [p EXCEPT !.submit_retry_pending = TRUE]
        BY <4>1, <2>1, Zenon DEF Sender
      <4>2. CASE r = [p EXCEPT !.taken = TRUE]
        BY <4>2, <2>1, Zenon DEF Sender
      <4> QED BY <1>5, <4>1, <4>2
    <3> QED BY <1>3, <2>1, <3>1, <3>2
  <2>3. TotalSize(r, r.pending) = TotalSize(s, s.pending)
    BY <2>2, TotalSizeSame
  <2>4. ListOK(r, n)
    BY <1>1, <2>2, <2>3 DEF ListOK
  <2>5. HoldOK(r)
    BY <1>2, <2>2 DEF HoldOK, NoResult
  <2>6. BytesOK(r)
    BY <1>1, <1>2, <1>3, <2>2 DEF BytesOK
  <2>7. Once(s, r) /\ Available(r)
    BY <2>2 DEF Once, Available
  <2> QED BY <2>2, <2>4, <2>5, <2>6, <2>7 DEF Good, Serves
<1> QED BY <1>4, <1>5, Zenon DEF SubmitMessage

\* Starting the oldest message, through the ring or by a direct send, keeps the
\* sender good.
LEMMA TryStartGood ==
    ASSUME NEW n \in Nat, NEW s, Good(s, n), Available(s), NEW r \in TryStartHead(s)
    PROVE  Serves(s, n, r)
<1>1. CASE s.inflight # 0 \/ s.pending = {}
  BY <1>1 DEF TryStartHead, Serves, Once
<1>2. CASE ~(s.inflight # 0 \/ s.pending = {}) /\ s.syscall_fallback
  BY <1>2, ProgressGood DEF TryStartHead
<1>3. CASE ~(s.inflight # 0 \/ s.pending = {}) /\ ~s.syscall_fallback
  <2>1. r \in SubmitMessage(s, PendingHead(s))
    BY <1>3 DEF TryStartHead
  <2>2. s.pending \in SUBSET Messages
    BY DEF Good, Sender
  <2>3. PendingHead(s) \in s.pending /\ \A k \in s.pending : PendingHead(s) <= k
    BY <1>3, <2>2, HeadIsOldest
  <2>4. s.ring_ready /\ s.inflight = 0
    BY <1>3 DEF Available
  <2> QED BY <2>1, <2>3, <2>4, SubmitGood
<1> QED BY <1>1, <1>2, <1>3

\* The head after its completion has been taken off the ring: the sender counts
\* the bytes it reports.
LEMMA ReapedGood ==
    ASSUME NEW n \in Nat, NEW s, Good(s, n), Available(s), s.cqe # NoResult, ~s.submit_retry_pending,
           NEW m \in s.pending, s.submitted[m]
    PROVE  LET s1 == [s EXCEPT !.cqe = NoResult, !.taken = FALSE,
                               !.submitted[m] = FALSE, !.inflight = @ - 1]
               q  == IF s.cqe > 0 THEN [s1 EXCEPT !.bytes_sent[m] = @ + s.cqe] ELSE s1
           IN  /\ Serves(s, n, q) /\ q.inflight = 0 /\ q.ring_ready
               /\ q.pending = s.pending /\ (\A k \in q.pending : m <= k) /\ ~q.submitted[m]
               /\ s.cqe > 0 => /\ q.wire[m] = q.total_size[m] - (Remaining(s, m) - s.cqe)
                               /\ s.cqe <= Remaining(s, m)
<1> DEFINE s1 == [s EXCEPT !.cqe = NoResult, !.taken = FALSE,
                           !.submitted[m] = FALSE, !.inflight = @ - 1]
           s2 == [s1 EXCEPT !.bytes_sent[m] = @ + s.cqe]
           q  == IF s.cqe > 0 THEN s2 ELSE s1
<1>1. s \in Sender /\ ListOK(s, n) /\ HoldOK(s) /\ BytesOK(s)
  BY DEF Good
<1>2. m \in Messages /\ s.pending \in SUBSET Messages /\ s.cqe \in Int
  BY <1>1 DEF Sender
<1>3. s.inflight = 1 /\ s.ring_ready /\ (\A k \in s.pending : m <= k)
  BY <1>1, <1>2 DEF HoldOK
<1>4. \A k \in Messages : s.submitted[k] => k = m
  <2> SUFFICES ASSUME NEW k \in Messages, s.submitted[k] PROVE k = m
    OBVIOUS
  <2>1. k \in s.pending /\ k <= m /\ m <= k
    BY <1>1, <1>2, <1>3 DEF HoldOK
  <2> QED BY <2>1, <1>2, AsyncTcpAssumption DEF Messages
<1>5. s.bytes_sent[m] \in Nat /\ s.wire[m] \in Nat /\ s.total_size[m] \in Nat
  BY <1>1, <1>2 DEF Sender
<1> DEFINE more == IF s.cqe > 0 THEN s.cqe ELSE 0
<1>6. s.wire[m] = s.bytes_sent[m] + more /\ s.wire[m] <= s.total_size[m] /\ more \in Nat
  BY <1>1, <1>2 DEF BytesOK
<1>7. /\ q \in Sender /\ q.inflight = 0 /\ q.cqe = 0 /\ ~q.taken
      /\ q.submit_retry_pending = s.submit_retry_pending
      /\ \A k \in Messages : ~q.submitted[k]
      /\ \A k \in Messages : q.bytes_sent[k] = IF k = m THEN s.wire[m] ELSE s.bytes_sent[k]
      /\ q.pending = s.pending /\ q.pending_bytes = s.pending_bytes /\ q.outcome = s.outcome
      /\ q.ring_ready = s.ring_ready /\ q.syscall_fallback = s.syscall_fallback
      /\ q.socket_pin = s.socket_pin /\ q.fd = s.fd /\ q.total_size = s.total_size
      /\ q.wire = s.wire
  <2> DEFINE free == [s.submitted EXCEPT ![m] = FALSE]
             sent == [s.bytes_sent EXCEPT ![m] = s.bytes_sent[m] + s.cqe]
  <2>1. s1 = [s EXCEPT !.cqe = 0, !.taken = FALSE, !.submitted = free, !.inflight = 0]
    BY <1>1, <1>3 DEF Sender, NoResult
  <2>2. free \in [Messages -> BOOLEAN] /\ \A k \in Messages : ~free[k]
    BY <1>1, <1>2, <1>4 DEF Sender
  <2> HIDE DEF free
  <2>5. [s EXCEPT !.cqe = 0, !.taken = FALSE, !.submitted = free, !.inflight = 0] \in Sender
    <3> 0 \in Int /\ 0 \in Nat
      OBVIOUS
    <3>1. [s EXCEPT !.cqe = 0] \in Sender
      BY <1>1, SetFields, Zenon
    <3>2. [s EXCEPT !.cqe = 0, !.taken = FALSE] \in Sender
      BY <3>1, SetFields, Zenon
    <3>3. [s EXCEPT !.cqe = 0, !.taken = FALSE, !.submitted = free] \in Sender
      BY <2>2, <3>2, SetFields, Zenon
    <3> QED BY <3>3, SetFields, Zenon
  <2>3. CASE s.cqe > 0
    <3>1. s2 = [s EXCEPT !.cqe = 0, !.taken = FALSE, !.submitted = free, !.inflight = 0,
                         !.bytes_sent = sent]
      BY <1>1, <2>1, Zenon DEF Sender
    <3>2. sent \in [Messages -> Nat] /\ \A k \in Messages : sent[k] = IF k = m THEN s.wire[m] ELSE s.bytes_sent[k]
      BY <1>1, <1>2, <1>5, <1>6, <2>3 DEF Sender
    <3>3. q = s2
      BY <2>3
    <3> HIDE DEF sent, s1, s2, q
    <3>4. q \in Sender
      BY <2>2, <2>5, <3>1, <3>2, <3>3, SetFields, Zenon
    <3>5. /\ q.inflight = 0 /\ q.cqe = 0 /\ ~q.taken /\ q.submitted = free /\ q.bytes_sent = sent
          /\ q.submit_retry_pending = s.submit_retry_pending
          /\ q.pending = s.pending /\ q.pending_bytes = s.pending_bytes /\ q.outcome = s.outcome
          /\ q.ring_ready = s.ring_ready /\ q.syscall_fallback = s.syscall_fallback
          /\ q.socket_pin = s.socket_pin /\ q.fd = s.fd /\ q.total_size = s.total_size
          /\ q.wire = s.wire
      BY <1>1, <3>1, <3>3 DEF Sender
    <3> QED BY <2>2, <3>2, <3>4, <3>5
  <2>4. CASE ~(s.cqe > 0)
    <3>1. q = s1 /\ s.wire[m] = s.bytes_sent[m]
      BY <1>5, <1>6, <2>4
    <3> HIDE DEF s1, s2, q
    <3>2. q \in Sender
      BY <2>1, <2>5, <3>1, Zenon
    <3>3. /\ q.inflight = 0 /\ q.cqe = 0 /\ ~q.taken /\ q.submitted = free /\ q.bytes_sent = s.bytes_sent
          /\ q.submit_retry_pending = s.submit_retry_pending
          /\ q.pending = s.pending /\ q.pending_bytes = s.pending_bytes /\ q.outcome = s.outcome
          /\ q.ring_ready = s.ring_ready /\ q.syscall_fallback = s.syscall_fallback
          /\ q.socket_pin = s.socket_pin /\ q.fd = s.fd /\ q.total_size = s.total_size
          /\ q.wire = s.wire
      BY <1>1, <2>1, <3>1 DEF Sender
    <3> QED BY <2>2, <3>1, <3>2, <3>3
  <2> QED BY <2>3, <2>4
<1> HIDE DEF s1, s2, q, more
<1>8. TotalSize(q, q.pending) = TotalSize(s, s.pending)
  BY <1>7, TotalSizeSame
<1>9. ListOK(q, n)
  <2>1. m < n
    BY <1>1, <1>2 DEF ListOK
  <2>2. \A k \in Messages : k >= n => q.outcome[k] = "none" /\ q.bytes_sent[k] = 0 /\ q.wire[k] = 0
    BY <1>1, <1>2, <1>7, <2>1, AsyncTcpAssumption DEF ListOK, Messages
  <2> QED BY <1>1, <1>7, <1>8, <2>2 DEF ListOK
<1>10. HoldOK(q)
  BY <1>7 DEF HoldOK, NoResult
<1>11. BytesOK(q)
  <2>1. ASSUME NEW k \in q.pending
        PROVE  /\ q.wire[k] = q.bytes_sent[k] + IF q.submitted[k] /\ q.cqe > 0 THEN q.cqe ELSE 0
               /\ q.wire[k] <= q.total_size[k]
               /\ \A j \in Messages : k < j => q.wire[j] = 0
    <3>1. k \in Messages /\ k \in s.pending /\ s.bytes_sent[k] \in Nat
      BY <1>1, <1>2, <1>7, <2>1 DEF Sender
    <3> QED BY <1>1, <1>4, <1>5, <1>7, <3>1 DEF BytesOK
  <2> QED BY <1>1, <1>7, <2>1 DEF BytesOK
<1>12. Once(s, q) /\ Available(q)
  BY <1>7 DEF Once, Available
<1>13. s.cqe > 0 => q.wire[m] = q.total_size[m] - (Remaining(s, m) - s.cqe) /\ s.cqe <= Remaining(s, m)
  BY <1>2, <1>5, <1>6, <1>7 DEF more, Remaining
<1>14. /\ Serves(s, n, q) /\ q.inflight = 0 /\ q.ring_ready
       /\ q.pending = s.pending /\ (\A k \in q.pending : m <= k) /\ ~q.submitted[m]
  BY <1>2, <1>3, <1>7, <1>9, <1>10, <1>11, <1>12 DEF Good, Serves
<1> QED BY <1>13, <1>14, Zenon DEF q, s1, s2

\* Handling a completion, whole, short, failed or canceled, keeps the sender
\* good.
LEMMA ReapCompletionGood ==
    ASSUME NEW n \in Nat, NEW s, Good(s, n), Available(s), s.cqe # NoResult, ~s.submit_retry_pending,
           NEW r \in ReapCompletion(s)
    PROVE  Serves(s, n, r)
<1> DEFINE m  == CHOOSE k \in s.pending : s.submitted[k]
           s1 == [s EXCEPT !.cqe = NoResult, !.taken = FALSE,
                           !.submitted[m] = FALSE, !.inflight = @ - 1]
           s2 == [s1 EXCEPT !.bytes_sent[m] = @ + s.cqe]
<1>1. m \in s.pending /\ s.submitted[m]
  <2>1. \E k \in s.pending : s.submitted[k]
    BY DEF Good, HoldOK
  <2> QED BY <2>1
<1> HIDE DEF m
<1>2. s.cqe \in Int /\ s.pending \in SUBSET Messages
  BY DEF Good, Sender
<1> DEFINE q == IF s.cqe > 0 THEN s2 ELSE s1
<1>3. /\ Serves(s, n, q) /\ q.inflight = 0 /\ q.ring_ready
      /\ q.pending = s.pending /\ (\A k \in q.pending : m <= k) /\ ~q.submitted[m]
      /\ s.cqe > 0 => /\ q.wire[m] = q.total_size[m] - (Remaining(s, m) - s.cqe)
                      /\ s.cqe <= Remaining(s, m)
  BY <1>1, ReapedGood, Zenon
<1>4. /\ s.cqe > 0 => q = s2
      /\ ~(s.cqe > 0) => q = s1
  OBVIOUS
<1>5. s.cqe \in {AGAIN, UNSUPPORTED, ERROR} \/ s.cqe > 0
  BY <1>2 DEF Good, BytesOK, NoResult
<1>6. Remaining(s, m) \in Int /\ q.total_size[m] \in Nat
  <2>1. m \in Messages /\ s \in Sender /\ q \in Sender
    BY <1>1, <1>2, <1>3 DEF Serves, Good
  <2> HIDE DEF q
  <2> QED BY <2>1 DEF Remaining, Sender
<1>7. \/ s.cqe = UNSUPPORTED /\ r \in ProgressSyscallFallback([s1 EXCEPT !.syscall_fallback = TRUE])
      \/ s.cqe = ERROR /\ r \in TryStartHead(RecordTransportFailure(s1, m))
      \/ s.cqe = AGAIN /\ r \in SubmitMessage(s1, m)
      \/ s.cqe > 0 /\ s.cqe = Remaining(s, m) /\ r \in TryStartHead(PendingRemove(s2, {m}, "sent"))
      \/ s.cqe > 0 /\ s.cqe < Remaining(s, m) /\ r \in SubmitMessage(s2, m)
  <2> HIDE DEF s1, s2, q
  <2>1. r \in CASE s.cqe = UNSUPPORTED -> ProgressSyscallFallback([s1 EXCEPT !.syscall_fallback = TRUE])
                [] s.cqe = ERROR       -> TryStartHead(RecordTransportFailure(s1, m))
                [] s.cqe = AGAIN       -> SubmitMessage(s1, m)
                [] s.cqe > 0 /\ s.cqe = Remaining(s, m) -> TryStartHead(PendingRemove(s2, {m}, "sent"))
                [] s.cqe > 0 /\ s.cqe < Remaining(s, m) -> SubmitMessage(s2, m)
    BY Zenon DEF ReapCompletion, s1, s2, m
  <2> QED BY <1>2, <1>3, <1>5, <1>6, <2>1 DEF UNSUPPORTED, ERROR, AGAIN
<1> HIDE DEF s1, s2, q
<1>8. CASE s.cqe = UNSUPPORTED /\ r \in ProgressSyscallFallback([s1 EXCEPT !.syscall_fallback = TRUE])
  <2> DEFINE f == [s1 EXCEPT !.syscall_fallback = TRUE]
  <2>1. Serves(s, n, s1)
    BY <1>3, <1>4, <1>8 DEF UNSUPPORTED
  <2>2. f \in Sender /\ Alike(s1, f) /\ f.ring_ready = s1.ring_ready /\ f.syscall_fallback
    BY <2>1, Zenon DEF Serves, Good, Sender, Alike
  <2> HIDE DEF f
  <2>3. Good(f, n) /\ Once(s1, f) /\ Available(f)
    BY <2>1, <2>2, AlikeGood DEF Serves, Available
  <2>4. Serves(f, n, r)
    BY <1>8, <2>3, ProgressGood DEF f
  <2> QED BY <2>1, <2>3, <2>4, ServesServes DEF Serves
<1>9. CASE s.cqe = ERROR /\ r \in TryStartHead(RecordTransportFailure(s1, m))
  <2>1. Serves(s, n, s1) /\ m \in s1.pending /\ ~s1.submitted[m]
    BY <1>1, <1>3, <1>4, <1>9 DEF ERROR
  <2> DEFINE f == RecordTransportFailure(s1, m)
  <2>2. Serves(s1, n, f)
    BY <2>1, FailureGood DEF Serves
  <2> HIDE DEF f
  <2>3. Serves(f, n, r)
    BY <1>9, <2>2, TryStartGood DEF f, Serves
  <2> QED BY <2>1, <2>2, <2>3, ServesServes
<1>10. CASE s.cqe = AGAIN /\ r \in SubmitMessage(s1, m)
  <2>1. /\ Serves(s, n, s1) /\ s1.inflight = 0 /\ s1.ring_ready /\ m \in s1.pending
        /\ \A k \in s1.pending : m <= k
    BY <1>1, <1>3, <1>4, <1>10 DEF AGAIN
  <2>2. Serves(s1, n, r)
    BY <1>10, <2>1, SubmitGood DEF Serves
  <2> QED BY <2>1, <2>2, ServesServes
<1>11. CASE s.cqe > 0 /\ s.cqe = Remaining(s, m) /\ r \in TryStartHead(PendingRemove(s2, {m}, "sent"))
  <2>1. Serves(s, n, s2) /\ m \in s2.pending /\ ~s2.submitted[m] /\ s2.wire[m] = s2.total_size[m]
    BY <1>1, <1>2, <1>3, <1>4, <1>6, <1>11
  <2> DEFINE f == PendingRemove(s2, {m}, "sent")
  <2>2. Good(f, n) /\ Removed(s2, f, {m}, "sent") /\ Once(s2, f)
    <3>1. Good(s2, n) /\ {m} \in SUBSET s2.pending
      BY <2>1 DEF Serves
    <3> QED BY <2>1, <3>1, RemoveGood DEF Outcomes
  <2> HIDE DEF f
  <2>3. Serves(s2, n, f)
    BY <2>1, <2>2 DEF Serves, Removed, Available
  <2>4. Serves(f, n, r)
    BY <1>11, <2>3, TryStartGood DEF f, Serves
  <2> QED BY <2>1, <2>3, <2>4, ServesServes
<1>12. CASE s.cqe > 0 /\ s.cqe < Remaining(s, m) /\ r \in SubmitMessage(s2, m)
  <2>1. /\ Serves(s, n, s2) /\ s2.inflight = 0 /\ s2.ring_ready /\ m \in s2.pending
        /\ \A k \in s2.pending : m <= k
    BY <1>1, <1>3, <1>4, <1>12
  <2>2. Serves(s2, n, r)
    BY <1>12, <2>1, SubmitGood DEF Serves
  <2> QED BY <2>1, <2>2, ServesServes
<1> QED BY <1>7, <1>8, <1>9, <1>10, <1>11, <1>12

\* The submission that was put off is tried again.
LEMMA FlushRetryGood ==
    ASSUME NEW n \in Nat, NEW s, Good(s, n), Available(s), s.ring_ready, s.submit_retry_pending,
           NEW r \in FlushRetry(s)
    PROVE  Serves(s, n, r)
<1>1. s \in Sender /\ ListOK(s, n) /\ HoldOK(s) /\ BytesOK(s) /\ s.pending \in SUBSET Messages
  BY DEF Good, Sender
<1>2. Serves(s, n, s)
  BY DEF Serves, Once
<1> DEFINE a == [s EXCEPT !.submit_retry_pending = FALSE, !.taken = TRUE]
           f == [RetireRing(s) EXCEPT !.submitted[PendingHead(s)] = FALSE, !.inflight = 0]
<1>3. r = s \/ (~s.taken /\ (r = a \/ r \in ProgressSyscallFallback(f)))
  BY Zenon DEF FlushRetry
<1>4. CASE ~s.taken /\ r = a
  <2>1. s.inflight # 0 /\ s.cqe = 0
    BY <1>1, <1>4 DEF HoldOK, NoResult
  <2>2. /\ r \in Sender /\ r.inflight = s.inflight /\ r.cqe = s.cqe /\ r.submitted = s.submitted
        /\ r.pending = s.pending /\ r.pending_bytes = s.pending_bytes /\ r.outcome = s.outcome
        /\ r.ring_ready = s.ring_ready /\ r.syscall_fallback = s.syscall_fallback
        /\ r.socket_pin = s.socket_pin /\ r.fd = s.fd /\ r.total_size = s.total_size
        /\ r.bytes_sent = s.bytes_sent /\ r.wire = s.wire
    BY <1>1, <1>4, Zenon DEF Sender
  <2>3. TotalSize(r, r.pending) = TotalSize(s, s.pending)
    BY <2>2, TotalSizeSame
  <2>4. ListOK(r, n)
    BY <1>1, <2>2, <2>3 DEF ListOK
  <2>5. HoldOK(r) /\ BytesOK(r)
    BY <1>1, <2>1, <2>2 DEF HoldOK, BytesOK, NoResult
  <2>6. Once(s, r) /\ Available(r)
    BY <2>2 DEF Once, Available
  <2> QED BY <2>2, <2>4, <2>5, <2>6 DEF Good, Serves
<1>5. CASE ~s.taken /\ r \in ProgressSyscallFallback(f)
  <2> DEFINE h    == PendingHead(s)
             free == [s.submitted EXCEPT ![h] = FALSE]
  <2>1. s.cqe = 0
    BY <1>1, <1>5 DEF HoldOK, NoResult
  <2>2. ASSUME NEW m \in Messages, s.submitted[m]
        PROVE  m = h
    <3>1. m \in s.pending /\ (\A k \in s.pending : m <= k)
      BY <1>1, <2>2 DEF HoldOK
    <3>2. h \in s.pending /\ h <= m
      BY <1>1, <3>1, HeadIsOldest
    <3> HIDE DEF h
    <3> QED BY <1>1, <3>1, <3>2, AsyncTcpAssumption DEF Messages
  <2> HIDE DEF h
  <2>3. free \in [Messages -> BOOLEAN] /\ \A m \in Messages : ~free[m]
    BY <1>1, <2>2, Zenon DEF Sender
  <2>4. f = [RetireRing(s) EXCEPT !.submitted = free, !.inflight = 0]
    BY <1>1 DEF RetireRing, Sender, h
  <2> HIDE DEF free, f
  <2>5. RetireRing(s) \in Sender
    BY <1>1, Zenon DEF RetireRing, Sender
  <2>6. f \in Sender
    <3>1. [RetireRing(s) EXCEPT !.submitted = free] \in Sender /\ 0 \in Nat
      BY <2>3, <2>5, SetFields, Zenon
    <3> QED BY <2>4, <3>1, SetFields, Zenon
  <2>7. /\ f.inflight = 0 /\ f.cqe = s.cqe /\ f.submitted = free /\ f.taken = s.taken
        /\ ~f.submit_retry_pending /\ f.syscall_fallback
        /\ f.pending = s.pending /\ f.pending_bytes = s.pending_bytes /\ f.outcome = s.outcome
        /\ f.socket_pin = s.socket_pin /\ f.fd = s.fd /\ f.total_size = s.total_size
        /\ f.bytes_sent = s.bytes_sent /\ f.wire = s.wire
    BY <1>1, <2>4 DEF RetireRing, Sender
  <2>8. TotalSize(f, f.pending) = TotalSize(s, s.pending)
    BY <2>7, TotalSizeSame
  <2>9. ListOK(f, n)
    BY <1>1, <2>7, <2>8 DEF ListOK
  <2>10. HoldOK(f)
    BY <1>5, <2>1, <2>3, <2>7 DEF HoldOK, NoResult
  <2>11. BytesOK(f)
    BY <1>1, <2>1, <2>3, <2>7 DEF BytesOK
  <2>12. Serves(s, n, f)
    BY <2>6, <2>7, <2>9, <2>10, <2>11 DEF Serves, Good, Once, Available
  <2>13. Serves(f, n, r)
    BY <1>5, <2>12, ProgressGood DEF Serves
  <2> QED BY <2>12, <2>13, ServesServes
<1> QED BY <1>2, <1>3, <1>4, <1>5

\* Reaping, with the retry of a failed submission, keeps the sender good.
LEMMA ReapGood ==
    ASSUME NEW n \in Nat, NEW s, Good(s, n), Available(s), NEW r \in ReapResults(s)
    PROVE  Serves(s, n, r)
<1>1. Serves(s, n, s)
  BY DEF Serves, Once
<1>2. \/ r \in ProgressSyscallFallback(s)
      \/ r = s
      \/ s.ring_ready /\ s.submit_retry_pending /\ r \in FlushRetry(s)
      \/ ~s.submit_retry_pending /\ s.cqe # NoResult /\ r \in ReapCompletion(s)
  BY Zenon DEF ReapResults
<1> QED BY <1>1, <1>2, ProgressGood, FlushRetryGood, ReapCompletionGood

-----------------------------------------------------------------------------
(* The entry points. *)

\* Binding the sender to its socket keeps it good.
LEMMA PinGood ==
    ASSUME NEW n \in Nat, NEW s, Good(s, n), NEW fd \in Sockets, Bindable(s, fd)
    PROVE  LET r == [s EXCEPT !.socket_pin = fd]
           IN  /\ Good(r, n) /\ Once(s, r)
               /\ Available(s) => Available(r)
               /\ r.pending_bytes = s.pending_bytes
<1> DEFINE r == [s EXCEPT !.socket_pin = fd]
<1>1. s \in Sender /\ ListOK(s, n) /\ HoldOK(s) /\ BytesOK(s)
  BY DEF Good
<1>2. /\ r \in Sender /\ r.socket_pin = fd
      /\ r.pending = s.pending /\ r.pending_bytes = s.pending_bytes /\ r.outcome = s.outcome
      /\ r.ring_ready = s.ring_ready /\ r.syscall_fallback = s.syscall_fallback
      /\ r.inflight = s.inflight /\ r.taken = s.taken /\ r.cqe = s.cqe
      /\ r.submit_retry_pending = s.submit_retry_pending
      /\ r.fd = s.fd /\ r.total_size = s.total_size
      /\ r.bytes_sent = s.bytes_sent /\ r.submitted = s.submitted /\ r.wire = s.wire
  BY <1>1 DEF Sender, Pins
<1> HIDE DEF r
<1>3. TotalSize(r, r.pending) = TotalSize(s, s.pending)
  BY <1>2, TotalSizeSame
<1>4. \A m \in r.pending : r.fd[m] = r.socket_pin
  BY <1>1, <1>2 DEF ListOK, Bindable
<1>5. ListOK(r, n)
  BY <1>1, <1>2, <1>3, <1>4 DEF ListOK
<1>6. HoldOK(r) /\ BytesOK(r)
  BY <1>1, <1>2 DEF HoldOK, BytesOK
<1>7. Once(s, r) /\ (Available(s) => Available(r))
  BY <1>2 DEF Once, Available
<1>8. Good(r, n)
  BY <1>2, <1>5, <1>6 DEF Good
<1> QED BY <1>2, <1>7, <1>8 DEF r

\* The new message joins the tail.
LEMMA AddGood ==
    ASSUME NEW n \in Messages, NEW s, Good(s, n), Available(s),
           NEW type \in Types, NEW size \in Sizes, NEW fd \in Sockets,
           s.socket_pin = fd, CanEnqueue(s.pending_bytes, size, MaxPendingBytes)
    PROVE  Serves(s, n + 1, PendingAdd(s, n, type, fd, size))
<1> DEFINE r == PendingAdd(s, n, type, fd, size)
           types == [s.type EXCEPT ![n] = type]
           fds   == [s.fd EXCEPT ![n] = fd]
           sizes == [s.total_size EXCEPT ![n] = size]
<1>1. s \in Sender /\ ListOK(s, n) /\ HoldOK(s) /\ BytesOK(s)
  BY DEF Good
<1>2. n \in Nat /\ size \in Nat /\ s.pending \in SUBSET Messages /\ s.pending_bytes \in Nat
  BY <1>1, AsyncTcpAssumption DEF Sender, Messages
<1>3. r = [s EXCEPT !.pending = s.pending \cup {n}, !.pending_bytes = s.pending_bytes + size,
                    !.type = types, !.fd = fds, !.total_size = sizes]
  BY <1>1, Zenon DEF PendingAdd
<1>4. /\ types \in [Messages -> Types \cup {"none"}] /\ fds \in [Messages -> Pins]
      /\ sizes \in [Messages -> Nat]
      /\ \A m \in Messages : /\ fds[m] = IF m = n THEN fd ELSE s.fd[m]
                             /\ sizes[m] = IF m = n THEN size ELSE s.total_size[m]
  BY <1>1, <1>2 DEF Sender, Pins
<1> HIDE DEF r, types, fds, sizes
<1>5. r \in Sender
  <2>1. s.pending \cup {n} \in SUBSET Messages /\ s.pending_bytes + size \in Nat
    BY <1>2
  <2>2. [s EXCEPT !.pending = s.pending \cup {n}] \in Sender
    BY <1>1, <2>1, SetFields, Zenon
  <2>3. [s EXCEPT !.pending = s.pending \cup {n}, !.pending_bytes = s.pending_bytes + size] \in Sender
    BY <2>1, <2>2, SetFields, Zenon
  <2>4. [s EXCEPT !.pending = s.pending \cup {n}, !.pending_bytes = s.pending_bytes + size,
                  !.type = types] \in Sender
    BY <1>4, <2>3, SetFields, Zenon
  <2>5. [s EXCEPT !.pending = s.pending \cup {n}, !.pending_bytes = s.pending_bytes + size,
                  !.type = types, !.fd = fds] \in Sender
    BY <1>4, <2>4, SetFields, Zenon
  <2> QED BY <1>3, <1>4, <2>5, SetFields, Zenon
<1>6. /\ r.pending = s.pending \cup {n} /\ r.pending_bytes = s.pending_bytes + size
      /\ r.fd = fds /\ r.total_size = sizes /\ r.outcome = s.outcome
      /\ r.ring_ready = s.ring_ready /\ r.syscall_fallback = s.syscall_fallback
      /\ r.inflight = s.inflight /\ r.taken = s.taken /\ r.cqe = s.cqe
      /\ r.submit_retry_pending = s.submit_retry_pending /\ r.socket_pin = fd
      /\ r.bytes_sent = s.bytes_sent /\ r.submitted = s.submitted /\ r.wire = s.wire
  BY <1>1, <1>3 DEF Sender
<1>7. /\ n \notin s.pending /\ s.outcome[n] = "none" /\ s.bytes_sent[n] = 0 /\ s.wire[n] = 0
      /\ \A m \in s.pending : m < n
      /\ ~s.submitted[n]
  <2>1. s.outcome[n] = "none" /\ s.bytes_sent[n] = 0 /\ s.wire[n] = 0
    BY <1>1, <1>2 DEF ListOK
  <2>2. \A m \in s.pending : m < n
    BY <1>1, <1>2, Zenon DEF ListOK
  <2>3. n \notin s.pending
    BY <1>2, <2>2
  <2> QED BY <1>1, <2>1, <2>2, <2>3 DEF HoldOK
<1>8. ListOK(r, n + 1)
  <2>1. \A m \in Messages : m \in r.pending <=> m < n + 1 /\ r.outcome[m] = "none"
    BY <1>1, <1>2, <1>6, <1>7, AsyncTcpAssumption DEF ListOK, Messages
  <2>2. \A m \in Messages : m >= n + 1 => r.outcome[m] = "none" /\ r.bytes_sent[m] = 0 /\ r.wire[m] = 0
    BY <1>1, <1>2, <1>6, AsyncTcpAssumption DEF ListOK, Messages
  <2>3. r.pending_bytes = TotalSize(r, r.pending)
    <3>1. s.total_size \in [Messages -> Nat] /\ r.total_size \in [Messages -> Nat]
      BY <1>1, <1>4, <1>6 DEF Sender
    <3>2. \A k \in s.pending : r.total_size[k] = s.total_size[k]
      BY <1>2, <1>4, <1>6, <1>7, Zenon
    <3>3. TotalSize(r, r.pending) = TotalSize(s, s.pending) + r.total_size[n]
      <4>1. n \in Messages /\ n \notin s.pending /\ s.pending \in SUBSET Messages
        BY <1>2, <1>7
      <4>2. r.pending = s.pending \cup {n}
        BY <1>6, Zenon
      <4>3. Joins(s, r, n)
        BY <3>1, <3>2, <4>1, <4>2 DEF Joins
      <4> QED BY <4>3, TotalSizeAdd
    <3>4. r.total_size[n] = size /\ s.pending_bytes = TotalSize(s, s.pending)
      BY <1>1, <1>4, <1>6 DEF ListOK
    <3> QED BY <1>6, <3>3, <3>4
  <2>4. MaxPendingBytes # 0 => r.pending_bytes <= MaxPendingBytes
    BY <1>2, <1>6, AsyncTcpAssumption DEF CanEnqueue
  <2>5. \A m \in r.pending : r.fd[m] = r.socket_pin
    BY <1>1, <1>2, <1>4, <1>6, Zenon DEF ListOK
  <2> QED BY <2>1, <2>2, <2>3, <2>4, <2>5 DEF ListOK
<1>9. HoldOK(r)
  <2>1. ASSUME NEW m \in Messages, s.submitted[m]
        PROVE  m \in s.pending /\ (\A k \in s.pending : m <= k) /\ m <= n
    BY <1>1, <1>2, <1>7, <2>1, AsyncTcpAssumption DEF HoldOK, Messages
  <2> QED BY <1>1, <1>6, <2>1 DEF HoldOK
<1>10. BytesOK(r)
  <2>1. ASSUME NEW m \in r.pending
        PROVE  /\ r.wire[m] = r.bytes_sent[m] + IF r.submitted[m] /\ r.cqe > 0 THEN r.cqe ELSE 0
               /\ r.wire[m] <= r.total_size[m]
               /\ \A k \in Messages : m < k => r.wire[k] = 0
    <3>1. CASE m = n
      BY <1>1, <1>2, <1>4, <1>6, <1>7, <3>1, AsyncTcpAssumption DEF ListOK, Messages
    <3>2. CASE m # n
      BY <1>1, <1>2, <1>4, <1>6, <3>2, Zenon DEF BytesOK
    <3> QED BY <3>1, <3>2
  <2>2. ASSUME NEW m \in Messages
        PROVE  /\ r.outcome[m] = "sent" => r.wire[m] = r.total_size[m]
               /\ r.outcome[m] = "dropped" => r.wire[m] = 0
    BY <1>1, <1>4, <1>6, <1>7 DEF BytesOK
  <2> QED BY <1>1, <1>6, <2>1, <2>2 DEF BytesOK
<1>11. Once(s, r) /\ Available(r)
  BY <1>6 DEF Once, Available
<1> QED BY <1>5, <1>8, <1>9, <1>10, <1>11 DEF Serves, Good, r

\* Taking a new message keeps the sender good.
LEMMA QueuedGood ==
    ASSUME NEW n \in Messages, NEW s0, Good(s0, n), Available(s0),
           NEW type \in Types, NEW size \in Sizes, NEW fd \in Sockets,
           NEW r \in Queued(s0, n, type, size, fd)
    PROVE  Serves(s0, n + 1, r)
<1>1. n \in Nat /\ n + 1 \in Nat
  BY AsyncTcpAssumption DEF Messages
<1>2. PICK s \in ReapResults(s0) :
        /\ Bindable(s, fd) /\ CanEnqueue(s.pending_bytes, size, MaxPendingBytes)
        /\ r \in TryStartHead(PendingAdd([s EXCEPT !.socket_pin = fd], n, type, fd, size))
  BY Zenon DEF Queued
<1>3. Serves(s0, n, s)
  BY <1>1, ReapGood
<1> DEFINE b == [s EXCEPT !.socket_pin = fd]
           a == PendingAdd(b, n, type, fd, size)
<1>4. Good(b, n) /\ Once(s, b) /\ Available(b) /\ b.pending_bytes = s.pending_bytes
  BY <1>1, <1>2, <1>3, PinGood DEF Serves
<1>5. b.socket_pin = fd
  BY <1>3 DEF Serves, Good, Sender
<1> HIDE DEF b
<1>6. Serves(b, n + 1, a)
  BY <1>2, <1>4, <1>5, AddGood
<1> HIDE DEF a
<1>7. Serves(a, n + 1, r)
  BY <1>1, <1>2, <1>6, TryStartGood DEF Serves, a, b
<1> QED BY <1>3, <1>4, <1>6, <1>7, OnceOnce DEF Serves

\* Refusing a message leaves a good sender.
LEMMA RejectedGood ==
    ASSUME NEW n \in Nat, NEW s0, Good(s0, n), Available(s0), NEW fd \in Sockets, NEW r \in Rejected(s0, fd)
    PROVE  Serves(s0, n, r)
<1>1. PICK s \in ReapResults(s0) : r = s \/ (Bindable(s, fd) /\ r = [s EXCEPT !.socket_pin = fd])
  BY Zenon DEF Rejected
<1>2. Serves(s0, n, s)
  BY ReapGood
<1>3. CASE Bindable(s, fd) /\ r = [s EXCEPT !.socket_pin = fd]
  <2>1. Serves(s, n, r)
    BY <1>2, <1>3, PinGood DEF Serves
  <2> QED BY <1>2, <2>1, ServesServes
<1> QED BY <1>1, <1>2, <1>3

\* Dropping the replaceable messages of a type, and starting what is oldest
\* then, keeps the sender good.
LEMMA DroppedGood ==
    ASSUME NEW n \in Nat, NEW s, Good(s, n), Available(s), NEW type, NEW r \in Dropped(s, type)
    PROVE  Serves(s, n, r)
<1> DEFINE D == {m \in s.pending : s.type[m] = type /\ IsReplaceable(s, m)}
           q == PendingRemove(s, D, "dropped")
<1>1. r = s \/ r \in TryStartHead(q)
  BY Zenon DEF Dropped
<1>2. D \in SUBSET s.pending /\ \A m \in D : ~s.submitted[m] /\ s.wire[m] = 0
  BY DEF IsReplaceable, Good, BytesOK, Sender
<1> HIDE DEF D
<1>3. Good(q, n) /\ Removed(s, q, D, "dropped") /\ Once(s, q)
  BY <1>2, RemoveGood DEF Outcomes
<1> HIDE DEF q
<1>4. Serves(s, n, q)
  BY <1>3 DEF Serves, Removed, Available
<1>5. CASE r \in TryStartHead(q)
  <2>1. Serves(q, n, r)
    BY <1>4, <1>5, TryStartGood DEF Serves
  <2> QED BY <1>4, <2>1, ServesServes
<1> QED BY <1>1, <1>5 DEF Serves, Once

\* Cancel requests.
LEMMA CancelGood ==
    ASSUME NEW n \in Nat, NEW s, Good(s, n), Available(s), NEW r \in RequestCancels(s)
    PROVE  Serves(s, n, r)
<1>1. s \in Sender /\ ListOK(s, n) /\ HoldOK(s) /\ BytesOK(s)
  BY DEF Good
<1>2. CASE r = [s EXCEPT !.taken = s.inflight # 0]
  <2> DEFINE t == s.inflight # 0
  <2>1. t \in BOOLEAN
    OBVIOUS
  <2>2. r = [s EXCEPT !.taken = t]
    BY <1>2
  <2>3. t <=> s.inflight # 0
    OBVIOUS
  <2> HIDE DEF t
  <2>4. r \in Sender
    BY <1>1, <2>1, <2>2, SetFields, Zenon
  <2>5. /\ r.inflight = s.inflight /\ r.cqe = s.cqe /\ r.submitted = s.submitted /\ (r.taken <=> t)
        /\ r.submit_retry_pending = s.submit_retry_pending
        /\ r.pending = s.pending /\ r.pending_bytes = s.pending_bytes /\ r.outcome = s.outcome
        /\ r.ring_ready = s.ring_ready /\ r.syscall_fallback = s.syscall_fallback
        /\ r.socket_pin = s.socket_pin /\ r.fd = s.fd /\ r.total_size = s.total_size
        /\ r.bytes_sent = s.bytes_sent /\ r.wire = s.wire
    BY <1>1, <2>1, <2>2 DEF Sender
  <2>6. TotalSize(r, r.pending) = TotalSize(s, s.pending)
    BY <2>5, TotalSizeSame
  <2>7. ListOK(r, n)
    BY <1>1, <2>5, <2>6 DEF ListOK
  <2>8. HoldOK(r) /\ BytesOK(r)
    BY <1>1, <2>3, <2>5 DEF HoldOK, BytesOK
  <2>9. Once(s, r) /\ Available(r)
    BY <2>5 DEF Once, Available
  <2> QED BY <2>4, <2>7, <2>8, <2>9 DEF Good, Serves
<1> QED BY <1>2 DEF RequestCancels, Serves, Once

\* A pass of the teardown.
LEMMA DrainGood ==
    ASSUME NEW n \in Nat, NEW s0, Good(s0, n), Available(s0), NEW s \in ReapResults(s0), NEW r,
           LET left == PendingRemove(s, {m \in s.pending : ~s.submitted[m]}, "failed")
           IN  r \in IF Drained(left) THEN {left} ELSE RequestCancels(left)
    PROVE  Serves(s0, n, r)
<1> DEFINE D    == {m \in s.pending : ~s.submitted[m]}
           left == PendingRemove(s, D, "failed")
<1>1. Serves(s0, n, s)
  BY ReapGood
<1>2. D \in SUBSET s.pending /\ \A m \in D : ~s.submitted[m]
  OBVIOUS
<1>3. r = left \/ r \in RequestCancels(left)
  BY Zenon
<1> HIDE DEF D
<1>4. Good(left, n) /\ Removed(s, left, D, "failed") /\ Once(s, left)
  BY <1>1, <1>2, RemoveGood DEF Outcomes, Serves
<1> HIDE DEF left
<1>5. Serves(s, n, left)
  BY <1>1, <1>4 DEF Serves, Removed, Available
<1>6. Serves(left, n, r)
  BY <1>3, <1>5, CancelGood DEF Serves, Once
<1> QED BY <1>1, <1>5, <1>6, ServesServes

\* The end of a teardown: the ring is closed and what is listed fails.
Closed(s) ==
    [s EXCEPT !.ring_ready = FALSE, !.inflight = 0, !.submit_retry_pending = FALSE,
              !.submitted = [m \in Messages |-> FALSE], !.taken = FALSE, !.cqe = NoResult,
              !.socket_pin = NoSocket]

\* The end of a teardown leaves an empty, good sender.
LEMMA FinishGood ==
    ASSUME NEW n \in Nat, NEW s, Good(s, n)
    PROVE  LET r == PendingRemove(Closed(s), s.pending, "failed")
           IN  Good(r, n) /\ Once(s, r) /\ r.pending = {}
<1> DEFINE q == Closed(s)
           r == PendingRemove(q, s.pending, "failed")
           free == [m \in Messages |-> FALSE]
<1>1. s \in Sender /\ ListOK(s, n) /\ HoldOK(s) /\ BytesOK(s) /\ s.pending \in SUBSET Messages
  BY DEF Good, Sender
<1>2. /\ q.inflight = 0 /\ q.cqe = 0 /\ ~q.taken /\ ~q.submit_retry_pending /\ q.submitted = free
      /\ q.pending = s.pending /\ q.pending_bytes = s.pending_bytes /\ q.outcome = s.outcome
      /\ q.fd = s.fd /\ q.total_size = s.total_size /\ q.bytes_sent = s.bytes_sent /\ q.wire = s.wire
  BY <1>1 DEF Closed, Sender, NoResult
<1>3. q \in Sender
  <2>1. free \in [Messages -> BOOLEAN] /\ 0 \in Nat /\ 0 \in Int /\ FALSE \in BOOLEAN
    OBVIOUS
  <2>2. [s EXCEPT !.ring_ready = FALSE] \in Sender
    BY <1>1, Zenon DEF Sender
  <2>3. [s EXCEPT !.ring_ready = FALSE, !.inflight = 0] \in Sender
    BY <2>1, <2>2, SetFields, Zenon
  <2>4. [s EXCEPT !.ring_ready = FALSE, !.inflight = 0, !.submit_retry_pending = FALSE] \in Sender
    BY <2>1, <2>3, SetFields, Zenon
  <2>5. [s EXCEPT !.ring_ready = FALSE, !.inflight = 0, !.submit_retry_pending = FALSE,
                  !.submitted = free] \in Sender
    BY <2>1, <2>4, SetFields, Zenon
  <2>6. [s EXCEPT !.ring_ready = FALSE, !.inflight = 0, !.submit_retry_pending = FALSE,
                  !.submitted = free, !.taken = FALSE] \in Sender
    BY <2>1, <2>5, SetFields, Zenon
  <2>7. [s EXCEPT !.ring_ready = FALSE, !.inflight = 0, !.submit_retry_pending = FALSE,
                  !.submitted = free, !.taken = FALSE, !.cqe = 0] \in Sender
    BY <2>1, <2>6, SetFields, Zenon
  <2>8. \A p \in Sender : [p EXCEPT !.socket_pin = NoSocket] \in Sender
    BY DEF Sender, Pins
  <2>9. [s EXCEPT !.ring_ready = FALSE, !.inflight = 0, !.submit_retry_pending = FALSE,
                  !.submitted = free, !.taken = FALSE, !.cqe = 0, !.socket_pin = NoSocket] \in Sender
    BY <2>7, <2>8, Zenon
  <2> QED BY <2>9, Zenon DEF Closed, NoResult
<1>4. \A m \in Messages : ~q.submitted[m]
  BY <1>2
<1> HIDE DEF q, free
<1>5. q.pending_bytes = TotalSize(q, q.pending)
  BY <1>1, <1>2, TotalSizeSame DEF ListOK
<1>6. r \in Sender /\ Removed(q, r, s.pending, "failed")
  BY <1>2, <1>3, <1>5, PendingRemoveFields DEF Outcomes
<1> HIDE DEF r
<1>7. r.pending = {} /\ r.pending_bytes \in Nat /\ s.pending_bytes \in Nat
  BY <1>1, <1>2, <1>6 DEF Removed, Sender
<1>8. ListOK(r, n)
  <2>1. \A m \in Messages : m >= n => m \notin s.pending
    BY <1>1, AsyncTcpAssumption DEF ListOK, Messages
  <2>2. \A m \in Messages : m \in r.pending <=> m < n /\ r.outcome[m] = "none"
    BY <1>1, <1>2, <1>6, <1>7 DEF ListOK, Removed
  <2>3. \A m \in Messages : m >= n => r.outcome[m] = "none" /\ r.bytes_sent[m] = 0 /\ r.wire[m] = 0
    BY <1>1, <1>2, <1>6, <2>1 DEF ListOK, Removed
  <2>4. MaxPendingBytes # 0 => r.pending_bytes <= MaxPendingBytes
    BY <1>1, <1>2, <1>6, <1>7, AsyncTcpAssumption DEF ListOK, Removed
  <2> QED BY <1>6, <1>7, <2>2, <2>3, <2>4 DEF ListOK, Removed
<1>9. HoldOK(r)
  BY <1>2, <1>4, <1>6 DEF HoldOK, Removed, NoResult
<1>10. BytesOK(r)
  BY <1>1, <1>2, <1>6, <1>7 DEF BytesOK, Removed
<1>11. Once(s, r)
  BY <1>1, <1>2, <1>6 DEF Once, Removed, ListOK
<1> QED BY <1>6, <1>7, <1>8, <1>9, <1>10, <1>11 DEF Good, r, q

\* The next session's sender.
LEMMA CreateGood ==
    ASSUME NEW n \in Nat, NEW s, Good(s, n), s.pending = {}
    PROVE  Serves(s, n, SenderCreate(s))
<1> DEFINE r == SenderCreate(s)
<1>1. s \in Sender /\ ListOK(s, n) /\ HoldOK(s) /\ BytesOK(s) /\ s.total_size \in [Messages -> Nat]
  BY DEF Good, Sender
<1>2. /\ r.inflight = 0 /\ r.cqe = 0 /\ ~r.taken /\ ~r.submit_retry_pending /\ r.ring_ready
      /\ r.pending = {} /\ r.pending_bytes = 0 /\ r.outcome = s.outcome
      /\ r.fd = s.fd /\ r.total_size = s.total_size /\ r.submitted = s.submitted
      /\ r.bytes_sent = s.bytes_sent /\ r.wire = s.wire
  BY <1>1 DEF SenderCreate, Sender, NoResult
<1>3. r \in Sender
  <2>1. 0 \in Nat /\ 0 \in Int /\ FALSE \in BOOLEAN /\ {} \in SUBSET Messages
    OBVIOUS
  <2>2. \A p \in Sender : [p EXCEPT !.ring_ready = TRUE, !.syscall_fallback = FALSE] \in Sender
    BY Zenon DEF Sender
  <2>3. \A p \in Sender : [p EXCEPT !.transport_failures = 0] \in Sender
    BY DEF Sender
  <2>4. \A p \in Sender : [p EXCEPT !.socket_pin = NoSocket, !.shut = FALSE] \in Sender
    BY Zenon DEF Sender, Pins
  <2>5. [s EXCEPT !.ring_ready = TRUE, !.syscall_fallback = FALSE] \in Sender
    BY <1>1, <2>2, Zenon
  <2>6. [s EXCEPT !.ring_ready = TRUE, !.syscall_fallback = FALSE,
                  !.submit_retry_pending = FALSE] \in Sender
    BY <2>1, <2>5, SetFields, Zenon
  <2>7. [s EXCEPT !.ring_ready = TRUE, !.syscall_fallback = FALSE,
                  !.submit_retry_pending = FALSE, !.inflight = 0] \in Sender
    BY <2>1, <2>6, SetFields, Zenon
  <2>8. [s EXCEPT !.ring_ready = TRUE, !.syscall_fallback = FALSE,
                  !.submit_retry_pending = FALSE, !.inflight = 0, !.pending = {}] \in Sender
    BY <2>1, <2>7, SetFields, Zenon
  <2>9. [s EXCEPT !.ring_ready = TRUE, !.syscall_fallback = FALSE,
                  !.submit_retry_pending = FALSE, !.inflight = 0, !.pending = {},
                  !.pending_bytes = 0] \in Sender
    BY <2>1, <2>8, SetFields, Zenon
  <2>10. [s EXCEPT !.ring_ready = TRUE, !.syscall_fallback = FALSE,
                   !.submit_retry_pending = FALSE, !.inflight = 0, !.pending = {},
                   !.pending_bytes = 0, !.transport_failures = 0] \in Sender
    BY <2>3, <2>9, Zenon
  <2>11. [s EXCEPT !.ring_ready = TRUE, !.syscall_fallback = FALSE,
                   !.submit_retry_pending = FALSE, !.inflight = 0, !.pending = {},
                   !.pending_bytes = 0, !.transport_failures = 0,
                   !.socket_pin = NoSocket, !.shut = FALSE] \in Sender
    BY <2>4, <2>10, Zenon
  <2>12. [s EXCEPT !.ring_ready = TRUE, !.syscall_fallback = FALSE,
                   !.submit_retry_pending = FALSE, !.inflight = 0, !.pending = {},
                   !.pending_bytes = 0, !.transport_failures = 0,
                   !.socket_pin = NoSocket, !.shut = FALSE, !.taken = FALSE] \in Sender
    BY <2>1, <2>11, SetFields, Zenon
  <2>13. NoResult \in Int
    BY DEF NoResult
  <2> QED BY <2>12, <2>13, SetFields, Zenon DEF SenderCreate
<1> HIDE DEF r
<1>4. r.pending_bytes = TotalSize(r, r.pending)
  <2>1. TotalSize(s, {}) = 0
    BY <1>1, TotalSizeFacts
  <2> QED BY <1>2, <2>1, TotalSizeSame
<1>5. ListOK(r, n)
  BY <1>1, <1>2, <1>4, AsyncTcpAssumption DEF ListOK
<1>6. HoldOK(r)
  BY <1>1, <1>2 DEF HoldOK, NoResult
<1>7. BytesOK(r)
  BY <1>1, <1>2 DEF BytesOK
<1>8. Once(s, r) /\ Available(r)
  BY <1>2 DEF Once, Available
<1> QED BY <1>3, <1>5, <1>6, <1>7, <1>8 DEF Serves, Good, r

\* The kernel posts a completion.
LEMMA KernelGood ==
    ASSUME NEW n \in Nat, Good(tx, n), KernelCompletes
    PROVE  Good(tx', n) /\ (Available(tx) => Available(tx')) /\ Once(tx, tx') /\ tx'.pending = tx.pending
<1> DEFINE m == CHOOSE k \in tx.pending : tx.submitted[k]
<1>1. /\ tx \in Sender /\ ListOK(tx, n) /\ HoldOK(tx) /\ BytesOK(tx)
      /\ tx.pending \in SUBSET Messages
  BY DEF Good, Sender
<1>2. tx.taken /\ tx.cqe = 0
  BY Zenon DEF KernelCompletes, NoResult
<1>3. \E k \in tx.pending : tx.submitted[k]
  BY <1>1, <1>2 DEF HoldOK
<1>4. m \in tx.pending /\ tx.submitted[m]
  BY <1>3
<1>5. \/ \E r \in {AGAIN, UNSUPPORTED, ERROR} : tx' = [tx EXCEPT !.cqe = r]
      \/ \E b \in 1 .. Remaining(tx, m) : tx' = [tx EXCEPT !.cqe = b, !.wire[m] = @ + b]
  BY Zenon DEF KernelCompletes
<1> HIDE DEF m
<1>6. /\ m \in Messages /\ (\A k \in tx.pending : m <= k) /\ tx.inflight = 1
      /\ tx.bytes_sent[m] \in Nat /\ tx.wire[m] \in Nat /\ tx.total_size[m] \in Nat
      /\ tx.wire[m] = tx.bytes_sent[m]
  <2>1. m \in Messages
    BY <1>1, <1>4
  <2>2. (\A k \in tx.pending : m <= k) /\ tx.inflight = 1
    BY <1>1, <1>4, <2>1 DEF HoldOK
  <2>3. tx.bytes_sent[m] \in Nat /\ tx.wire[m] \in Nat /\ tx.total_size[m] \in Nat
    BY <1>1, <2>1 DEF Sender
  <2>4. tx.wire[m] = tx.bytes_sent[m]
    BY <1>1, <1>2, <1>4, <2>3 DEF BytesOK
  <2> QED BY <2>1, <2>2, <2>3, <2>4
<1>7. \A k \in Messages : tx.submitted[k] => k = m
  <2> SUFFICES ASSUME NEW k \in Messages, tx.submitted[k] PROVE k = m
    OBVIOUS
  <2>1. k \in tx.pending /\ k <= m /\ m <= k
    BY <1>1, <1>4, <1>6 DEF HoldOK
  <2> QED BY <1>6, <2>1, AsyncTcpAssumption DEF Messages
<1> DEFINE Posted(b) ==
      /\ tx'.cqe = b
      /\ \A k \in Messages : tx'.wire[k] = IF k = m /\ b > 0 THEN tx.wire[m] + b ELSE tx.wire[k]
      /\ tx'.inflight = tx.inflight /\ tx'.taken = tx.taken /\ tx'.submitted = tx.submitted
      /\ tx'.submit_retry_pending = tx.submit_retry_pending
      /\ tx'.pending = tx.pending /\ tx'.pending_bytes = tx.pending_bytes
      /\ tx'.outcome = tx.outcome /\ tx'.ring_ready = tx.ring_ready
      /\ tx'.syscall_fallback = tx.syscall_fallback
      /\ tx'.socket_pin = tx.socket_pin /\ tx'.fd = tx.fd /\ tx'.total_size = tx.total_size
      /\ tx'.bytes_sent = tx.bytes_sent
<1>8. PICK b \in {AGAIN, UNSUPPORTED, ERROR} \cup 1 .. Remaining(tx, m) : tx' \in Sender /\ Posted(b)
  <2>1. ASSUME NEW b \in {AGAIN, UNSUPPORTED, ERROR}, tx' = [tx EXCEPT !.cqe = b]
        PROVE  tx' \in Sender /\ Posted(b)
    <3>1. b \in Int /\ ~(b > 0)
      BY DEF AGAIN, UNSUPPORTED, ERROR
    <3>2. tx' \in Sender
      BY <1>1, <2>1, <3>1, SetFields, Zenon
    <3> QED BY <1>1, <2>1, <3>1, <3>2 DEF Sender
  <2>2. ASSUME NEW b \in 1 .. Remaining(tx, m), tx' = [tx EXCEPT !.cqe = b, !.wire[m] = @ + b]
        PROVE  tx' \in Sender /\ Posted(b)
    <3> DEFINE out == [tx.wire EXCEPT ![m] = tx.wire[m] + b]
    <3>1. b \in Nat /\ b \in Int /\ b > 0
      BY <1>6 DEF Remaining
    <3>2. tx' = [tx EXCEPT !.cqe = b, !.wire = out]
      BY <1>1, <2>2 DEF Sender
    <3>3. out \in [Messages -> Nat] /\ \A k \in Messages : out[k] = IF k = m THEN tx.wire[m] + b ELSE tx.wire[k]
      BY <1>1, <1>6, <3>1 DEF Sender
    <3> HIDE DEF out
    <3>4. [tx EXCEPT !.cqe = b] \in Sender
      BY <1>1, <3>1, SetFields, Zenon
    <3>5. tx' \in Sender
      BY <3>2, <3>3, <3>4, SetFields, Zenon
    <3>6. /\ tx'.cqe = b /\ tx'.wire = out
          /\ tx'.inflight = tx.inflight /\ tx'.taken = tx.taken /\ tx'.submitted = tx.submitted
          /\ tx'.submit_retry_pending = tx.submit_retry_pending
          /\ tx'.pending = tx.pending /\ tx'.pending_bytes = tx.pending_bytes
          /\ tx'.outcome = tx.outcome /\ tx'.ring_ready = tx.ring_ready
          /\ tx'.syscall_fallback = tx.syscall_fallback
          /\ tx'.socket_pin = tx.socket_pin /\ tx'.fd = tx.fd /\ tx'.total_size = tx.total_size
          /\ tx'.bytes_sent = tx.bytes_sent
      BY <1>1, <3>2 DEF Sender
    <3> QED BY <3>1, <3>3, <3>5, <3>6
  <2> HIDE DEF Posted
  <2> QED BY <1>5, <2>1, <2>2, Zenon
<1>9. /\ b \in Int /\ b # 0
      /\ b \in {AGAIN, UNSUPPORTED, ERROR} \cup Nat
      /\ b > 0 => b <= tx.total_size[m] - tx.bytes_sent[m]
  BY <1>6 DEF Remaining, AGAIN, UNSUPPORTED, ERROR
<1>10. TotalSize(tx', tx'.pending) = TotalSize(tx, tx.pending)
  BY <1>8, TotalSizeSame
<1>11. ListOK(tx', n)
  <2>1. m < n
    BY <1>1, <1>4, <1>6 DEF ListOK
  <2>2. \A k \in Messages : k >= n => tx'.outcome[k] = "none" /\ tx'.bytes_sent[k] = 0 /\ tx'.wire[k] = 0
    BY <1>1, <1>6, <1>8, <2>1, AsyncTcpAssumption DEF ListOK, Messages
  <2> QED BY <1>1, <1>8, <1>10, <2>2 DEF ListOK
<1>12. HoldOK(tx')
  BY <1>1, <1>2, <1>8 DEF HoldOK
<1>13. BytesOK(tx')
  <2>1. ASSUME NEW k \in tx'.pending
        PROVE  /\ tx'.wire[k] = tx'.bytes_sent[k] + IF tx'.submitted[k] /\ tx'.cqe > 0 THEN tx'.cqe ELSE 0
               /\ tx'.wire[k] <= tx'.total_size[k]
    <3>1. CASE k = m
      <4>1. /\ tx'.wire[m] = IF b > 0 THEN tx.wire[m] + b ELSE tx.wire[m]
            /\ tx'.bytes_sent[m] = tx.bytes_sent[m] /\ tx'.cqe = b /\ tx'.submitted[m]
            /\ tx'.total_size[m] = tx.total_size[m]
        BY <1>4, <1>6, <1>8
      <4>2. tx.wire[m] <= tx.total_size[m]
        BY <1>1, <1>4 DEF BytesOK
      <4> HIDE DEF Posted
      <4> QED BY <1>6, <1>9, <3>1, <4>1, <4>2
    <3>2. CASE k # m
      <4>1. k \in Messages /\ k \in tx.pending /\ ~tx.submitted[k]
        BY <1>1, <1>7, <1>8, <3>2
      <4> QED BY <1>1, <1>8, <3>2, <4>1 DEF BytesOK
    <3> QED BY <3>1, <3>2
  <2>2. ASSUME NEW j \in tx'.pending, NEW k \in Messages, j < k
        PROVE  tx'.wire[k] = 0
    <3>1. k # m
      BY <1>1, <1>6, <1>8, <2>2, AsyncTcpAssumption DEF Messages
    <3> QED BY <1>1, <1>8, <2>2, <3>1 DEF BytesOK
  <2>3. ASSUME NEW k \in Messages
        PROVE  /\ tx'.outcome[k] = "sent" => tx'.wire[k] = tx'.total_size[k]
               /\ tx'.outcome[k] = "dropped" => tx'.wire[k] = 0
    <3>1. tx.outcome[m] = "none"
      BY <1>1, <1>4, <1>6 DEF ListOK
    <3> QED BY <1>1, <1>8, <3>1 DEF BytesOK
  <2> QED BY <1>8, <1>9, <2>1, <2>2, <2>3 DEF BytesOK
<1>14. Once(tx, tx') /\ (Available(tx) => Available(tx'))
  BY <1>8 DEF Once, Available
<1> QED BY <1>8, <1>11, <1>12, <1>13, <1>14 DEF Good

-----------------------------------------------------------------------------
(* The invariant and what follows from it. *)

\* Every step keeps the invariant, and no report is changed.
LEMMA NextGood ==
    ASSUME TcpInv, [Next]_vars
    PROVE  TcpInv' /\ Once(tx, tx')
<1>1. next_id \in Nat /\ next_id # 0 /\ Good(tx, next_id)
  BY DEF TcpInv
<1>2. CASE UNCHANGED vars
  BY <1>2 DEF TcpInv, vars, Once
<1>3. ASSUME phase # "closed", Serves(tx, next_id, tx'), UNCHANGED next_id, phase' # "closed"
      PROVE  TcpInv' /\ Once(tx, tx')
  BY <1>1, <1>3 DEF TcpInv, Serves
<1>4. CASE Reap
  <2>1. /\ phase = "open" /\ tx' \in ReapResults(tx)
        /\ next_id' = next_id /\ phase' = phase
    BY <1>4, Zenon DEF Reap
  <2>2. Available(tx)
    BY <2>1 DEF TcpInv
  <2>3. Serves(tx, next_id, tx')
    BY <1>1, <2>1, <2>2, ReapGood
  <2> QED BY <1>3, <2>1, <2>3
<1>5. ASSUME NEW type \in Types, NEW size \in Sizes, NEW fd \in Sockets, SendMessage(type, size, fd)
      PROVE  TcpInv' /\ Once(tx, tx')
  <2>1. /\ phase = "open" /\ next_id \in Messages /\ Available(tx)
        /\ tx' \in Queued(tx, next_id, type, size, fd)
        /\ next_id' = next_id + 1 /\ phase' = phase
    BY <1>5, Zenon DEF SendMessage
  <2>2. Serves(tx, next_id + 1, tx')
    BY <1>1, <2>1, QueuedGood
  <2> QED BY <1>1, <2>1, <2>2 DEF TcpInv, Serves
<1>6. ASSUME NEW fd \in Sockets, RejectMessage(fd)
      PROVE  TcpInv' /\ Once(tx, tx')
  <2>1. /\ phase = "open" /\ tx' \in Rejected(tx, fd)
        /\ next_id' = next_id /\ phase' = phase
    BY <1>6, Zenon DEF RejectMessage
  <2>2. Available(tx)
    BY <2>1 DEF TcpInv
  <2>3. Serves(tx, next_id, tx')
    BY <1>1, <2>1, <2>2, RejectedGood
  <2> QED BY <1>3, <2>1, <2>3
<1>7. ASSUME NEW type \in Types, DropMessageType(type)
      PROVE  TcpInv' /\ Once(tx, tx')
  <2>1. /\ phase = "open" /\ tx' \in Dropped(tx, type)
        /\ next_id' = next_id /\ phase' = phase
    BY <1>7, Zenon DEF DropMessageType
  <2>2. Available(tx)
    BY <2>1 DEF TcpInv
  <2>3. Serves(tx, next_id, tx')
    BY <1>1, <2>1, <2>2, DroppedGood
  <2> QED BY <1>3, <2>1, <2>3
<1>8. CASE BeginDestroy
  <2> DEFINE full == tx.pending # {}
             q    == [tx EXCEPT !.shut = full]
  <2>1. /\ phase = "open" /\ phase' = "draining" /\ tx' \in RequestCancels(q) /\ next_id' = next_id
    BY <1>8, Zenon DEF BeginDestroy
  <2>2. Available(tx) /\ tx \in Sender
    BY <1>1, <2>1 DEF TcpInv, Good
  <2>3. full \in BOOLEAN
    OBVIOUS
  <2> HIDE DEF full
  <2>4. q \in Sender /\ Alike(tx, q) /\ q.ring_ready = tx.ring_ready /\ Available(q)
    BY <2>2, <2>3 DEF Sender, Alike, Available
  <2> HIDE DEF q
  <2>5. Serves(tx, next_id, q)
    BY <1>1, <2>4, AlikeGood DEF Serves
  <2>6. Serves(q, next_id, tx')
    BY <1>1, <2>1, <2>5, CancelGood DEF Serves
  <2>7. Serves(tx, next_id, tx')
    BY <2>5, <2>6, ServesServes
  <2> QED BY <1>3, <2>1, <2>7
<1>9. CASE DrainPass
  <2>1. /\ phase = "draining" /\ next_id' = next_id /\ phase' = phase
        /\ \E s \in ReapResults(tx) :
              LET left == PendingRemove(s, {m \in s.pending : ~s.submitted[m]}, "failed")
              IN  tx' \in IF Drained(left) THEN {left} ELSE RequestCancels(left)
    BY <1>9, Zenon DEF DrainPass
  <2>2. Available(tx)
    BY <2>1 DEF TcpInv
  <2>3. Serves(tx, next_id, tx')
    BY <1>1, <2>1, <2>2, DrainGood, Zenon
  <2> QED BY <1>3, <2>1, <2>3
<1>10. CASE FinishDestroy
  <2>1. /\ phase' = "closed" /\ next_id' = next_id
        /\ tx' = PendingRemove(Closed(tx), tx.pending, "failed")
    BY <1>10, Zenon DEF FinishDestroy, Closed
  <2>2. Good(tx', next_id) /\ Once(tx, tx') /\ tx'.pending = {}
    BY <1>1, <2>1, FinishGood
  <2> QED BY <1>1, <2>1, <2>2 DEF TcpInv
<1>11. CASE Create
  <2>1. phase = "closed" /\ phase' = "open" /\ tx' = SenderCreate(tx) /\ next_id' = next_id
    BY <1>11, Zenon DEF Create
  <2>2. Serves(tx, next_id, tx')
    BY <1>1, <2>1, CreateGood DEF TcpInv
  <2> QED BY <1>1, <2>1, <2>2 DEF TcpInv, Serves
<1>12. CASE KernelCompletes
  <2>1. next_id' = next_id /\ phase' = phase
    BY <1>12, Zenon DEF KernelCompletes
  <2>2. /\ Good(tx', next_id) /\ (Available(tx) => Available(tx')) /\ Once(tx, tx')
        /\ tx'.pending = tx.pending
    BY <1>1, <1>12, KernelGood
  <2> QED BY <1>1, <2>1, <2>2 DEF TcpInv
<1> QED BY <1>2, <1>4, <1>5, <1>6, <1>7, <1>8, <1>9, <1>10, <1>11, <1>12 DEF Next

\* The invariant holds of a sender that has just been created.
LEMMA InitGood == Init => TcpInv
<1> SUFFICES ASSUME Init PROVE TcpInv
  OBVIOUS
<1>1. tx \in Sender
  BY DEF Init, Sender, Outcomes, Pins, NoResult
<1>2. tx.total_size \in [Messages -> Nat] /\ TotalSize(tx, {}) = 0
  <2>1. tx.total_size \in [Messages -> Nat]
    BY DEF Init
  <2> QED BY <2>1, TotalSizeFacts
<1>3. ListOK(tx, next_id)
  BY <1>2, AsyncTcpAssumption DEF Init, ListOK, Messages
<1>4. HoldOK(tx)
  BY DEF Init, HoldOK, NoResult
<1>5. BytesOK(tx)
  BY DEF Init, BytesOK, NoResult
<1>6. next_id = 1 /\ phase = "open" /\ Available(tx)
  BY DEF Init, Available
<1> QED BY <1>1, <1>3, <1>4, <1>5, <1>6 DEF TcpInv, Good

\* The sender's state is consistent in every state of every behaviour: its types,
\* the list, the kernel's hold on the head and the bytes on the stream.
THEOREM TcpInvariant == Spec => []TcpInv
<1>1. TcpInv /\ [Next]_vars => TcpInv'
  BY NextGood
<1> QED BY <1>1, InitGood, PTL DEF Spec

\* No buffer is released under the kernel: what it holds is the one message at the
\* head of the list, whichever of a reap, a drop, a send or a teardown runs.
THEOREM KernelHoldsHead == Spec => []InFlightIsHead
<1>1. TcpInv => InFlightIsHead
  <2> SUFFICES ASSUME TcpInv PROVE InFlightIsHead
    OBVIOUS
  <2> DEFINE H == {m \in Messages : tx.submitted[m]}
  <2>1. HoldOK(tx) /\ tx \in Sender
    BY DEF TcpInv, Good
  <2>2. tx.pending \in SUBSET Messages /\ Messages \subseteq Nat /\ tx.inflight \in Nat
    BY <2>1, AsyncTcpAssumption DEF Sender, Messages
  <2>3. tx.inflight = Cardinality(H)
    <3>1. CASE H = {}
      BY <2>1, <3>1, FS_EmptySet DEF HoldOK
    <3>2. CASE H # {}
      <4>1. PICK m \in Messages : tx.submitted[m]
        BY <3>2
      <4>2. ASSUME NEW k \in H
            PROVE  k = m
        <5>1. k \in tx.pending /\ m \in tx.pending /\ k <= m /\ m <= k
          BY <2>1, <4>1 DEF HoldOK
        <5> QED BY <2>2, <5>1
      <4>3. H = {m}
        BY <4>1, <4>2
      <4>4. Cardinality({m}) = 1
        BY FS_Singleton
      <4>5. tx.inflight = 1
        BY <2>1, <4>1 DEF HoldOK
      <4> QED BY <4>3, <4>4, <4>5, Zenon
    <3> QED BY <3>1, <3>2
  <2>4. tx.taken \/ tx.cqe # NoResult => tx.ring_ready /\ \E m \in Messages : tx.submitted[m]
    BY <2>1 DEF HoldOK
  <2>5. \A m \in Messages : tx.submitted[m] => m \in tx.pending /\ \A k \in tx.pending : m <= k
    BY <2>1 DEF HoldOK
  <2> QED BY <2>3, <2>4, <2>5 DEF InFlightIsHead
<1> QED BY <1>1, TcpInvariant, PTL

\* The books of the queue are exact, the byte count included, for queues of any
\* length and messages of any sizes.
THEOREM QueueBooks == Spec => []QueueExact
<1>1. TcpInv => QueueExact
  BY DEF TcpInv, Good, ListOK, QueueExact
<1> QED BY <1>1, TcpInvariant, PTL

\* A message reported sent is on the stream, one reported dropped never was.
THEOREM ReportsTrue == Spec => []OutcomeMatchesWire
<1>1. TcpInv => OutcomeMatchesWire
  BY DEF TcpInv, Good, BytesOK, OutcomeMatchesWire
<1> QED BY <1>1, TcpInvariant, PTL

\* Partial sends, retries, drops and the change to the fallback never interleave
\* the frames of two messages on the stream.
THEOREM FramesWhole == Spec => []Framing
<1>1. TcpInv => Framing
  <2> SUFFICES ASSUME TcpInv, NEW m \in Messages, NEW k \in Messages,
                      m < k, tx.wire[k] > 0, tx.wire[m] \in 1 .. (tx.total_size[m] - 1)
               PROVE  tx.outcome[m] = "failed"
    BY DEF Framing
  <2>1. /\ tx \in Sender /\ ListOK(tx, next_id) /\ BytesOK(tx) /\ next_id \in Nat
        /\ m \in Nat /\ k \in Nat
    BY AsyncTcpAssumption DEF TcpInv, Good, Messages
  <2>2. /\ tx.wire[m] \in Nat /\ tx.wire[k] \in Nat /\ tx.total_size[m] \in Nat
        /\ tx.outcome[m] \in Outcomes
    BY <2>1 DEF Sender
  <2>3. m < next_id
    BY <2>1, <2>2 DEF ListOK
  <2>4. m \notin tx.pending
    BY <2>1, <2>2 DEF BytesOK
  <2>5. tx.outcome[m] # "none"
    BY <2>1, <2>3, <2>4 DEF ListOK
  <2>6. tx.outcome[m] # "sent" /\ tx.outcome[m] # "dropped"
    BY <2>1, <2>2 DEF BytesOK
  <2> QED BY <2>2, <2>5, <2>6 DEF Outcomes
<1> QED BY <1>1, TcpInvariant, PTL

\* No message is reported twice, and no report is taken back.
THEOREM ReportedOnce == Spec => CompletedOnce
<1>1. TcpInv /\ [Next]_vars => [\A m \in Messages : tx.outcome[m] # "none" => tx'.outcome[m] = tx.outcome[m]]_vars
  BY NextGood DEF Once
<1> QED BY <1>1, TcpInvariant, PTL DEF Spec, CompletedOnce

=============================================================================
