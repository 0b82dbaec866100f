-------------------------- MODULE LeadershipProofs --------------------------
(***************************************************************************)
(* Proofs about Leadership for every set of members, every clock skew and  *)
(* every bound.  The safety invariants talk about three variables only:    *)
(* the token at the coordinator, the log, and the token of each member.    *)
(* AuthorityInv is their inductive strengthening; every action is one of   *)
(* eight kinds of step on these three variables (CoreNext).                *)
(***************************************************************************)
EXTENDS Leadership, FiniteSetTheorems, WellFoundedInduction, TLAPS

Rank(t, u) == t = u \/ Supersedes(u, t)

\* No member and no lease record is ahead of the coordinator.
TokensBelow == \A m \in Member : Rank(token[m], coord)

LogBelow ==
  \A i \in DOMAIN log :
    /\ log[i].kind = "lease" => log[i].token \in MintedToken /\ Rank(log[i].token, coord)
    /\ log[i].status = "open" => log[i].kind = "lease"

\* No token is in the hands of two members.
TokensUnique ==
  \A m, n \in Member : token[m] # NoEpoch /\ token[m] = token[n] => m = n

\* A member without a token has no handle and no write in progress.
TokenBacksWrites ==
  \A m \in Member : token[m] = NoEpoch =>
    held[m] # "live" /\ \A w \in Writers : writer[m][w].pc = "off"

AuthorityInv ==
  /\ TokensBelow /\ LogBelow /\ TokensUnique
  /\ OpenWritesAreCurrent /\ LeaseTokensGrow /\ LeaseProvesAuthor

IndInv == TypeOK /\ AuthorityInv /\ TokenBacksWrites

-----------------------------------------------------------------------------
(***************************************************************************)
(* The order of the tokens.                                                *)
(***************************************************************************)
\* NextToken mints a token that supersedes the one before it, also when the
\* epoch wraps to a fresh producer id.
LEMMA NextTokenSupersedes ==
  ASSUME NEW t \in Token
  PROVE  NextToken(t) \in MintedToken /\ Supersedes(NextToken(t), t)
BY MaxEpochAssumption DEF Token, MintedToken, NoEpoch, NextToken, Supersedes

\* Supersedes is a strict order on tokens, so a token at or below another is
\* below whatever supersedes that one, and differs from it.
LEMMA BelowNext ==
  ASSUME NEW t \in Token, NEW u \in Token, NEW v \in Token,
         Rank(t, u), Supersedes(v, u)
  PROVE  Rank(t, v) /\ t # v /\ ~Supersedes(t, v)
BY MaxEpochAssumption DEF Token, MintedToken, NoEpoch, Supersedes, Rank

\* A token at or below another does not supersede it.
LEMMA RankNotSupersedes ==
  ASSUME NEW t \in Token, NEW u \in Token, Rank(t, u)
  PROVE  ~Supersedes(t, u)
BY MaxEpochAssumption DEF Token, MintedToken, NoEpoch, Supersedes, Rank

\* The token of no member is not a minted one.
LEMMA NoEpochNotMinted == NoEpoch \in Token /\ NoEpoch \notin MintedToken
BY DEF NoEpoch, Token, MintedToken

-----------------------------------------------------------------------------
(***************************************************************************)
(* The log.                                                                *)
(***************************************************************************)
\* Ending the open transaction keeps the log well typed, keeps its length,
\* and changes nothing but the status of open records.
LEMMA EndOpenFacts ==
  ASSUME log \in Seq(LogRecord), NEW verdict \in {"committed", "aborted"},
         log' = EndOpen(log, verdict)
  PROVE  /\ log' \in Seq(LogRecord) /\ DOMAIN log' = DOMAIN log
         /\ \A i \in DOMAIN log :
              /\ log'[i].kind = log[i].kind /\ log'[i].token = log[i].token
              /\ log'[i].member = log[i].member
              /\ log'[i].status = IF log[i].status = "open" THEN verdict
                                  ELSE log[i].status
<1>1. \A i \in DOMAIN log : log[i] \in LogRecord
  OBVIOUS
<1>2. DOMAIN log' = DOMAIN log
  BY DEF EndOpen
<1>3. \A i \in DOMAIN log :
        log'[i] = IF log[i].status = "open"
                  THEN [log[i] EXCEPT !.status = verdict] ELSE log[i]
  BY DEF EndOpen
<1>4. ASSUME NEW i \in DOMAIN log
      PROVE  /\ log'[i] \in LogRecord
             /\ log'[i].kind = log[i].kind /\ log'[i].token = log[i].token
             /\ log'[i].member = log[i].member
             /\ log'[i].status = IF log[i].status = "open" THEN verdict
                                 ELSE log[i].status
  BY <1>1, <1>3 DEF LogRecord
<1>5. DOMAIN log = 1 .. Len(log) /\ Len(log) \in Nat
  OBVIOUS
<1>6. log' \in Seq(LogRecord)
  <2>1. log' = [i \in 1 .. Len(log) |-> log'[i]]
    BY <1>5 DEF EndOpen
  <2> QED BY <2>1, <1>4, <1>5
<1> QED BY <1>2, <1>4, <1>6

\* Appending a record keeps the records that were there.
LEMMA AppendFacts ==
  ASSUME log \in Seq(LogRecord), NEW r \in LogRecord, log' = Append(log, r)
  PROVE  /\ log' \in Seq(LogRecord) /\ Len(log') = Len(log) + 1
         /\ DOMAIN log' = 1 .. Len(log) + 1 /\ DOMAIN log = 1 .. Len(log)
         /\ \A i \in DOMAIN log : log'[i] = log[i]
         /\ log'[Len(log) + 1] = r /\ Len(log) \in Nat
OBVIOUS

-----------------------------------------------------------------------------
(***************************************************************************)
(* The kinds of step on coord, log and token, one lemma for each.          *)
(***************************************************************************)
Core == coord \in Token /\ log \in Seq(LogRecord) /\ token \in [Member -> Token]

\* A step that touches none of the three.
LEMMA CoreUnchanged ==
  ASSUME AuthorityInv, UNCHANGED <<coord, log, token>>
  PROVE  AuthorityInv'
BY DEF AuthorityInv, TokensBelow, LogBelow, TokensUnique, OpenWritesAreCurrent,
       LeaseTokensGrow, LeaseProvesAuthor, Rank, Supersedes

\* A registration is appended.
LEMMA CoreRegister ==
  ASSUME Core, AuthorityInv, NEW r \in LogRecord, r.kind = "registration",
         r.status = "committed", log' = Append(log, r), UNCHANGED <<coord, token>>
  PROVE  AuthorityInv'
<1>1. /\ DOMAIN log' = 1 .. Len(log) + 1 /\ DOMAIN log = 1 .. Len(log)
      /\ \A i \in DOMAIN log : log'[i] = log[i]
      /\ log'[Len(log) + 1] = r /\ Len(log) \in Nat
  BY AppendFacts DEF Core
<1>2. \A i \in DOMAIN log' : i \in DOMAIN log \/ log'[i] = r
  BY <1>1
<1>3. \A i \in DOMAIN log' : log'[i].kind = "lease" \/ log'[i].status = "open"
                             => i \in DOMAIN log /\ log'[i] = log[i]
  BY <1>1, <1>2
<1>4. TokensBelow' /\ TokensUnique'
  BY DEF AuthorityInv, TokensBelow, TokensUnique, Rank, Supersedes
<1>5. LogBelow' /\ OpenWritesAreCurrent'
  BY <1>3 DEF AuthorityInv, LogBelow, OpenWritesAreCurrent, Rank, Supersedes
<1>6. LeaseTokensGrow'
  BY <1>3 DEF AuthorityInv, LeaseTokensGrow, Supersedes
<1>7. LeaseProvesAuthor'
  BY <1>3 DEF AuthorityInv, LeaseProvesAuthor
<1> QED BY <1>4, <1>5, <1>6, <1>7 DEF AuthorityInv

\* A member that holds the current token appends an open lease record.
LEMMA CoreProduce ==
  ASSUME Core, AuthorityInv, NEW m \in Member, token[m] = coord, token[m] # NoEpoch,
         NEW r \in LogRecord, r.kind = "lease", r.token = token[m], r.member = m,
         log' = Append(log, r), UNCHANGED <<coord, token>>
  PROVE  AuthorityInv'
<1>1. /\ DOMAIN log' = 1 .. Len(log) + 1 /\ DOMAIN log = 1 .. Len(log)
      /\ \A i \in DOMAIN log : log'[i] = log[i]
      /\ log'[Len(log) + 1] = r /\ Len(log) \in Nat
  BY AppendFacts DEF Core
<1>2. \A i \in DOMAIN log' : \/ i \in DOMAIN log /\ log'[i] = log[i]
                             \/ i = Len(log) + 1 /\ log'[i] = r
  BY <1>1
<1>3. coord \in MintedToken
  BY DEF Core, Token
<1>4. TokensBelow' /\ TokensUnique'
  BY DEF AuthorityInv, TokensBelow, TokensUnique, Rank, Supersedes
<1>5. LogBelow'
  <2>1. Rank(r.token, coord)
    BY DEF Rank
  <2> QED BY <1>2, <1>3, <2>1 DEF AuthorityInv, LogBelow, Rank, Supersedes
<1>6. OpenWritesAreCurrent'
  BY <1>2 DEF AuthorityInv, OpenWritesAreCurrent
<1>7. LeaseTokensGrow'
  <2> SUFFICES ASSUME NEW i \in DOMAIN log', NEW j \in DOMAIN log', i < j,
                      log'[i].kind = "lease", log'[j].kind = "lease",
                      log'[i].status # "aborted", log'[j].status # "aborted"
               PROVE  ~Supersedes(log'[i].token, log'[j].token)
    BY DEF LeaseTokensGrow, Supersedes
  <2>1. i \in DOMAIN log /\ log'[i] = log[i]
    BY <1>1, <1>2
  <2>2. CASE j \in DOMAIN log
    BY <1>1, <2>1, <2>2 DEF AuthorityInv, LeaseTokensGrow
  <2>3. CASE j = Len(log) + 1
    <3>1. log'[j].token = coord
      BY <1>1, <2>3
    <3>2. Rank(log[i].token, coord) /\ log[i].token \in Token
      BY <2>1 DEF AuthorityInv, LogBelow, Token
    <3> QED BY <2>1, <3>1, <3>2, RankNotSupersedes DEF Core
  <2> QED BY <1>1, <2>2, <2>3
<1>8. LeaseProvesAuthor'
  <2>1. \A n \in Member : token[n] = r.token => n = m
    BY DEF AuthorityInv, TokensUnique
  <2>2. \A i \in DOMAIN log : log[i].kind = "lease" /\ log[i].token = r.token
                              => log[i].member = m
    BY DEF AuthorityInv, LeaseProvesAuthor
  <2> QED BY <1>2, <2>1, <2>2 DEF AuthorityInv, LeaseProvesAuthor
<1> QED BY <1>4, <1>5, <1>6, <1>7, <1>8 DEF AuthorityInv

\* The open transaction ends, and nothing else changes.
LEMMA CoreEndOpen ==
  ASSUME Core, AuthorityInv, NEW verdict \in {"committed", "aborted"},
         log' = EndOpen(log, verdict), UNCHANGED <<coord, token>>
  PROVE  AuthorityInv'
<1>1. /\ DOMAIN log' = DOMAIN log
      /\ \A i \in DOMAIN log :
           /\ log'[i].kind = log[i].kind /\ log'[i].token = log[i].token
           /\ log'[i].member = log[i].member
           /\ log'[i].status = IF log[i].status = "open" THEN verdict
                               ELSE log[i].status
  BY EndOpenFacts DEF Core
<1>2. \A i \in DOMAIN log : /\ log'[i].status # "open"
                            /\ log'[i].status # "aborted" => log[i].status # "aborted"
  BY <1>1
<1>3. TokensBelow' /\ TokensUnique'
  BY DEF AuthorityInv, TokensBelow, TokensUnique, Rank, Supersedes
<1>4. LogBelow' /\ OpenWritesAreCurrent'
  BY <1>1, <1>2 DEF AuthorityInv, LogBelow, OpenWritesAreCurrent, Rank, Supersedes
<1>5. LeaseTokensGrow'
  BY <1>1, <1>2 DEF AuthorityInv, LeaseTokensGrow, Supersedes
<1>6. LeaseProvesAuthor'
  BY <1>1 DEF AuthorityInv, LeaseProvesAuthor
<1> QED BY <1>3, <1>4, <1>5, <1>6 DEF AuthorityInv

\* The coordinator mints a token, and either no member gets it or one does.
LEMMA CoreMint ==
  ASSUME Core, AuthorityInv, MintAtCoordinator,
         \/ UNCHANGED token
         \/ \E m \in Member : token' = [token EXCEPT ![m] = NextToken(coord)]
  PROVE  AuthorityInv'
<1> DEFINE new == NextToken(coord)
<1>1. coord' = new /\ new \in MintedToken /\ new \in Token /\ Supersedes(new, coord)
  BY NextTokenSupersedes DEF Core, MintAtCoordinator, Token
<1>2. /\ DOMAIN log' = DOMAIN log
      /\ \A i \in DOMAIN log :
           /\ log'[i].kind = log[i].kind /\ log'[i].token = log[i].token
           /\ log'[i].member = log[i].member
           /\ log'[i].status # "open"
           /\ log'[i].status # "aborted" => log[i].status # "aborted"
  BY EndOpenFacts DEF Core, MintAtCoordinator
<1>3. \A n \in Member : Rank(token[n], new) /\ token[n] # new
  BY <1>1, BelowNext DEF Core, AuthorityInv, TokensBelow
<1>4. \A i \in DOMAIN log : log[i].kind = "lease" =>
        Rank(log[i].token, new) /\ log[i].token # new /\ log[i].token \in MintedToken
  BY <1>1, BelowNext DEF Core, AuthorityInv, LogBelow, Token
<1>5. \A n \in Member : token'[n] = token[n] \/ token'[n] = new
  BY DEF Core
<1>6. \A m, n \in Member : token'[m] = new /\ token'[n] = new => m = n
  BY <1>3 DEF Core
<1> HIDE DEF new
<1>7. TokensBelow'
  BY <1>1, <1>3, <1>5 DEF TokensBelow, Rank, Supersedes
<1>8. LogBelow'
  BY <1>1, <1>2, <1>4 DEF LogBelow, Rank, Supersedes
<1>9. TokensUnique'
  BY <1>3, <1>5, <1>6 DEF AuthorityInv, TokensUnique
<1>10. OpenWritesAreCurrent'
  BY <1>2 DEF OpenWritesAreCurrent
<1>11. LeaseTokensGrow'
  BY <1>2 DEF AuthorityInv, LeaseTokensGrow, Supersedes
<1>12. LeaseProvesAuthor'
  BY <1>2, <1>4, <1>5 DEF AuthorityInv, LeaseProvesAuthor
<1> QED BY <1>7, <1>8, <1>9, <1>10, <1>11, <1>12 DEF AuthorityInv

\* A process stops, and its token is gone with it.
LEMMA CoreCrash ==
  ASSUME Core, AuthorityInv, NEW m \in Member,
         token' = [token EXCEPT ![m] = NoEpoch], UNCHANGED <<coord, log>>
  PROVE  AuthorityInv'
<1>1. \A n \in Member : token'[n] = token[n] \/ token'[n] = NoEpoch
  BY DEF Core
<1>2. Rank(NoEpoch, coord)
  BY MaxEpochAssumption DEF Core, Token, MintedToken, NoEpoch, Rank, Supersedes
<1>3. TokensBelow'
  BY <1>1, <1>2 DEF AuthorityInv, TokensBelow, Rank, Supersedes
<1>4. TokensUnique'
  BY <1>1 DEF AuthorityInv, TokensUnique
<1>5. LogBelow' /\ OpenWritesAreCurrent' /\ LeaseTokensGrow'
  BY DEF AuthorityInv, LogBelow, OpenWritesAreCurrent, LeaseTokensGrow, Rank, Supersedes
<1>6. LeaseProvesAuthor'
  BY <1>1, NoEpochNotMinted DEF AuthorityInv, LeaseProvesAuthor, LogBelow
<1> QED BY <1>3, <1>4, <1>5, <1>6 DEF AuthorityInv

-----------------------------------------------------------------------------
(***************************************************************************)
(* Type correctness, action by action.                                     *)
(***************************************************************************)
\* Instants stay integers.
LEMMA InstantsAreIntegers ==
  /\ \A x \in Int, d \in Int : AddMillis(x, d) \in Int
  /\ \A x \in Int : GrantDeadline(x) \in Int
  /\ \A r \in Nat : ChallengeDelay(r) \in Int
  /\ now \in Nat => \A m \in Member : LocalNow(m) \in Int
<1>1. \A x \in Int, d \in Int : AddMillis(x, d) \in Int
  BY LeaseConfigAssumption DEF AddMillis
<1>2. \A x \in Int : GrantDeadline(x) \in Int
  BY LeaseConfigAssumption, <1>1 DEF GrantDeadline
<1>3. \A r \in Nat : ChallengeDelay(r) \in Int
  BY LeaseConfigAssumption DEF ChallengeDelay
<1>4. ASSUME now \in Nat, NEW m \in Member PROVE LocalNow(m) \in Int
  <2>1. Skew \in [Member -> Int]
    BY LeadershipAssumption
  <2> QED BY <1>4, <2>1 DEF LocalNow
<1> QED BY <1>1, <1>2, <1>3, <1>4

\* The two records that members append are well typed.
LEMMA RecordsTyped ==
  ASSUME ClusterType, HandleType, NEW m \in Member
  PROVE  /\ RegistrationRecord(m) \in LogRecord
         /\ \A at \in Int, tomb \in BOOLEAN : LeaseRecord(m, at, tomb) \in LogRecord
<1>1. LocalNow(m) \in Int /\ \A at \in Int : GrantDeadline(at) \in Int
  BY InstantsAreIntegers DEF ClusterType
<1>2. token[m] \in Token /\ NoEpoch \in Token
  BY NoEpochNotMinted DEF HandleType
<1> QED BY <1>1, <1>2 DEF RegistrationRecord, LeaseRecord, LogRecord

\* A non-empty set of naturals has a least element.
LEMMA LeastNatural ==
  ASSUME NEW T, T \subseteq Nat, T # {}
  PROVE  \E i \in T : \A j \in T : i <= j
<1> DEFINE below == {ss \in Nat \X Nat : ss[1] < ss[2]}
<1>1. IsWellFoundedOn(below, Nat)
  BY NatLessThanWellFounded, Zenon DEF OpToRel
<1> HIDE DEF below
<1>2. \E i \in T : \A j \in T : ~(<<j, i>> \in below)
  BY <1>1, WFMin
<1>3. ASSUME NEW i \in Nat, NEW j \in Nat, ~(<<j, i>> \in below) PROVE i <= j
  <2>1. <<j, i>>[1] = j /\ <<j, i>>[2] = i /\ <<j, i>> \in Nat \X Nat
    OBVIOUS
  <2>2. ~(j < i)
    BY <1>3, <2>1, Zenon DEF below
  <2> QED BY <2>2
<1> QED BY <1>2, <1>3

\* A non-empty bounded set of naturals has a greatest element.
LEMMA GreatestNatural ==
  ASSUME NEW n \in Nat, NEW T, T \subseteq 0 .. n, T # {}
  PROVE  \E i \in T : \A j \in T : j <= i
<1> DEFINE D == {n - i : i \in T}
<1>1. D \subseteq Nat /\ D # {}
  <2>1. \A i \in T : i \in Int /\ 0 <= i /\ i <= n
    OBVIOUS
  <2>2. PICK k \in T : TRUE
    OBVIOUS
  <2>3. n - k \in D
    OBVIOUS
  <2>4. \A i \in T : n - i \in Nat
    BY <2>1
  <2>5. ASSUME NEW x \in D PROVE x \in Nat
    BY <2>4
  <2> QED BY <2>3, <2>5
<1>2. \E d \in D : \A e \in D : d <= e
  <2> HIDE DEF D
  <2> QED BY <1>1, LeastNatural
<1>3. PICK k \in T : \A j \in T : n - k <= n - j
  BY <1>2
<1> QED BY <1>3

\* The last stable offset is a position of the log.
LEMMA LastStableTyped ==
  ASSUME log \in Seq(LogRecord)
  PROVE  LastStableOffset(log) \in 0 .. Len(log)
<1> DEFINE open == OpenOffsets(log)
<1>1. Len(log) \in Nat /\ open \subseteq 1 .. Len(log)
  BY DEF OpenOffsets
<1>2. CASE open = {}
  BY <1>1, <1>2 DEF LastStableOffset
<1>3. CASE open # {}
  <2>1. open \subseteq Nat
    BY <1>1
  <2>2. \E i \in open : \A j \in open : i <= j
    BY <1>3, <2>1, LeastNatural
  <2> QED BY <1>1, <1>3, <2>2 DEF LastStableOffset
<1> QED BY <1>2, <1>3

\* Replacing the state of one writer keeps the type of all of them.
LEMMA WriterUpdate ==
  ASSUME NEW f \in [Member -> [Writers -> WriterState]],
         NEW m \in Member, NEW w \in Writers, NEW v \in WriterState
  PROVE  /\ [f EXCEPT ![m][w] = v] \in [Member -> [Writers -> WriterState]]
         /\ \A n \in Member, x \in Writers :
              [f EXCEPT ![m][w] = v][n][x] = IF n = m /\ x = w THEN v ELSE f[n][x]
OBVIOUS

\* The state of a writer is a program counter and an instant.
LEMMA WriterTyped ==
  ASSUME HandleType, NEW m \in Member, NEW w \in Writers
  PROVE  writer[m][w].pc \in WriterPcs /\ writer[m][w].at \in Int
<1>1. writer[m][w] \in WriterState
  BY DEF HandleType
<1> QED BY <1>1 DEF WriterState

\* Every writer keeps a state of its own type, and SetPc moves one of them.
LEMMA SetPcTyped ==
  ASSUME HandleType, NEW m \in Member, NEW w \in Writers, NEW to \in WriterPcs,
         SetPc(m, w, to)
  PROVE  /\ writer' \in [Member -> [Writers -> WriterState]]
         /\ \A n \in Member, x \in Writers :
              writer'[n][x].pc = IF n = m /\ x = w THEN to ELSE writer[n][x].pc
<1>1. writer \in [Member -> [Writers -> WriterState]]
  BY DEF HandleType
<1> DEFINE v == [pc |-> to, at |-> IF to \in {"off", "done", "top"} THEN 0
                                   ELSE writer[m][w].at]
<1>2. v \in WriterState /\ v.pc = to
  BY <1>1 DEF WriterState
<1>3. writer' = [writer EXCEPT ![m][w] = v]
  BY DEF SetPc
<1> HIDE DEF v
<1> QED BY <1>1, <1>2, <1>3, WriterUpdate


-----------------------------------------------------------------------------
(***************************************************************************)
(* The decision of a member is an instant when it says to wait.            *)
(***************************************************************************)
StateRecord ==
  [offset : Nat, role : {Role}, kind : {"registration", "lease"}, member : Member,
   tombstone : BOOLEAN, at : Int, deadline : Int, token : Token]

RoleStates ==
  [roster : SUBSET [member : Member, offset : Nat, registeredAt : Int],
   lease : LeaseValue \union {NoLease}]

\* The newest of some records of a partition is one of them.
LEMMA NewestTyped ==
  ASSUME NEW n \in Nat, NEW R, R # {}, R \subseteq StateRecord,
         \A r \in R : r.offset \in 0 .. n
  PROVE  Newest(R) \in R
<1> DEFINE T == {r.offset : r \in R}
<1>1. T \subseteq 0 .. n /\ T # {}
  OBVIOUS
<1>2. \E i \in T : \A j \in T : j <= i
  <2> HIDE DEF T
  <2> QED BY <1>1, GreatestNatural
<1>3. \E r \in R : \A s \in R : s.offset <= r.offset
  BY <1>2
<1> QED BY <1>3 DEF Newest

\* The records a member reads are state records with offsets of the log.
LEMMA VisibleTyped ==
  ASSUME ClusterType, NEW n \in Nat, n <= Len(log)
  PROVE  /\ VisibleRecords(n) \subseteq StateRecord
         /\ \A r \in VisibleRecords(n) : r.offset \in 0 .. n
<1>1. \A i \in 1 .. n : log[i] \in LogRecord
  BY DEF ClusterType
<1>2. ASSUME NEW i \in 1 .. n
      PROVE  [offset |-> i, role |-> Role, kind |-> log[i].kind,
              member |-> log[i].member, tombstone |-> log[i].tombstone,
              at |-> log[i].at, deadline |-> log[i].deadline,
              token |-> log[i].token] \in StateRecord
  BY <1>1, <1>2 DEF StateRecord, LogRecord
<1>3. \A r \in VisibleRecords(n) : r \in StateRecord /\ r.offset \in 1 .. n
  BY <1>2 DEF VisibleRecords
<1> QED BY <1>3

\* The role state that a member folds is well typed.
LEMMA RoleStateTyped ==
  ASSUME ClusterType, NEW n \in Nat, n <= Len(log)
  PROVE  RoleStateAt(n) \in RoleStates /\ IsFiniteSet(RoleStateAt(n).roster)
<1> DEFINE S == VisibleRecords(n)
           live == {m \in Member : /\ OfMember(Role, S, m) # {}
                                   /\ ~Newest(OfMember(Role, S, m)).tombstone}
           L == Newest(OfLease(Role, S))
           roster == {[member |-> m, offset |-> Newest(OfMember(Role, S, m)).offset,
                       registeredAt |-> Newest(OfMember(Role, S, m)).at] : m \in live}
           lse == IF OfLease(Role, S) = {} THEN NoLease
                  ELSE IF L.tombstone THEN NoLease ELSE LeaseOfRecord(L)
<1>1. S \subseteq StateRecord /\ \A r \in S : r.offset \in 0 .. n
  BY VisibleTyped
<1>2. RoleStateAt(n) = [roster |-> roster, lease |-> lse]
  BY DEF RoleStateAt, BuildRoleState
<1> HIDE DEF S
<1>3. ASSUME NEW m \in live
      PROVE  [member |-> m, offset |-> Newest(OfMember(Role, S, m)).offset,
              registeredAt |-> Newest(OfMember(Role, S, m)).at]
             \in [member : Member, offset : Nat, registeredAt : Int]
  <2>1. OfMember(Role, S, m) # {} /\ OfMember(Role, S, m) \subseteq S
    BY DEF OfMember
  <2>2. Newest(OfMember(Role, S, m)) \in StateRecord
    BY <1>1, <2>1, NewestTyped
  <2> QED BY <2>2 DEF StateRecord
<1>4. roster \in SUBSET [member : Member, offset : Nat, registeredAt : Int]
  BY <1>3
<1>5. lse \in LeaseValue \union {NoLease}
  <2>1. CASE OfLease(Role, S) = {}
    BY <2>1
  <2>2. CASE OfLease(Role, S) # {}
    <3>1. OfLease(Role, S) \subseteq S
      BY DEF OfLease
    <3>2. L \in StateRecord
      BY <1>1, <2>2, <3>1, NewestTyped
    <3>3. LeaseOfRecord(L) \in LeaseValue
      BY <3>2 DEF StateRecord, LeaseOfRecord, LeaseValue
    <3> QED BY <2>2, <3>3
  <2> QED BY <2>1, <2>2
<1>6. IsFiniteSet(roster)
  <2> DEFINE entry == [m \in live |->
               [member |-> m, offset |-> Newest(OfMember(Role, S, m)).offset,
                registeredAt |-> Newest(OfMember(Role, S, m)).at]]
  <2>1. IsFiniteSet(live)
    BY MemberAssumption, FS_Subset
  <2>2. entry \in Surjection(live, roster)
    BY DEF Surjection
  <2> HIDE DEF live, roster, entry
  <2> QED BY <2>1, <2>2, FS_Surjection
<1> QED BY <1>2, <1>4, <1>5, <1>6 DEF RoleStates

\* Evaluate tells a member to wait until an instant.
LEMMA EvaluateTyped ==
  ASSUME NEW state \in RoleStates, IsFiniteSet(state.roster), NEW m \in Member,
         NEW t \in Int, Evaluate(state, m, t).action = "wait"
  PROVE  Evaluate(state, m, t).until \in Int
<1>1. Registered(state, m)
  BY DEF Evaluate
<1>2. Evaluate(state, m, t).until = ChallengeInstant(state, m)
  BY DEF Evaluate
<1>3. Entry(state, m) \in state.roster
  BY <1>1 DEF Registered, Entry
<1>4. Entry(state, m).registeredAt \in Int
  BY <1>3 DEF RoleStates
<1>5. RankOf(state, m) \in Nat
  <2> DEFINE ahead == {e \in state.roster : /\ ~IsHolder(state, e.member)
                                            /\ e.offset < Entry(state, m).offset}
  <2>1. IsFiniteSet(ahead)
    BY FS_Subset
  <2>2. Cardinality(ahead) \in Nat
    <3> HIDE DEF ahead
    <3> QED BY <2>1, FS_CardinalityType
  <2> QED BY <2>2 DEF RankOf
<1>6. state.lease # NoLease => state.lease.deadline \in Int
  BY DEF RoleStates, LeaseValue
<1>7. ChallengeDelay(RankOf(state, m)) \in Int
  BY <1>5, InstantsAreIntegers
<1>8. ChallengeInstant(state, m) \in Int
  BY <1>4, <1>6, <1>7, InstantsAreIntegers DEF ChallengeInstant, ChallengeAt
<1> QED BY <1>2, <1>8

-----------------------------------------------------------------------------
(***************************************************************************)
(* Type correctness, action by action.                                     *)
(***************************************************************************)
\* The log changes in three ways; each keeps its type and its length does
\* not shrink, so what a member has read stays inside it.
LogStep ==
  \/ UNCHANGED log
  \/ \E r \in LogRecord : log' = Append(log, r)
  \/ \E v \in {"committed", "aborted"} : log' = EndOpen(log, v)

\* A step of the log keeps it a sequence of records that does not shrink.
LEMMA LogStepTyped ==
  ASSUME log \in Seq(LogRecord), LogStep
  PROVE  log' \in Seq(LogRecord) /\ Len(log') \in Nat /\ Len(log) <= Len(log')
<1>1. CASE UNCHANGED log
  BY <1>1
<1>2. ASSUME NEW r \in LogRecord, log' = Append(log, r)
      PROVE  log' \in Seq(LogRecord) /\ Len(log') = Len(log) + 1
  BY <1>2, AppendFacts
<1>3. ASSUME NEW v \in {"committed", "aborted"}, log' = EndOpen(log, v)
      PROVE  log' \in Seq(LogRecord) /\ Len(log') = Len(log)
  <2>1. log' \in Seq(LogRecord) /\ DOMAIN log' = DOMAIN log
    BY <1>3, EndOpenFacts
  <2> QED BY <2>1
<1> QED BY <1>1, <1>2, <1>3 DEF LogStep

\* Every step of the acquire loop keeps the types.
LEMMA AcquireTyped ==
  ASSUME TypeOK, NEW m \in Member, AcquireStep(m)
  PROVE  TypeOK'
<1> USE DEF TypeOK
<1>1. LocalNow(m) \in Int /\ Len(log) \in Nat
  BY InstantsAreIntegers DEF ClusterType
<1>2. CASE StartAcquire(m)
  <2>1. ClusterType' /\ AcquireType'
    BY <1>1, <1>2 DEF StartAcquire, ClusterType, AcquireType, clusterVars
  <2>2. AllOff \in [Writers -> WriterState]
    BY DEF AllOff, Off, WriterState, WriterPcs
  <2>3. HandleType'
    BY <1>2, <2>2 DEF StartAcquire, HandleType
  <2> QED BY <1>2, <2>1, <2>3 DEF StartAcquire, boundVars
<1>3. CASE ReadRoleState(m)
  <2>1. LastStableOffset(log) \in 0 .. Len(log)
    BY LastStableTyped DEF ClusterType
  <2>2. ClusterType' /\ AcquireType'
    BY <1>1, <1>3, <2>1 DEF ReadRoleState, ClusterType, AcquireType, clusterVars
  <2>3. HandleType'
    BY <1>3 DEF ReadRoleState, HandleType, handleVars
  <2> QED BY <1>3, <2>2, <2>3 DEF ReadRoleState, boundVars
<1>4. CASE EvaluateState(m)
  <2> DEFINE state == RoleStateAt(seen[m])
             d == Evaluate(state, m, LocalNow(m))
  <2>1. state \in RoleStates /\ IsFiniteSet(state.roster)
    BY RoleStateTyped DEF AcquireType
  <2>2. d.action = "wait" => d.until \in Int
    BY <1>1, <2>1, EvaluateTyped
  <2>3. PollInterval \in Nat
    BY LeadershipAssumption
  <2>4. d.action = "wait" => MinOf(d.until, LocalNow(m) + PollInterval) \in Int
    BY <1>1, <2>2, <2>3 DEF MinOf
  <2>9. Act(m, d)
    <3>1. \E st \in {RoleStateAt(seen[m])} :
            \E e \in {Evaluate(st, m, LocalNow(m))} : Act(m, e)
      BY <1>4, Zenon DEF EvaluateState
    <3>2. PICK st \in {RoleStateAt(seen[m])} :
            \E e \in {Evaluate(st, m, LocalNow(m))} : Act(m, e)
      BY <3>1, Zenon
    <3>3. st = state
      BY Zenon
    <3>4. PICK e \in {Evaluate(st, m, LocalNow(m))} : Act(m, e)
      BY <3>2, Zenon
    <3>5. e = d
      BY <3>3, Zenon
    <3> QED BY <3>4, <3>5, Zenon
  <2>5. /\ seen' = [seen EXCEPT ![m] = 0]
        /\ UNCHANGED <<now, coord, log, registered, bornAt, token, held, lease,
                       writer, timing, faults, stops>>
    <3>1. seen' = [seen EXCEPT ![m] = 0]
      BY <1>4, Zenon DEF EvaluateState
    <3>2. UNCHANGED <<now, clusterVars, registered, bornAt, handleVars, boundVars>>
      BY <1>4, Zenon DEF EvaluateState
    <3> QED BY <3>1, <3>2 DEF clusterVars, handleVars, boundVars
  <2> HIDE DEF state, d
  <2>8. AcquireType'
    <3> DEFINE pcs == {"down", "idle", "read", "evaluate", "register", "pause",
                       "mint", "write"}
    <3>1. pc \in [Member -> pcs] /\ wake \in [Member -> Int]
      BY Zenon DEF AcquireType
    <3>2. \E p \in pcs : pc' = [pc EXCEPT ![m] = p]
      BY <2>9, Zenon DEF Act
    <3>3. pc' \in [Member -> pcs]
      BY <3>1, <3>2
    <3>4. wake' = wake \/ \E x \in Int : wake' = [wake EXCEPT ![m] = x]
      <4>1. LocalNow(m) + PollInterval \in Int
        BY <1>1, <2>3
      <4> QED BY <2>4, <2>9, <4>1, Zenon DEF Act
    <3>5. wake' \in [Member -> Int]
      BY <3>1, <3>4
    <3>6. /\ seen' \in [Member -> Nat]
          /\ \A n \in Member : seen'[n] <= Len(log')
      BY <1>1, <2>5 DEF AcquireType
    <3>7. registered' \in [Member -> BOOLEAN] /\ bornAt' \in [Member -> Nat]
      BY <2>5, Zenon DEF AcquireType
    <3> QED BY <3>3, <3>5, <3>6, <3>7, Zenon DEF AcquireType
  <2>6. ClusterType'
    BY <2>5 DEF ClusterType
  <2>7. HandleType'
    BY <2>5 DEF HandleType
  <2> QED BY <2>5, <2>8, <2>6, <2>7
<1>5. CASE WakeUp(m)
  <2>1. ClusterType' /\ AcquireType'
    BY <1>5 DEF WakeUp, ClusterType, AcquireType, clusterVars
  <2>2. HandleType'
    BY <1>5 DEF WakeUp, HandleType, handleVars
  <2> QED BY <1>5, <2>1, <2>2 DEF WakeUp, boundVars
<1>6. CASE Register(m)
  <2>1. LogStep
    BY <1>6, RecordsTyped DEF Register, LogStep
  <2>2. log' \in Seq(LogRecord) /\ Len(log') \in Nat /\ Len(log) <= Len(log')
    BY <2>1, LogStepTyped DEF ClusterType
  <2>3. ClusterType' /\ AcquireType'
    BY <1>1, <1>6, <2>2 DEF Register, ClusterType, AcquireType
  <2>4. HandleType'
    BY <1>6 DEF Register, HandleType, handleVars
  <2> QED BY <1>6, <2>3, <2>4 DEF Register, boundVars
<1>7. CASE AcquireEpoch(m)
  <2>1. NextToken(coord) \in Token
    BY NextTokenSupersedes DEF ClusterType, Token
  <2>2. LogStep
    BY <1>7 DEF AcquireEpoch, MintAtCoordinator, LogStep
  <2>3. log' \in Seq(LogRecord) /\ Len(log') \in Nat /\ Len(log) <= Len(log')
    BY <2>2, LogStepTyped DEF ClusterType
  <2>4. ClusterType' /\ AcquireType'
    BY <1>1, <1>7, <2>1, <2>3 DEF AcquireEpoch, MintAtCoordinator, ClusterType, AcquireType
  <2>5. [pc |-> "granted", at |-> LocalNow(m)] \in WriterState /\ "acquire" \in Writers
    BY <1>1 DEF WriterState, WriterPcs, Writers
  <2>6. writer' \in [Member -> [Writers -> WriterState]]
    BY <1>7, <2>5, WriterUpdate DEF AcquireEpoch, HandleType
  <2>7. HandleType'
    BY <1>7, <2>1, <2>6 DEF AcquireEpoch, HandleType
  <2> QED BY <1>7, <2>4, <2>7 DEF AcquireEpoch, boundVars
<1>8. CASE CommitAcquire(m)
  <2>1. LogStep
    BY <1>8 DEF CommitAcquire, LogStep
  <2>2. log' \in Seq(LogRecord) /\ Len(log') \in Nat /\ Len(log) <= Len(log')
    BY <2>1, LogStepTyped DEF ClusterType
  <2>3. ClusterType' /\ AcquireType'
    BY <1>1, <1>8, <2>2 DEF CommitAcquire, WriteUnchanged, ClusterType, AcquireType
  <2>4. /\ Off \in WriterState /\ [pc |-> "top", at |-> 0] \in WriterState
        /\ "acquire" \in Writers /\ "loop" \in Writers
    BY DEF Off, WriterState, WriterPcs, Writers
  <2> DEFINE w1 == [writer EXCEPT ![m]["acquire"] = Off]
  <2>5. w1 \in [Member -> [Writers -> WriterState]]
    BY <2>4, WriterUpdate DEF HandleType
  <2>6. writer' = [w1 EXCEPT ![m]["loop"] = [pc |-> "top", at |-> 0]]
    BY <1>8 DEF CommitAcquire
  <2>7. writer' \in [Member -> [Writers -> WriterState]]
    <3> HIDE DEF w1
    <3> QED BY <2>4, <2>5, <2>6, WriterUpdate
  <2>8. writer[m]["acquire"].at \in Int
    BY <2>4, WriterTyped
  <2>9. HandleType'
    BY <1>8, <2>7, <2>8 DEF CommitAcquire, WriteUnchanged, HandleType
  <2> QED BY <1>8, <2>3, <2>9 DEF CommitAcquire, WriteUnchanged
<1> QED BY <1>2, <1>3, <1>4, <1>5, <1>6, <1>7, <1>8 DEF AcquireStep, CompeteStep

PcType == [Member -> {"down", "idle", "read", "evaluate", "register", "pause",
                      "mint", "write"}]

HeldType == [Member -> {"none", "live", "fenced", "not held", "expired"}]

\* A step that leaves the acquire loop alone, except for where it is, keeps
\* the types of the cluster and of that loop when the log takes a step.
LEMMA ClusterAcquireKept ==
  ASSUME ClusterType, AcquireType, LogStep, now' \in Nat, coord' \in Token,
         pc' \in PcType, UNCHANGED <<registered, seen, wake, bornAt>>
  PROVE  ClusterType' /\ AcquireType'
<1>1. log' \in Seq(LogRecord) /\ Len(log') \in Nat /\ Len(log) <= Len(log')
  BY LogStepTyped DEF ClusterType
<1>2. Len(log) \in Nat
  BY DEF ClusterType
<1>3. seen \in [Member -> Nat] /\ \A n \in Member : seen[n] <= Len(log)
  BY Zenon DEF AcquireType
<1>4. seen' \in [Member -> Nat] /\ \A n \in Member : seen'[n] <= Len(log')
  BY <1>1, <1>2, <1>3
<1>5. /\ registered' \in [Member -> BOOLEAN] /\ wake' \in [Member -> Int]
      /\ bornAt' \in [Member -> Nat]
  BY Zenon DEF AcquireType
<1>6. ClusterType'
  BY <1>1 DEF ClusterType
<1>7. AcquireType'
  BY <1>4, <1>5, Zenon DEF AcquireType, PcType
<1> QED BY <1>6, <1>7

\* What the code does with the answer of a lease write keeps the types.
LEMMA SettleTyped ==
  ASSUME AcquireType, HandleType, NEW m \in Member, NEW w \in Writers,
         SettleFenced(m, w) \/ SettleFailed(m, w)
  PROVE  /\ writer' \in [Member -> [Writers -> WriterState]]
         /\ held' \in HeldType /\ lease' \in [Member -> Int] /\ pc' \in PcType
<1>1. pc \in PcType /\ held \in HeldType /\ lease \in [Member -> Int]
  BY Zenon DEF AcquireType, HandleType, PcType, HeldType
<1>2. \E to \in WriterPcs : SetPc(m, w, to)
  <2>1. "off" \in WriterPcs /\ "failed" \in WriterPcs
    BY DEF WriterPcs
  <2> QED BY <2>1, Zenon DEF SettleFenced, SettleFailed
<1>3. writer' \in [Member -> [Writers -> WriterState]]
  BY <1>2, SetPcTyped
<1>4. lease' = lease
  BY Zenon DEF SettleFenced, SettleFailed
<1>5. held' \in HeldType
  BY <1>1 DEF SettleFenced, SettleFailed, EndReason, HeldType
<1>6. pc' \in PcType
  BY <1>1 DEF SettleFenced, SettleFailed, PcType
<1> QED BY <1>1, <1>3, <1>4, <1>5, <1>6

\* The lease record that a writer of m appends is well typed.
LEMMA LeaseAppendTyped ==
  ASSUME ClusterType, HandleType, NEW m \in Member, NEW w \in Writers
  PROVE  /\ LeaseRecord(m, writer[m][w].at, w = "resign") \in LogRecord
         /\ LeaseRecord(m, writer[m][w].at, w = "resign").kind = "lease"
         /\ LeaseRecord(m, writer[m][w].at, w = "resign").token = token[m]
         /\ LeaseRecord(m, writer[m][w].at, w = "resign").member = m
<1>1. writer[m][w].at \in Int
  BY WriterTyped
<1>2. (w = "resign") \in BOOLEAN
  OBVIOUS
<1> QED BY <1>1, <1>2, RecordsTyped DEF LeaseRecord

\* How a lease write changes the log: by the record of the writer, or by
\* the end of the open transaction.
LEMMA WriteLogStep ==
  ASSUME ClusterType, HandleType, NEW m \in Member, NEW w \in Writers,
         \/ Produce(m, w) \/ ProduceFenced(m, w) \/ Commit(m, w)
         \/ CommitFenced(m, w) \/ ProduceFails(m, w) \/ CommitFails(m, w)
  PROVE  LogStep
<1>1. LeaseRecord(m, writer[m][w].at, w = "resign") \in LogRecord
  BY LeaseAppendTyped
<1>2. \/ UNCHANGED log
      \/ log' = Append(log, LeaseRecord(m, writer[m][w].at, w = "resign"))
      \/ log' = EndOpen(log, "committed")
      \/ log' = EndOpen(log, "aborted")
  <2>1. CASE Produce(m, w) \/ ProduceFenced(m, w)
    BY <2>1, Zenon DEF Produce, ProduceFenced
  <2>2. CASE Commit(m, w) \/ CommitFenced(m, w)
    BY <2>2, Zenon DEF Commit, CommitFenced
  <2>3. CASE ProduceFails(m, w) \/ CommitFails(m, w)
    BY <2>3, Zenon DEF ProduceFails, CommitFails
  <2> QED BY <2>1, <2>2, <2>3
<1> QED BY <1>1, <1>2, Zenon DEF LogStep

\* Every step of a lease write keeps the types.
LEMMA WriteTyped ==
  ASSUME TypeOK, NEW m \in Member, WriteStep(m)
  PROVE  TypeOK'
<1> USE DEF TypeOK
<1>1. PICK w \in Writers : \/ Produce(m, w) \/ ProduceFenced(m, w) \/ Commit(m, w)
                           \/ CommitFenced(m, w) \/ RenewAcked(m, w)
  BY Zenon DEF WriteStep
<1>2. CASE RenewAcked(m, w)
  <2>1. writer[m][w].at \in Int
    BY WriterTyped
  <2>2. \E to \in WriterPcs : SetPc(m, w, to)
    <3>1. "top" \in WriterPcs /\ "off" \in WriterPcs
      BY DEF WriterPcs
    <3> QED BY <1>2, <3>1, Zenon DEF RenewAcked
  <2>3. writer' \in [Member -> [Writers -> WriterState]]
    BY <2>2, SetPcTyped
  <2>4. HandleType'
    BY <1>2, <2>1, <2>3 DEF RenewAcked, HandleUnchanged, HandleType
  <2>5. ClusterType' /\ AcquireType'
    BY <1>2 DEF RenewAcked, HandleUnchanged, ClusterType, AcquireType, clusterVars,
                acquireVars
  <2> QED BY <1>2, <2>4, <2>5 DEF RenewAcked, HandleUnchanged, boundVars
<1>3. CASE Produce(m, w) \/ Commit(m, w)
  <2>1. LogStep
    BY <1>3, WriteLogStep
  <2>2. \E to \in WriterPcs : SetPc(m, w, to)
    <3>1. "produced" \in WriterPcs /\ "done" \in WriterPcs /\ "acked" \in WriterPcs
      BY DEF WriterPcs
    <3> QED BY <1>3, <3>1, Zenon DEF Produce, Commit
  <2>3. writer' \in [Member -> [Writers -> WriterState]]
    BY <2>2, SetPcTyped
  <2>4. /\ UNCHANGED <<pc, held, lease, faults>> /\ WriteUnchanged
    BY <1>3, Zenon DEF Produce, Commit
  <2>5. ClusterType' /\ AcquireType'
    <3>1. now' \in Nat /\ coord' \in Token
      BY <2>4 DEF WriteUnchanged, ClusterType
    <3>2. pc' \in PcType
      BY <2>4 DEF AcquireType, PcType
    <3>3. UNCHANGED <<registered, seen, wake, bornAt>>
      BY <2>4 DEF WriteUnchanged
    <3> QED BY <2>1, <3>1, <3>2, <3>3, ClusterAcquireKept
  <2>6. HandleType'
    BY <2>3, <2>4 DEF WriteUnchanged, HandleType
  <2> QED BY <2>4, <2>5, <2>6 DEF WriteUnchanged
<1>4. CASE ProduceFenced(m, w) \/ CommitFenced(m, w)
  <2>1. LogStep
    BY <1>4, WriteLogStep
  <2>2. SettleFenced(m, w) /\ WriteUnchanged /\ UNCHANGED faults
    BY <1>4, Zenon DEF ProduceFenced, CommitFenced
  <2>3. /\ writer' \in [Member -> [Writers -> WriterState]]
        /\ held' \in HeldType /\ lease' \in [Member -> Int] /\ pc' \in PcType
    BY <2>2, SettleTyped
  <2>4. ClusterType' /\ AcquireType'
    <3>1. now' \in Nat /\ coord' \in Token
      BY <2>2 DEF WriteUnchanged, ClusterType
    <3>2. UNCHANGED <<registered, seen, wake, bornAt>>
      BY <2>2 DEF WriteUnchanged
    <3> QED BY <2>1, <2>3, <3>1, <3>2, ClusterAcquireKept
  <2>5. HandleType'
    BY <2>2, <2>3 DEF WriteUnchanged, HandleType, HeldType
  <2> QED BY <2>2, <2>4, <2>5 DEF WriteUnchanged
<1> QED BY <1>1, <1>2, <1>3, <1>4

\* A step of the handle: one writer moves, held may change, and the lease
\* and the timing of the handle stay instants.
LEMMA HandleStepTyped ==
  ASSUME TypeOK, HandleUnchanged, NEW m \in Member, NEW w \in Writers,
         \/ \E v \in WriterState : writer' = [writer EXCEPT ![m][w] = v]
         \/ \E to \in WriterPcs : SetPc(m, w, to),
         held' \in HeldType, lease' = lease, timing' \in [Member -> Int]
  PROVE  TypeOK'
<1> USE DEF TypeOK
<1>1. writer' \in [Member -> [Writers -> WriterState]]
  <2>1. CASE \E v \in WriterState : writer' = [writer EXCEPT ![m][w] = v]
    <3>1. PICK v \in WriterState : writer' = [writer EXCEPT ![m][w] = v]
      BY <2>1
    <3>2. writer \in [Member -> [Writers -> WriterState]]
      BY Zenon DEF HandleType
    <3> QED BY <3>1, <3>2, WriterUpdate
  <2>2. CASE \E to \in WriterPcs : SetPc(m, w, to)
    BY <2>2, SetPcTyped
  <2> QED BY <2>1, <2>2
<1>2. HandleType'
  BY <1>1 DEF HandleUnchanged, HandleType, HeldType
<1>3. ClusterType' /\ AcquireType'
  BY DEF HandleUnchanged, ClusterType, AcquireType, clusterVars, acquireVars
<1> QED BY <1>2, <1>3 DEF HandleUnchanged, boundVars

\* Every step of the renewal loop and of the calls on the handle keeps the
\* types.
LEMMA LoopTyped ==
  ASSUME TypeOK, NEW m \in Member, LoopStep(m) \/ CallerStep(m)
  PROVE  TypeOK'
<1>1. LocalNow(m) \in Int /\ PollInterval \in Nat
  BY InstantsAreIntegers, LeadershipAssumption DEF TypeOK, ClusterType
<1>2. /\ "loop" \in Writers /\ "renew" \in Writers /\ "resign" \in Writers
      /\ {"sleep", "off", "top"} \subseteq WriterPcs
  BY DEF Writers, WriterPcs
<1>3. /\ [pc |-> "granted", at |-> LocalNow(m)] \in WriterState
      /\ [pc |-> "retry", at |-> LocalNow(m) + PollInterval] \in WriterState
      /\ [pc |-> "checked", at |-> 0] \in WriterState
  BY <1>1 DEF WriterState, WriterPcs
<1>4. held \in HeldType /\ timing \in [Member -> Int] /\ lease \in [Member -> Int]
  BY DEF TypeOK, HandleType, HeldType
<1>5. CASE LoopTop(m)
  <2>1. timing' \in [Member -> Int]
    BY <1>4, <1>5 DEF LoopTop
  <2>2. HandleUnchanged /\ UNCHANGED <<held, lease>> /\ SetPc(m, "loop", "sleep")
    BY <1>5, Zenon DEF LoopTop
  <2> QED BY <1>2, <1>4, <2>1, <2>2, HandleStepTyped
<1>6. CASE LoopRenew(m)
  <2>1. /\ HandleUnchanged /\ UNCHANGED <<held, lease, timing>>
        /\ writer' = [writer EXCEPT ![m]["loop"] = [pc |-> "granted", at |-> LocalNow(m)]]
    BY <1>6, Zenon DEF LoopRenew
  <2> QED BY <1>2, <1>3, <1>4, <2>1, HandleStepTyped
<1>7. CASE LoopFailed(m)
  <2>1. HandleUnchanged /\ UNCHANGED <<lease, timing>>
    BY <1>7, Zenon DEF LoopFailed
  <2>2. held' \in HeldType
    BY <1>4, <1>7 DEF LoopFailed, EndReason, HeldType
  <2>3. \/ SetPc(m, "loop", "off")
        \/ writer' = [writer EXCEPT ![m]["loop"] =
                        [pc |-> "retry", at |-> LocalNow(m) + PollInterval]]
    BY <1>7, Zenon DEF LoopFailed
  <2> QED BY <1>2, <1>3, <1>4, <2>1, <2>2, <2>3, HandleStepTyped
<1>8. CASE LoopRetry(m) \/ LoopStops(m)
  <2>1. HandleUnchanged /\ UNCHANGED <<held, lease, timing>>
    BY <1>8, Zenon DEF LoopRetry, LoopStops
  <2>2. SetPc(m, "loop", "top") \/ SetPc(m, "loop", "off")
    BY <1>8, Zenon DEF LoopRetry, LoopStops
  <2> QED BY <1>2, <1>4, <2>1, <2>2, HandleStepTyped
<1>9. CASE CallRenew(m)
  <2>1. /\ HandleUnchanged /\ UNCHANGED <<held, lease, timing>>
        /\ writer' = [writer EXCEPT ![m]["renew"] = [pc |-> "granted", at |-> LocalNow(m)]]
    BY <1>9, Zenon DEF CallRenew
  <2> QED BY <1>2, <1>3, <1>4, <2>1, HandleStepTyped
<1>10. CASE CallResign(m)
  <2>1. /\ HandleUnchanged /\ UNCHANGED <<held, lease, timing>>
        /\ writer' = [writer EXCEPT ![m]["resign"] = [pc |-> "checked", at |-> 0]]
    BY <1>10, Zenon DEF CallResign
  <2> QED BY <1>2, <1>3, <1>4, <2>1, HandleStepTyped
<1>11. CASE ResignEnds(m)
  <2>1. /\ HandleUnchanged /\ UNCHANGED <<lease, timing>>
        /\ writer' = [writer EXCEPT ![m]["resign"] = [pc |-> "granted", at |-> LocalNow(m)]]
    BY <1>11, Zenon DEF ResignEnds
  <2>2. held' \in HeldType
    BY <1>4, <1>11 DEF ResignEnds, EndReason, HeldType
  <2> QED BY <1>2, <1>3, <1>4, <2>1, <2>2, HandleStepTyped
<1> QED BY <1>5, <1>6, <1>7, <1>8, <1>9, <1>10, <1>11 DEF LoopStep, CallerStep

\* Every failed call, crash, restart and cancellation keeps the types.
LEMMA FaultTyped ==
  ASSUME TypeOK, NEW m \in Member, FaultStep(m)
  PROVE  TypeOK'
<1> USE DEF TypeOK
<1>1. pc \in PcType /\ faults \in Nat /\ stops \in Nat
  BY Zenon DEF AcquireType, PcType
<1>2. CASE RegisterFails(m)
  <2>1. LogStep
    BY <1>2, RecordsTyped DEF RegisterFails, LogStep
  <2>2. /\ now' \in Nat /\ coord' \in Token /\ pc' \in PcType
        /\ UNCHANGED <<registered, seen, wake, bornAt>>
    BY <1>1, <1>2 DEF RegisterFails, ClusterType, PcType
  <2>3. ClusterType' /\ AcquireType'
    BY <2>1, <2>2, ClusterAcquireKept
  <2>4. HandleType'
    BY <1>2 DEF RegisterFails, HandleType, handleVars
  <2> QED BY <1>1, <1>2, <2>3, <2>4 DEF RegisterFails
<1>3. CASE AcquireEpochFails(m)
  <2>1. LogStep
    BY <1>3 DEF AcquireEpochFails, MintAtCoordinator, LogStep
  <2>2. NextToken(coord) \in Token
    BY NextTokenSupersedes DEF ClusterType, Token
  <2>3. /\ now' \in Nat /\ coord' \in Token /\ pc' \in PcType
        /\ UNCHANGED <<registered, seen, wake, bornAt>>
    BY <1>1, <1>3, <2>2 DEF AcquireEpochFails, MintAtCoordinator, ClusterType, PcType
  <2>4. ClusterType' /\ AcquireType'
    BY <2>1, <2>3, ClusterAcquireKept
  <2>5. HandleType'
    BY <1>3 DEF AcquireEpochFails, HandleType, handleVars
  <2> QED BY <1>1, <1>3, <2>4, <2>5 DEF AcquireEpochFails
<1>4. CASE \E w \in Writers : ProduceFails(m, w) \/ CommitFails(m, w)
  <2>1. PICK w \in Writers : ProduceFails(m, w) \/ CommitFails(m, w)
    BY <1>4
  <2>2. LogStep
    BY <2>1, WriteLogStep
  <2>3. /\ SettleFailed(m, w) /\ WriteUnchanged
        /\ faults' = faults \/ faults' = faults + 1
    BY <2>1, Zenon DEF ProduceFails, CommitFails
  <2>4. /\ writer' \in [Member -> [Writers -> WriterState]]
        /\ held' \in HeldType /\ lease' \in [Member -> Int] /\ pc' \in PcType
    BY <2>3, SettleTyped
  <2>5. ClusterType' /\ AcquireType'
    <3>1. now' \in Nat /\ coord' \in Token
      BY <2>3 DEF WriteUnchanged, ClusterType
    <3>2. UNCHANGED <<registered, seen, wake, bornAt>>
      BY <2>3 DEF WriteUnchanged
    <3> QED BY <2>2, <2>4, <3>1, <3>2, ClusterAcquireKept
  <2>6. HandleType'
    BY <2>3, <2>4 DEF WriteUnchanged, HandleType, HeldType
  <2> QED BY <1>1, <2>3, <2>5, <2>6 DEF WriteUnchanged
<1>5. CASE Crash(m)
  <2>1. ClusterType'
    BY <1>5 DEF Crash, ClusterType, clusterVars
  <2>2. AcquireType'
    <3>1. Len(log) \in Nat /\ log' = log
      BY <1>5 DEF Crash, ClusterType, clusterVars
    <3>2. pc' \in PcType
      BY <1>1, <1>5 DEF Crash, PcType
    <3>3. /\ seen' \in [Member -> Nat] /\ wake' \in [Member -> Int]
          /\ \A n \in Member : seen'[n] <= Len(log')
      BY <1>5, <3>1 DEF Crash, AcquireType
    <3>4. registered' \in [Member -> BOOLEAN]
      BY <1>5 DEF Crash, AcquireType
    <3>5. bornAt' \in [Member -> Nat]
      BY <1>5 DEF Crash, AcquireType
    <3> QED BY <3>2, <3>3, <3>4, <3>5, Zenon DEF AcquireType, PcType
  <2>3. AllOff \in [Writers -> WriterState] /\ NoEpoch \in Token
    BY NoEpochNotMinted DEF AllOff, Off, WriterState, WriterPcs
  <2>4. HandleType'
    <3>0. /\ token' = [token EXCEPT ![m] = NoEpoch]
          /\ held' = [held EXCEPT ![m] = "none"]
          /\ token \in [Member -> Token] /\ held \in HeldType
      BY <1>5, Zenon DEF Crash, HandleType, HeldType
    <3>1. token' \in [Member -> Token] /\ held' \in HeldType
      <4>1. token' \in [Member -> Token]
        BY <2>3, <3>0
      <4>2. held' \in HeldType
        BY <3>0 DEF HeldType
      <4> QED BY <4>1, <4>2
    <3>2. lease' \in [Member -> Int] /\ timing' \in [Member -> Int]
      <4>1. /\ lease' = [lease EXCEPT ![m] = 0] /\ lease \in [Member -> Int]
            /\ timing' = [timing EXCEPT ![m] = 0] /\ timing \in [Member -> Int]
        BY <1>5, Zenon DEF Crash, HandleType
      <4> QED BY <4>1
    <3>3. writer' \in [Member -> [Writers -> WriterState]]
      <4>1. /\ writer' = [writer EXCEPT ![m] = AllOff]
            /\ writer \in [Member -> [Writers -> WriterState]]
        BY <1>5, Zenon DEF Crash, HandleType
      <4> QED BY <2>3, <4>1
    <3> QED BY <3>1, <3>2, <3>3, Zenon DEF HandleType, HeldType
  <2> QED BY <1>1, <1>5, <2>1, <2>2, <2>4 DEF Crash
<1>6. CASE Restart(m) \/ CancelAcquire(m)
  <2>1. /\ UNCHANGED <<now, clusterVars, registered, seen, wake, bornAt, handleVars>>
        /\ pc' = [pc EXCEPT ![m] = "idle"]
    BY <1>6 DEF Restart, CancelAcquire
  <2>2. pc' \in PcType
    BY <1>1, <2>1 DEF PcType
  <2>3. LogStep
    BY <2>1 DEF LogStep, clusterVars
  <2>4. ClusterType' /\ AcquireType'
    <3>1. now' \in Nat /\ coord' \in Token
      BY <2>1 DEF ClusterType, clusterVars
    <3> QED BY <2>1, <2>2, <2>3, <3>1, ClusterAcquireKept
  <2>5. HandleType'
    BY <2>1 DEF HandleType, handleVars
  <2> QED BY <1>1, <1>6, <2>4, <2>5 DEF Restart, CancelAcquire, boundVars
<1> QED BY <1>2, <1>3, <1>4, <1>5, <1>6 DEF FaultStep

\* The clock and the coordinator keep the types.
LEMMA EnvironmentTyped ==
  ASSUME TypeOK, Tick \/ TransactionTimeout
  PROVE  TypeOK'
<1> USE DEF TypeOK
<1>1. CASE Tick
  <2>1. ClusterType' /\ AcquireType'
    BY <1>1 DEF Tick, ClusterType, AcquireType, clusterVars, acquireVars
  <2>2. HandleType'
    BY <1>1 DEF Tick, HandleType, handleVars
  <2> QED BY <1>1, <2>1, <2>2 DEF Tick, boundVars
<1>2. CASE TransactionTimeout
  <2>1. LogStep
    BY <1>2 DEF TransactionTimeout, MintAtCoordinator, LogStep
  <2>2. NextToken(coord) \in Token
    BY NextTokenSupersedes DEF ClusterType, Token
  <2>3. /\ now' \in Nat /\ coord' \in Token
        /\ UNCHANGED <<pc, registered, seen, wake, bornAt>>
    BY <1>2, <2>2 DEF TransactionTimeout, MintAtCoordinator, ClusterType, acquireVars
  <2>4. pc' \in PcType
    BY <2>3, Zenon DEF AcquireType, PcType
  <2>5. ClusterType' /\ AcquireType'
    BY <2>1, <2>3, <2>4, ClusterAcquireKept
  <2>6. HandleType'
    BY <1>2 DEF TransactionTimeout, HandleType, handleVars
  <2> QED BY <1>2, <2>5, <2>6 DEF TransactionTimeout
<1> QED BY <1>1, <1>2

\* The initial state is well typed.
LEMMA InitTyped == Init => TypeOK
<1> SUFFICES ASSUME Init PROVE TypeOK
  OBVIOUS
<1>1. ClusterType
  BY NoEpochNotMinted DEF Init, ClusterType
<1>2. AcquireType
  BY DEF Init, AcquireType
<1>3. AllOff \in [Writers -> WriterState]
  BY DEF AllOff, Off, WriterState, WriterPcs
<1>4. HandleType
  BY <1>3, NoEpochNotMinted DEF Init, HandleType
<1> QED BY <1>1, <1>2, <1>4 DEF Init, TypeOK

\* Every step keeps the types.
LEMMA StepTyped ==
  ASSUME TypeOK, [Next]_vars
  PROVE  TypeOK'
<1>1. CASE UNCHANGED vars
  <2>1. ClusterType' /\ AcquireType'
    BY <1>1 DEF vars, clusterVars, acquireVars, TypeOK, ClusterType, AcquireType
  <2>2. HandleType'
    BY <1>1 DEF vars, handleVars, TypeOK, HandleType
  <2> QED BY <1>1, <2>1, <2>2 DEF vars, boundVars, TypeOK
<1>2. CASE Tick \/ TransactionTimeout
  BY <1>2, EnvironmentTyped
<1>3. ASSUME NEW m \in Member, \/ AcquireStep(m) \/ WriteStep(m) \/ LoopStep(m)
                               \/ CallerStep(m) \/ FaultStep(m)
      PROVE  TypeOK'
  BY <1>3, AcquireTyped, WriteTyped, LoopTyped, FaultTyped
<1> QED BY <1>1, <1>2, <1>3 DEF Next

\* Type correctness of the members, the handles and the cluster, for every
\* set of members, skew and bound: in particular no read position passes the
\* end of the partition, and every token at the coordinator, in a member and
\* in a record is a well-formed pair across the wrap of the epoch.
THEOREM TypeCorrect == Spec => []TypeOK
BY InitTyped, StepTyped, PTL DEF Spec

-----------------------------------------------------------------------------
(***************************************************************************)
(* A member without a token writes nothing.                                *)
(***************************************************************************)
OnlyOf(m) ==
  \A n \in Member : n # m => /\ token'[n] = token[n] /\ held'[n] = held[n]
                             /\ writer'[n] = writer[n]

Silent(m) == held[m] # "live" /\ \A w \in Writers : writer[m][w].pc = "off"

\* A step of one member that has a token afterwards, or is silent, keeps
\* TokenBacksWrites.
LEMMA BacksKept ==
  ASSUME TokenBacksWrites, NEW m \in Member, OnlyOf(m),
         token'[m] # NoEpoch \/ Silent(m)'
  PROVE  TokenBacksWrites'
BY DEF TokenBacksWrites, OnlyOf, Silent

\* A member that writes, or whose handle is live, has a token.
LEMMA WriterHasToken ==
  ASSUME TokenBacksWrites, NEW m \in Member, NEW w \in Writers,
         writer[m][w].pc # "off" \/ held[m] = "live"
  PROVE  token[m] # NoEpoch
BY DEF TokenBacksWrites

\* Moving one writer of m leaves the writers of the other members alone.
LEMMA OneWriter ==
  ASSUME HandleType, NEW m \in Member, NEW w \in Writers,
         (\E v : writer' = [writer EXCEPT ![m][w] = v]) \/ (\E to : SetPc(m, w, to))
  PROVE  \A n \in Member : n # m => writer'[n] = writer[n]
<1>1. writer \in [Member -> [Writers -> WriterState]]
  BY Zenon DEF HandleType
<1>2. PICK v : writer' = [writer EXCEPT ![m][w] = v]
  BY Zenon DEF SetPc
<1> QED BY <1>1, <1>2

\* The same for what is done with the answer of a write.
LEMMA SettleOnly ==
  ASSUME HandleType, NEW m \in Member, NEW w \in Writers, UNCHANGED token,
         SettleFenced(m, w) \/ SettleFailed(m, w)
  PROVE  OnlyOf(m)
<1>1. \E to : SetPc(m, w, to)
  BY Zenon DEF SettleFenced, SettleFailed
<1>2. \A n \in Member : n # m => writer'[n] = writer[n]
  BY <1>1, OneWriter
<1>3. \A n \in Member : n # m => held'[n] = held[n]
  BY DEF SettleFenced, SettleFailed, HandleType
<1> QED BY <1>2, <1>3 DEF OnlyOf

\* No step lets a member without a token write or hold a live handle.
LEMMA BacksStep ==
  ASSUME TypeOK, TokenBacksWrites, Next
  PROVE  TokenBacksWrites'
<1>1. /\ HandleType /\ coord \in Token
      /\ token \in [Member -> Token]
      /\ held \in HeldType
      /\ writer \in [Member -> [Writers -> WriterState]]
  BY Zenon DEF TypeOK, ClusterType, HandleType, HeldType
<1>2. /\ "acquire" \in Writers /\ "loop" \in Writers
      /\ "renew" \in Writers /\ "resign" \in Writers
  BY DEF Writers
<1>3. CASE UNCHANGED handleVars
  BY <1>3 DEF TokenBacksWrites, handleVars
<1>4. CASE Tick \/ TransactionTimeout
  BY <1>3, <1>4, Zenon DEF Tick, TransactionTimeout
<1>5. ASSUME NEW m \in Member, AcquireStep(m) PROVE TokenBacksWrites'
  <2>1. CASE \/ ReadRoleState(m) \/ EvaluateState(m) \/ WakeUp(m) \/ Register(m)
    <3>1. UNCHANGED handleVars
      BY <2>1 DEF ReadRoleState, EvaluateState, WakeUp, Register, handleVars
    <3> QED BY <1>3, <3>1
  <2>2. CASE StartAcquire(m)
    <3>1. OnlyOf(m)
      BY <1>1, <2>2 DEF StartAcquire, OnlyOf, HeldType
    <3>2. held'[m] = "none" /\ writer'[m] = AllOff
      BY <1>1, <2>2 DEF StartAcquire, HeldType
    <3>3. Silent(m)'
      BY <3>2 DEF Silent, AllOff, Off
    <3> QED BY <3>1, <3>3, BacksKept
  <2>3. CASE AcquireEpoch(m)
    <3>1. writer' = [writer EXCEPT ![m]["acquire"] = [pc |-> "granted", at |-> LocalNow(m)]]
      BY <2>3, Zenon DEF AcquireEpoch
    <3>2. \A n \in Member : n # m => writer'[n] = writer[n]
      BY <1>1, <1>2, <3>1, OneWriter
    <3>3. NextToken(coord) # NoEpoch
      BY <1>1, NextTokenSupersedes, NoEpochNotMinted
    <3>4. UNCHANGED held /\ token' = [token EXCEPT ![m] = NextToken(coord)]
      BY <2>3, Zenon DEF AcquireEpoch
    <3>5. OnlyOf(m) /\ token'[m] # NoEpoch
      BY <1>1, <3>2, <3>3, <3>4 DEF OnlyOf
    <3> QED BY <3>5, BacksKept
  <2>4. CASE CommitAcquire(m)
    <3>1. writer[m]["acquire"].pc = "produced" /\ UNCHANGED token
      BY <2>4 DEF CommitAcquire, WriteUnchanged
    <3>2. token'[m] # NoEpoch
      BY <1>2, <3>1, WriterHasToken
    <3>3. OnlyOf(m)
      BY <1>1, <1>2, <2>4, <3>1 DEF CommitAcquire, OnlyOf, HeldType
    <3> QED BY <3>2, <3>3, BacksKept
  <2> QED BY <1>5, <2>1, <2>2, <2>3, <2>4 DEF AcquireStep, CompeteStep
<1>6. ASSUME NEW m \in Member, NEW w \in Writers,
             \/ Produce(m, w) \/ ProduceFenced(m, w) \/ Commit(m, w)
             \/ CommitFenced(m, w) \/ RenewAcked(m, w)
             \/ ProduceFails(m, w) \/ CommitFails(m, w)
      PROVE  TokenBacksWrites'
  <2>1. writer[m][w].pc # "off" /\ UNCHANGED token
    <3>1. CASE Produce(m, w) \/ ProduceFenced(m, w) \/ ProduceFails(m, w)
      BY <3>1 DEF Produce, ProduceFenced, ProduceFails, WriteUnchanged
    <3>2. CASE Commit(m, w) \/ CommitFenced(m, w) \/ CommitFails(m, w)
      BY <3>2 DEF Commit, CommitFenced, CommitFails, WriteUnchanged
    <3>3. CASE RenewAcked(m, w)
      BY <3>3 DEF RenewAcked, HandleUnchanged
    <3> QED BY <1>6, <3>1, <3>2, <3>3
  <2>2. token'[m] # NoEpoch
    BY <2>1, WriterHasToken
  <2>3. OnlyOf(m)
    <3>1. CASE Produce(m, w) \/ Commit(m, w) \/ RenewAcked(m, w)
      <4>1. (\E to : SetPc(m, w, to)) /\ UNCHANGED held
        BY <3>1 DEF Produce, Commit, RenewAcked
      <4>2. \A n \in Member : n # m => writer'[n] = writer[n]
        BY <1>1, <4>1, OneWriter
      <4> QED BY <2>1, <4>1, <4>2 DEF OnlyOf
    <3>2. CASE SettleFenced(m, w) \/ SettleFailed(m, w)
      BY <1>1, <2>1, <3>2, SettleOnly
    <3> QED BY <1>6, <3>1, <3>2, Zenon DEF ProduceFenced, CommitFenced, ProduceFails,
                                           CommitFails
  <2> QED BY <2>2, <2>3, BacksKept
<1>7. ASSUME NEW m \in Member, LoopStep(m) \/ CallerStep(m) PROVE TokenBacksWrites'
  <2>1. HandleUnchanged
    <3>1. CASE LoopStep(m)
      BY <3>1, Zenon DEF LoopStep, LoopTop, LoopRenew, LoopFailed, LoopRetry, LoopStops
    <3>2. CASE CallerStep(m)
      BY <3>2, Zenon DEF CallerStep, CallRenew, CallResign, ResignEnds
    <3> QED BY <1>7, <3>1, <3>2
  <2>2. UNCHANGED token
    BY <2>1 DEF HandleUnchanged
  <2>3. \/ held[m] = "live"
        \/ \E w \in Writers : writer[m][w].pc # "off"
    <3>1. CASE LoopStep(m)
      BY <1>2, <3>1 DEF LoopStep, LoopTop, LoopRenew, LoopFailed, LoopRetry, LoopStops
    <3>2. CASE CallerStep(m)
      BY <1>2, <3>2 DEF CallerStep, CallRenew, CallResign, ResignEnds
    <3> QED BY <1>7, <3>1, <3>2
  <2>4. token'[m] # NoEpoch
    BY <1>2, <2>2, <2>3, WriterHasToken
  <2>5. \E w \in Writers : \/ \E v : writer' = [writer EXCEPT ![m][w] = v]
                           \/ \E to : SetPc(m, w, to)
    <3>1. CASE LoopStep(m)
      BY <1>2, <3>1, Zenon DEF LoopStep, LoopTop, LoopRenew, LoopFailed, LoopRetry,
                               LoopStops
    <3>2. CASE CallerStep(m)
      BY <1>2, <3>2, Zenon DEF CallerStep, CallRenew, CallResign, ResignEnds
    <3> QED BY <1>7, <3>1, <3>2
  <2>6. \A n \in Member : n # m => writer'[n] = writer[n]
    BY <1>1, <2>5, OneWriter
  <2>7. \E r : held' = [held EXCEPT ![m] = r]
    <3>1. held = [held EXCEPT ![m] = held[m]]
      BY <1>1 DEF HeldType
    <3>2. held' = held \/ \E r : held' = [held EXCEPT ![m] = r]
      <4>1. CASE LoopStep(m)
        BY <4>1, Zenon DEF LoopStep, LoopTop, LoopRenew, LoopFailed, LoopRetry, LoopStops
      <4>2. CASE CallerStep(m)
        BY <4>2, Zenon DEF CallerStep, CallRenew, CallResign, ResignEnds
      <4> QED BY <1>7, <4>1, <4>2
    <3> QED BY <3>1, <3>2, Zenon
  <2>8. OnlyOf(m)
    BY <1>1, <2>2, <2>6, <2>7 DEF OnlyOf, HeldType
  <2> QED BY <2>4, <2>8, BacksKept
<1>8. ASSUME NEW m \in Member, FaultStep(m) PROVE TokenBacksWrites'
  <2>1. CASE \/ RegisterFails(m) \/ AcquireEpochFails(m) \/ Restart(m)
             \/ CancelAcquire(m)
    <3>1. UNCHANGED handleVars
      BY <2>1, Zenon DEF RegisterFails, AcquireEpochFails, Restart, CancelAcquire
    <3> QED BY <1>3, <3>1
  <2>2. CASE Crash(m)
    <3>1. OnlyOf(m)
      BY <1>1, <2>2 DEF Crash, OnlyOf, HeldType
    <3>2. held'[m] = "none" /\ writer'[m] = AllOff
      BY <1>1, <2>2 DEF Crash, HeldType
    <3>3. Silent(m)'
      BY <3>2 DEF Silent, AllOff, Off
    <3> QED BY <3>1, <3>3, BacksKept
  <2> QED BY <1>6, <1>8, <2>1, <2>2 DEF FaultStep
<1> QED BY <1>4, <1>5, <1>6, <1>7, <1>8 DEF Next, WriteStep

-----------------------------------------------------------------------------
(***************************************************************************)
(* Every action is one of these kinds of step, and the invariant.          *)
(***************************************************************************)
\* The coordinator, the log and the tokens satisfy AuthorityInv at first.
LEMMA InitAuthority == Init => AuthorityInv /\ TokenBacksWrites
<1> SUFFICES ASSUME Init PROVE AuthorityInv /\ TokenBacksWrites
  OBVIOUS
<1>1. DOMAIN log = {} /\ \A m \in Member : token[m] = NoEpoch /\ coord = NoEpoch
  BY DEF Init
<1>2. AuthorityInv
  BY <1>1 DEF AuthorityInv, TokensBelow, LogBelow, TokensUnique, OpenWritesAreCurrent,
              LeaseTokensGrow, LeaseProvesAuthor, Rank
<1>3. TokenBacksWrites
  BY DEF Init, TokenBacksWrites, AllOff, Off
<1> QED BY <1>2, <1>3

\* What a step may do with the token at the coordinator, the log and the
\* tokens of the members.
CoreNext ==
  \/ UNCHANGED <<coord, log, token>>
  \/ \E r \in LogRecord :
       /\ r.kind = "registration" /\ r.status = "committed"
       /\ log' = Append(log, r) /\ UNCHANGED <<coord, token>>
  \/ \E m \in Member, r \in LogRecord :
       /\ token[m] = coord /\ token[m] # NoEpoch
       /\ r.kind = "lease" /\ r.status = "open" /\ r.token = token[m] /\ r.member = m
       /\ log' = Append(log, r) /\ UNCHANGED <<coord, token>>
  \/ \E m \in Member :
       /\ token[m] = coord /\ token[m] # NoEpoch
       /\ log' = EndOpen(log, "committed") /\ UNCHANGED <<coord, token>>
  \/ log' = EndOpen(log, "aborted") /\ UNCHANGED <<coord, token>>
  \/ MintAtCoordinator /\ UNCHANGED token
  \/ \E m \in Member :
       MintAtCoordinator /\ token' = [token EXCEPT ![m] = NextToken(coord)]
  \/ \E m \in Member :
       token' = [token EXCEPT ![m] = NoEpoch] /\ UNCHANGED <<coord, log>>

\* Every step is one of these.
LEMMA NextIsCore ==
  ASSUME TypeOK, TokenBacksWrites, Next
  PROVE  CoreNext
<1>1. ClusterType /\ HandleType
  BY DEF TypeOK
<1>2. CASE UNCHANGED <<coord, log, token>>
  BY <1>2 DEF CoreNext
<1>3. CASE Tick \/ TransactionTimeout
  <2>1. CASE Tick
    <3>1. UNCHANGED <<coord, log, token>>
      BY <2>1 DEF Tick, clusterVars, handleVars
    <3> QED BY <1>2, <3>1
  <2>2. CASE TransactionTimeout
    <3>1. UNCHANGED token
      BY <2>2 DEF TransactionTimeout, handleVars
    <3>2. MintAtCoordinator \/ (log' = EndOpen(log, "aborted") /\ UNCHANGED coord)
      BY <2>2, Zenon DEF TransactionTimeout
    <3> QED BY <3>1, <3>2 DEF CoreNext
  <2> QED BY <1>3, <2>1, <2>2
<1>4. ASSUME NEW m \in Member, Register(m) \/ RegisterFails(m) PROVE CoreNext
  <2>1. UNCHANGED <<coord, token>>
    BY <1>4 DEF Register, RegisterFails, handleVars
  <2>2. UNCHANGED log \/ log' = Append(log, RegistrationRecord(m))
    BY <1>4, Zenon DEF Register, RegisterFails
  <2>3. /\ RegistrationRecord(m) \in LogRecord
        /\ RegistrationRecord(m).kind = "registration"
        /\ RegistrationRecord(m).status = "committed"
    BY <1>1, RecordsTyped DEF RegistrationRecord
  <2>4. CASE UNCHANGED log
    BY <1>2, <2>1, <2>4
  <2>5. CASE log' = Append(log, RegistrationRecord(m))
    BY <2>1, <2>3, <2>5 DEF CoreNext
  <2> QED BY <2>2, <2>4, <2>5
<1>5. ASSUME NEW m \in Member, AcquireStep(m) PROVE CoreNext
  <2>1. CASE StartAcquire(m) \/ ReadRoleState(m) \/ EvaluateState(m) \/ WakeUp(m)
    <3>1. UNCHANGED <<coord, log, token>>
      BY <2>1 DEF StartAcquire, ReadRoleState, EvaluateState, WakeUp, clusterVars,
                  handleVars
    <3> QED BY <1>2, <3>1
  <2>2. CASE AcquireEpoch(m)
    <3>1. MintAtCoordinator /\ token' = [token EXCEPT ![m] = NextToken(coord)]
      BY <2>2, Zenon DEF AcquireEpoch
    <3> QED BY <3>1 DEF CoreNext
  <2>3. CASE CommitAcquire(m)
    <3>1. log' = EndOpen(log, "committed") /\ UNCHANGED <<coord, token>>
      BY <2>3 DEF CommitAcquire, WriteUnchanged
    <3>2. token[m] = coord /\ writer[m]["acquire"].pc # "off" /\ "acquire" \in Writers
      BY <2>3 DEF CommitAcquire, Accepted, Writers
    <3>3. token[m] # NoEpoch
      BY <3>2, WriterHasToken
    <3> QED BY <3>1, <3>2, <3>3 DEF CoreNext
  <2> QED BY <1>4, <1>5, <2>1, <2>2, <2>3 DEF AcquireStep, CompeteStep
<1>6. ASSUME NEW m \in Member, NEW w \in Writers,
             \/ Produce(m, w) \/ ProduceFenced(m, w) \/ Commit(m, w)
             \/ CommitFenced(m, w) \/ ProduceFails(m, w) \/ CommitFails(m, w)
      PROVE  CoreNext
  <2> DEFINE r == LeaseRecord(m, writer[m][w].at, w = "resign")
  <2>1. UNCHANGED <<coord, token>>
    <3>1. WriteUnchanged
      BY <1>6, Zenon DEF Produce, ProduceFenced, Commit, CommitFenced, ProduceFails,
                         CommitFails
    <3> QED BY <3>1 DEF WriteUnchanged
  <2>2. \/ UNCHANGED log
        \/ log' = EndOpen(log, "committed") /\ Accepted(m) /\ writer[m][w].pc = "produced"
        \/ log' = EndOpen(log, "aborted")
        \/ log' = Append(log, r) /\ Accepted(m) /\ writer[m][w].pc = "granted"
    <3>1. CASE Produce(m, w) \/ ProduceFenced(m, w) \/ ProduceFails(m, w)
      BY <3>1, Zenon DEF Produce, ProduceFenced, ProduceFails
    <3>2. CASE Commit(m, w) \/ CommitFenced(m, w) \/ CommitFails(m, w)
      BY <3>2, Zenon DEF Commit, CommitFenced, CommitFails
    <3> QED BY <1>6, <3>1, <3>2
  <2>3. CASE UNCHANGED log
    BY <1>2, <2>1, <2>3
  <2>4. CASE log' = EndOpen(log, "aborted")
    BY <2>1, <2>4 DEF CoreNext
  <2>5. CASE log' = EndOpen(log, "committed") /\ Accepted(m) /\ writer[m][w].pc = "produced"
    <3>1. token[m] = coord /\ token[m] # NoEpoch
      BY <2>5, WriterHasToken DEF Accepted
    <3> QED BY <2>1, <2>5, <3>1 DEF CoreNext
  <2>6. CASE log' = Append(log, r) /\ Accepted(m) /\ writer[m][w].pc = "granted"
    <3>1. token[m] = coord /\ token[m] # NoEpoch
      BY <2>6, WriterHasToken DEF Accepted
    <3>2. r \in LogRecord /\ r.kind = "lease" /\ r.token = token[m] /\ r.member = m
      BY <1>1, LeaseAppendTyped
    <3>3. r.status = "open"
      BY DEF LeaseRecord
    <3> HIDE DEF r
    <3> QED BY <2>1, <2>6, <3>1, <3>2, <3>3 DEF CoreNext
  <2> QED BY <2>2, <2>3, <2>4, <2>5, <2>6
<1>7. ASSUME NEW m \in Member,
             \/ LoopStep(m) \/ CallerStep(m) \/ \E w \in Writers : RenewAcked(m, w)
      PROVE  CoreNext
  <2>1. HandleUnchanged
    <3>1. CASE LoopStep(m)
      BY <3>1, Zenon DEF LoopStep, LoopTop, LoopRenew, LoopFailed, LoopRetry, LoopStops
    <3>2. CASE CallerStep(m)
      BY <3>2, Zenon DEF CallerStep, CallRenew, CallResign, ResignEnds
    <3>3. CASE \E w \in Writers : RenewAcked(m, w)
      BY <3>3, Zenon DEF RenewAcked
    <3> QED BY <1>7, <3>1, <3>2, <3>3
  <2> QED BY <1>2, <2>1 DEF HandleUnchanged, clusterVars
<1>8. ASSUME NEW m \in Member, FaultStep(m) PROVE CoreNext
  <2>1. CASE AcquireEpochFails(m)
    <3>1. UNCHANGED token /\ (MintAtCoordinator \/ UNCHANGED <<coord, log>>)
      BY <2>1 DEF AcquireEpochFails, handleVars
    <3> QED BY <1>2, <3>1 DEF CoreNext
  <2>2. CASE Crash(m)
    <3>1. token' = [token EXCEPT ![m] = NoEpoch] /\ UNCHANGED <<coord, log>>
      BY <2>2 DEF Crash, clusterVars
    <3> QED BY <3>1 DEF CoreNext
  <2>3. CASE Restart(m) \/ CancelAcquire(m)
    <3>1. UNCHANGED <<coord, log, token>>
      BY <2>3 DEF Restart, CancelAcquire, clusterVars, handleVars
    <3> QED BY <1>2, <3>1
  <2> QED BY <1>4, <1>6, <1>8, <2>1, <2>2, <2>3 DEF FaultStep
<1> QED BY <1>3, <1>5, <1>6, <1>7, <1>8 DEF Next, WriteStep

\* Every step keeps AuthorityInv.
LEMMA AuthorityStep ==
  ASSUME IndInv, Next
  PROVE  AuthorityInv'
<1>1. /\ TypeOK /\ AuthorityInv /\ TokenBacksWrites
      /\ Core
  BY DEF IndInv, TypeOK, ClusterType, HandleType, Core
<1>2. CoreNext
  BY <1>1, NextIsCore
<1> QED BY <1>1, <1>2, CoreUnchanged, CoreRegister, CoreProduce, CoreEndOpen, CoreMint,
           CoreCrash DEF CoreNext

\* The invariant is inductive.
LEMMA InvStep ==
  ASSUME IndInv, [Next]_vars
  PROVE  IndInv'
<1>1. TypeOK'
  BY StepTyped DEF IndInv
<1>2. CASE Next
  BY <1>1, <1>2, AuthorityStep, BacksStep DEF IndInv
<1>3. CASE UNCHANGED vars
  <2>1. UNCHANGED <<coord, log, token>> /\ UNCHANGED <<held, writer>>
    BY <1>3 DEF vars, clusterVars, handleVars
  <2>2. AuthorityInv'
    BY <2>1, CoreUnchanged DEF IndInv
  <2>3. TokenBacksWrites'
    BY <2>1 DEF IndInv, TokenBacksWrites
  <2> QED BY <1>1, <2>2, <2>3 DEF IndInv
<1> QED BY <1>2, <1>3

\* IndInv is an invariant of the specification.
THEOREM InductiveInvariant == Spec => []IndInv
<1>1. Init => IndInv
  BY InitTyped, InitAuthority DEF IndInv
<1>2. IndInv /\ [Next]_vars => IndInv'
  BY InvStep
<1> QED BY <1>1, <1>2, PTL DEF Spec

\* At most one member is authoritative, for any number of members and any
\* clocks, crashes, lost answers and simultaneous challenges: AcquireEpoch
\* hands out a token once, and a token that is not the coordinator's is not
\* authoritative.
THEOREM OneAuthority == Spec => []AtMostOneAuthority
<1>1. IndInv => AtMostOneAuthority
  BY DEF IndInv, AuthorityInv, TokensUnique, AtMostOneAuthority, Authoritative
<1> QED BY <1>1, InductiveInvariant, PTL

\* The lease records of a partition that are not aborted never step back to
\* a token that was superseded before.
THEOREM LeaseOrder == Spec => []LeaseTokensGrow
<1>1. IndInv => LeaseTokensGrow
  BY DEF IndInv, AuthorityInv
<1> QED BY <1>1, InductiveInvariant, PTL

\* A write in flight when its member lost the role is aborted, never
\* committed: what is open carries the current token.
THEOREM FencedWritesAbort == Spec => []OpenWritesAreCurrent
<1>1. IndInv => OpenWritesAreCurrent
  BY DEF IndInv, AuthorityInv
<1> QED BY <1>1, InductiveInvariant, PTL

\* A lease record names the one member its token was minted for.
THEOREM LeaseAuthor == Spec => []LeaseProvesAuthor
<1>1. IndInv => LeaseProvesAuthor
  BY DEF IndInv, AuthorityInv
<1> QED BY <1>1, InductiveInvariant, PTL

-----------------------------------------------------------------------------
(***************************************************************************)
(* What a member read does not change under it.                            *)
(***************************************************************************)
\* No record below the position of a read is open.
SeenStable ==
  \A m \in Member : \A i \in 1 .. seen[m] : log[i].status # "open"

\* No record below the last stable offset is open.
LEMMA StableBelow ==
  ASSUME log \in Seq(LogRecord)
  PROVE  \A i \in 1 .. LastStableOffset(log) : log[i].status # "open"
<1> DEFINE open == OpenOffsets(log)
<1>1. Len(log) \in Nat /\ open \subseteq 1 .. Len(log)
  BY DEF OpenOffsets
<1>2. LastStableOffset(log) \in 0 .. Len(log)
  BY LastStableTyped
<1>3. \A i \in 1 .. Len(log) : log[i].status = "open" => i \in open
  BY DEF OpenOffsets
<1>4. ASSUME NEW i \in 1 .. LastStableOffset(log), log[i].status = "open"
      PROVE  FALSE
  <2>1. i \in open /\ open # {}
    BY <1>1, <1>2, <1>3, <1>4
  <2>2. open \subseteq Nat
    BY <1>1
  <2>3. \E k \in open : \A j \in open : k <= j
    BY <2>1, <2>2, LeastNatural
  <2>4. LastStableOffset(log) < i
    BY <1>1, <2>1, <2>3 DEF LastStableOffset
  <2> QED BY <1>2, <1>4, <2>4
<1> QED BY <1>4

\* The log takes a LogStep in every step, and a read position stays, is
\* cleared, or is taken at the last stable offset of an unchanged log.
LEMMA NextReads ==
  ASSUME TypeOK, [Next]_vars
  PROVE  /\ LogStep
         /\ \/ UNCHANGED seen
            \/ \E m \in Member : seen' = [seen EXCEPT ![m] = 0]
            \/ /\ UNCHANGED log
               /\ \E m \in Member : seen' = [seen EXCEPT ![m] = LastStableOffset(log)]
<1>1. ClusterType /\ HandleType
  BY DEF TypeOK
<1>2. CASE UNCHANGED <<log, seen>>
  BY <1>2 DEF LogStep
<1>3. CASE UNCHANGED vars
  BY <1>2, <1>3 DEF vars, clusterVars, acquireVars
<1>4. CASE Tick
  BY <1>2, <1>4 DEF Tick, clusterVars, acquireVars
<1>5. CASE TransactionTimeout
  BY <1>5 DEF TransactionTimeout, MintAtCoordinator, LogStep, acquireVars
<1>6. ASSUME NEW m \in Member, AcquireStep(m)
      PROVE  /\ LogStep
             /\ \/ UNCHANGED seen
                \/ seen' = [seen EXCEPT ![m] = 0]
                \/ UNCHANGED log /\ seen' = [seen EXCEPT ![m] = LastStableOffset(log)]
  <2>1. CASE StartAcquire(m) \/ WakeUp(m)
    BY <1>2, <2>1 DEF StartAcquire, WakeUp, clusterVars
  <2>2. CASE ReadRoleState(m)
    BY <2>2 DEF ReadRoleState, LogStep, clusterVars
  <2>3. CASE EvaluateState(m)
    BY <2>3 DEF EvaluateState, LogStep, clusterVars
  <2>4. CASE Register(m)
    BY <1>1, <2>4, RecordsTyped DEF Register, LogStep
  <2>5. CASE AcquireEpoch(m)
    BY <2>5 DEF AcquireEpoch, MintAtCoordinator, LogStep
  <2>6. CASE CommitAcquire(m)
    BY <2>6 DEF CommitAcquire, WriteUnchanged, LogStep
  <2> QED BY <1>6, <2>1, <2>2, <2>3, <2>4, <2>5, <2>6 DEF AcquireStep, CompeteStep
<1>7. ASSUME NEW m \in Member, NEW w \in Writers,
             \/ Produce(m, w) \/ ProduceFenced(m, w) \/ Commit(m, w)
             \/ CommitFenced(m, w) \/ ProduceFails(m, w) \/ CommitFails(m, w)
      PROVE  LogStep /\ UNCHANGED seen
  <2>1. WriteUnchanged
    BY <1>7, Zenon DEF Produce, ProduceFenced, Commit, CommitFenced, ProduceFails,
                       CommitFails
  <2>2. LogStep
    BY <1>1, <1>7, WriteLogStep
  <2> QED BY <2>1, <2>2 DEF WriteUnchanged
<1>8. ASSUME NEW m \in Member,
             \/ LoopStep(m) \/ CallerStep(m) \/ \E w \in Writers : RenewAcked(m, w)
      PROVE  UNCHANGED <<log, seen>>
  <2>1. HandleUnchanged
    <3>1. CASE LoopStep(m)
      BY <3>1, Zenon DEF LoopStep, LoopTop, LoopRenew, LoopFailed, LoopRetry, LoopStops
    <3>2. CASE CallerStep(m)
      BY <3>2, Zenon DEF CallerStep, CallRenew, CallResign, ResignEnds
    <3>3. CASE \E w \in Writers : RenewAcked(m, w)
      BY <3>3, Zenon DEF RenewAcked
    <3> QED BY <1>8, <3>1, <3>2, <3>3
  <2> QED BY <2>1 DEF HandleUnchanged, clusterVars, acquireVars
<1>9. ASSUME NEW m \in Member, FaultStep(m)
      PROVE  LogStep /\ (UNCHANGED seen \/ seen' = [seen EXCEPT ![m] = 0])
  <2>1. CASE RegisterFails(m)
    BY <1>1, <2>1, RecordsTyped DEF RegisterFails, LogStep
  <2>2. CASE AcquireEpochFails(m)
    BY <2>2 DEF AcquireEpochFails, MintAtCoordinator, LogStep
  <2>3. CASE Crash(m) \/ Restart(m) \/ CancelAcquire(m)
    BY <2>3 DEF Crash, Restart, CancelAcquire, LogStep, clusterVars
  <2> QED BY <1>7, <1>9, <2>1, <2>2, <2>3 DEF FaultStep
<1>10. ASSUME NEW m \in Member, WriteStep(m)
       PROVE  LogStep /\ UNCHANGED seen
  BY <1>2, <1>7, <1>8, <1>10 DEF WriteStep, LogStep
<1> QED BY <1>2, <1>3, <1>4, <1>5, <1>6, <1>8, <1>9, <1>10 DEF Next

\* A step of the log leaves alone every record that is not open.
LEMMA ClosedRecordsStay ==
  ASSUME log \in Seq(LogRecord), LogStep, NEW i \in 1 .. Len(log),
         log[i].status # "open"
  PROVE  log'[i] = log[i]
<1>1. i \in DOMAIN log
  OBVIOUS
<1>2. CASE UNCHANGED log
  BY <1>2
<1>3. ASSUME NEW r \in LogRecord, log' = Append(log, r) PROVE log'[i] = log[i]
  BY <1>1, <1>3, AppendFacts
<1>4. ASSUME NEW v \in {"committed", "aborted"}, log' = EndOpen(log, v)
      PROVE  log'[i] = log[i]
  BY <1>1, <1>4 DEF EndOpen
<1> QED BY <1>2, <1>3, <1>4 DEF LogStep

\* Every step keeps SeenStable and leaves what was read alone.
LEMMA SeenStep ==
  ASSUME TypeOK, SeenStable, [Next]_vars
  PROVE  /\ SeenStable'
         /\ \A m \in Member : \A i \in 1 .. seen[m] : log'[i] = log[i]
<1>1. /\ log \in Seq(LogRecord) /\ seen \in [Member -> Nat] /\ Len(log) \in Nat
      /\ \A m \in Member : seen[m] <= Len(log)
  BY DEF TypeOK, ClusterType, AcquireType
<1>2. LogStep
  BY NextReads
<1>3. ASSUME NEW m \in Member, NEW i \in 1 .. seen[m] PROVE log'[i] = log[i]
  <2>1. i \in 1 .. Len(log) /\ log[i].status # "open"
    BY <1>1, <1>3 DEF SeenStable
  <2> QED BY <1>1, <1>2, <2>1, ClosedRecordsStay
<1>4. ASSUME NEW m \in Member, NEW i \in 1 .. seen'[m]
      PROVE  log'[i].status # "open"
  <2>1. CASE seen'[m] = seen[m]
    BY <1>3, <1>4, <2>1 DEF SeenStable
  <2>2. CASE seen'[m] = 0
    BY <1>4, <2>2
  <2>3. CASE UNCHANGED log /\ seen'[m] = LastStableOffset(log)
    BY <1>1, <1>4, <2>3, StableBelow
  <2>4. \/ seen'[m] = seen[m] \/ seen'[m] = 0
        \/ UNCHANGED log /\ seen'[m] = LastStableOffset(log)
    BY <1>1, NextReads
  <2> QED BY <2>1, <2>2, <2>3, <2>4
<1> QED BY <1>3, <1>4 DEF SeenStable

\* A member decides on records that no later commit, abort or mint changes,
\* for any number of members and writes in flight.
THEOREM ReadsAreStable == Spec => StableReads
<1>1. Init => SeenStable
  BY DEF Init, SeenStable
<1>2. TypeOK /\ SeenStable /\ [Next]_vars => SeenStable'
  BY SeenStep
<1>3. TypeOK /\ SeenStable /\ [Next]_vars =>
        [\A m \in Member : pc[m] = "evaluate" =>
           \A i \in 1 .. seen[m] : log'[i] = log[i]]_vars
  BY SeenStep
<1> QED BY <1>1, <1>2, <1>3, TypeCorrect, PTL DEF Spec, StableReads

-----------------------------------------------------------------------------
(***************************************************************************)
(* The registration of an acquisition.                                     *)
(***************************************************************************)
Acquiring == {"read", "evaluate", "register", "pause", "mint", "write"}

Mine(r, m) == r.kind = "registration" /\ r.member = m

\* The registrations of m since it began to acquire.
OwnOffsets(m) == {i \in bornAt[m] + 1 .. Len(log) : Mine(log[i], m)}

\* The acquire loop waits while its first lease is being written.
AcquireWaits == \A m \in Member : writer[m]["acquire"].pc # "off" => pc[m] = "write"

\* The flag of AcquireLeadership guards the registration: without it there
\* is none, with it there is one, and whoever is about to register lacks it.
FlagGuards ==
  \A m \in Member :
    /\ pc[m] = "register" => ~registered[m]
    /\ pc[m] \in Acquiring => /\ \A i, j \in OwnOffsets(m) : i = j
                              /\ ~registered[m] => OwnOffsets(m) = {}

RegistrationInv == AcquireWaits /\ FlagGuards

\* The step adds no registration of m.
NoNews(m) ==
  \A i \in 1 .. Len(log') : Mine(log'[i], m) => i \in 1 .. Len(log) /\ Mine(log[i], m)

\* What a step may do to the loop of a member,
FlagStep(m) ==
  \/ pc'[m] \in {"down", "idle"}
  \/ /\ pc'[m] = "read" /\ registered'[m] = FALSE
     /\ bornAt'[m] = Len(log) /\ log' = log
  \/ /\ pc[m] = "register" /\ pc'[m] = "read" /\ registered'[m] = TRUE
     /\ bornAt'[m] = bornAt[m]
     /\ \E r \in LogRecord : log' = Append(log, r)
  \/ /\ pc[m] \in Acquiring
     /\ registered'[m] = registered[m] /\ bornAt'[m] = bornAt[m] /\ NoNews(m)
     /\ pc'[m] = "register" => pc[m] = "register" \/ ~registered[m]

\* and to the write of its first lease.
WaitStep(m) ==
  \/ writer'[m]["acquire"].pc = "off"
  \/ pc'[m] = "write"
  \/ /\ writer[m]["acquire"].pc # "off" \/ UNCHANGED writer[m]["acquire"].pc
     /\ pc'[m] = pc[m]
  \/ UNCHANGED writer[m]["acquire"].pc /\ pc[m] # "write"

\* Another member's record, a lease record or the end of a transaction is
\* no news for m.
LEMMA NoNewsBy ==
  ASSUME log \in Seq(LogRecord), NEW m \in Member,
         \/ UNCHANGED log
         \/ \E r \in LogRecord : ~Mine(r, m) /\ log' = Append(log, r)
         \/ \E v \in {"committed", "aborted"} : log' = EndOpen(log, v)
  PROVE  NoNews(m)
<1>1. CASE UNCHANGED log
  BY <1>1 DEF NoNews
<1>2. ASSUME NEW r \in LogRecord, ~Mine(r, m), log' = Append(log, r)
      PROVE  NoNews(m)
  <2>1. /\ Len(log') = Len(log) + 1 /\ Len(log) \in Nat /\ DOMAIN log = 1 .. Len(log)
        /\ \A i \in DOMAIN log : log'[i] = log[i]
        /\ log'[Len(log) + 1] = r
    BY <1>2, AppendFacts
  <2>2. \A i \in 1 .. Len(log') : i \in 1 .. Len(log) \/ i = Len(log) + 1
    BY <2>1
  <2> QED BY <1>2, <2>1, <2>2 DEF NoNews
<1>3. ASSUME NEW v \in {"committed", "aborted"}, log' = EndOpen(log, v)
      PROVE  NoNews(m)
  <2>1. /\ log' \in Seq(LogRecord) /\ DOMAIN log' = DOMAIN log
        /\ \A i \in DOMAIN log : log'[i].kind = log[i].kind /\ log'[i].member = log[i].member
    BY <1>3, EndOpenFacts
  <2>2. DOMAIN log' = 1 .. Len(log') /\ DOMAIN log = 1 .. Len(log)
    BY <2>1
  <2> QED BY <2>1, <2>2 DEF NoNews, Mine
<1> QED BY <1>1, <1>2, <1>3

\* A member whose loop a step leaves alone.
LEMMA LoopKept ==
  ASSUME TypeOK, NEW m \in Member, NoNews(m), pc'[m] = pc[m],
         registered'[m] = registered[m], bornAt'[m] = bornAt[m]
  PROVE  FlagStep(m)
BY DEF FlagStep, TypeOK, AcquireType, Acquiring

\* The steps keep the invariant.
LEMMA FlagKept ==
  ASSUME TypeOK, FlagGuards, NEW m \in Member, FlagStep(m)
  PROVE  /\ pc'[m] = "register" => ~registered'[m]
         /\ pc'[m] \in Acquiring => /\ \A i, j \in OwnOffsets(m)' : i = j
                                    /\ ~registered'[m] => OwnOffsets(m)' = {}
<1>1. log \in Seq(LogRecord) /\ Len(log) \in Nat /\ bornAt[m] \in Nat
  BY DEF TypeOK, ClusterType, AcquireType
<1>2. CASE pc'[m] \in {"down", "idle"}
  BY <1>2 DEF Acquiring
<1>3. CASE /\ pc'[m] = "read" /\ registered'[m] = FALSE
           /\ bornAt'[m] = Len(log) /\ log' = log
  BY <1>1, <1>3 DEF OwnOffsets
<1>4. ASSUME pc[m] = "register", pc'[m] = "read", registered'[m] = TRUE,
             bornAt'[m] = bornAt[m], NEW r \in LogRecord, log' = Append(log, r)
      PROVE  \A i, j \in OwnOffsets(m)' : i = j
  <2>1. OwnOffsets(m) = {}
    BY <1>4 DEF FlagGuards, Acquiring
  <2>2. /\ Len(log') = Len(log) + 1 /\ DOMAIN log = 1 .. Len(log)
        /\ \A i \in DOMAIN log : log'[i] = log[i]
    BY <1>1, <1>4, AppendFacts
  <2>3. ASSUME NEW i \in OwnOffsets(m)' PROVE i = Len(log) + 1
    <3>1. i \in bornAt[m] + 1 .. Len(log) + 1 /\ Mine(log'[i], m)
      BY <1>4, <2>2, <2>3 DEF OwnOffsets
    <3>2. CASE i \in 1 .. Len(log)
      BY <1>1, <2>1, <2>2, <3>1, <3>2 DEF OwnOffsets
    <3> QED BY <1>1, <3>1, <3>2
  <2> QED BY <2>3
<1>5. ASSUME pc[m] \in Acquiring, registered'[m] = registered[m],
             bornAt'[m] = bornAt[m], NoNews(m)
      PROVE  OwnOffsets(m)' \subseteq OwnOffsets(m)
  <2>1. OwnOffsets(m)' = {i \in bornAt[m] + 1 .. Len(log') : Mine(log'[i], m)}
    BY <1>5 DEF OwnOffsets, Mine
  <2> QED BY <1>1, <1>5, <2>1 DEF OwnOffsets, NoNews
<1> QED BY <1>2, <1>3, <1>4, <1>5 DEF FlagStep, FlagGuards, Acquiring

\* Every step treats every member in one of these ways.
LEMMA NextFlags ==
  ASSUME TypeOK, AcquireWaits, Next, NEW n \in Member
  PROVE  FlagStep(n) /\ WaitStep(n)
<1>1. ClusterType /\ HandleType /\ AcquireType
  BY DEF TypeOK
<1>2. /\ log \in Seq(LogRecord) /\ "acquire" \in Writers
      /\ writer \in [Member -> [Writers -> WriterState]]
  BY <1>1 DEF ClusterType, HandleType, Writers
<1>3. CASE /\ UNCHANGED <<pc, registered, bornAt>> /\ NoNews(n)
           /\ UNCHANGED writer[n]["acquire"].pc
  BY <1>3, LoopKept DEF WaitStep
<1>4. CASE Tick
  BY <1>2, <1>3, <1>4, NoNewsBy DEF Tick, clusterVars, acquireVars, handleVars
<1>5. CASE TransactionTimeout
  BY <1>2, <1>3, <1>5, NoNewsBy
     DEF TransactionTimeout, MintAtCoordinator, acquireVars, handleVars
<1>6. ASSUME NEW m \in Member, AcquireStep(m) PROVE FlagStep(n) /\ WaitStep(n)
  <2>1. CASE StartAcquire(m)
    <3>1. log' = log
      BY <2>1 DEF StartAcquire, clusterVars
    <3>2. CASE n = m
      BY <1>1, <1>2, <2>1, <3>1, <3>2
         DEF StartAcquire, AcquireType, FlagStep, WaitStep, AllOff, Off
    <3>3. CASE n # m
      BY <1>1, <1>2, <2>1, <3>1, <3>3, NoNewsBy, LoopKept
         DEF StartAcquire, AcquireType, WaitStep
    <3> QED BY <3>2, <3>3
  <2>2. CASE ReadRoleState(m) \/ EvaluateState(m) \/ WakeUp(m)
    <3>1. UNCHANGED <<log, registered, bornAt, writer>>
      BY <2>2 DEF ReadRoleState, EvaluateState, WakeUp, clusterVars, handleVars
    <3>2. /\ pc[m] \in {"read", "evaluate", "pause"}
          /\ pc' \in {[pc EXCEPT ![m] = "read"], [pc EXCEPT ![m] = "evaluate"],
                      [pc EXCEPT ![m] = "register"], [pc EXCEPT ![m] = "pause"],
                      [pc EXCEPT ![m] = "mint"]}
          /\ pc' = [pc EXCEPT ![m] = "register"] => ~registered[m]
      BY <1>1, <2>2 DEF ReadRoleState, EvaluateState, WakeUp, Act, AcquireType
    <3>3. NoNews(n)
      BY <1>2, <3>1, NoNewsBy
    <3>4. CASE n = m
      BY <1>1, <3>1, <3>2, <3>3, <3>4 DEF AcquireType, FlagStep, WaitStep, Acquiring
    <3>5. CASE n # m
      BY <1>1, <3>1, <3>2, <3>3, <3>5, LoopKept DEF AcquireType, WaitStep
    <3> QED BY <3>4, <3>5
  <2>3. CASE Register(m)
    <3>1. /\ RegistrationRecord(m) \in LogRecord
          /\ n # m => ~Mine(RegistrationRecord(m), n)
      BY <1>1, RecordsTyped DEF RegistrationRecord, Mine
    <3>2. /\ pc[m] = "register" /\ log' = Append(log, RegistrationRecord(m))
          /\ registered' = [registered EXCEPT ![m] = TRUE]
          /\ pc' = [pc EXCEPT ![m] = "read"] /\ UNCHANGED <<bornAt, writer>>
      BY <2>3 DEF Register, handleVars
    <3>3. CASE n = m
      BY <1>1, <3>1, <3>2, <3>3 DEF AcquireType, FlagStep, WaitStep
    <3>4. CASE n # m
      <4>1. NoNews(n)
        BY <1>2, <3>1, <3>2, <3>4, NoNewsBy
      <4> QED BY <1>1, <3>2, <3>4, <4>1, LoopKept DEF AcquireType, WaitStep
    <3> QED BY <3>3, <3>4
  <2>4. CASE AcquireEpoch(m)
    <3>1. /\ pc[m] = "mint" /\ log' = EndOpen(log, "aborted")
          /\ pc' = [pc EXCEPT ![m] = "write"] /\ UNCHANGED <<bornAt, registered>>
          /\ \E v : writer' = [writer EXCEPT ![m]["acquire"] = v]
      BY <2>4, Zenon DEF AcquireEpoch, MintAtCoordinator
    <3>2. NoNews(n)
      BY <1>2, <3>1, NoNewsBy
    <3>3. CASE n = m
      BY <1>1, <3>1, <3>2, <3>3 DEF AcquireType, FlagStep, WaitStep, Acquiring
    <3>4. CASE n # m
      <4>1. writer'[n] = writer[n]
        BY <1>1, <1>2, <3>1, <3>4, OneWriter
      <4> QED BY <1>1, <3>1, <3>2, <3>4, <4>1, LoopKept DEF AcquireType, WaitStep
    <3> QED BY <3>3, <3>4
  <2>5. CASE CommitAcquire(m)
    <3>1. /\ log' = EndOpen(log, "committed")
          /\ pc' = [pc EXCEPT ![m] = "idle"] /\ UNCHANGED <<bornAt, registered>>
          /\ writer' = [writer EXCEPT ![m]["acquire"] = Off,
                                      ![m]["loop"] = [pc |-> "top", at |-> 0]]
      BY <2>5 DEF CommitAcquire, WriteUnchanged
    <3>2. NoNews(n)
      BY <1>2, <3>1, NoNewsBy
    <3>3. CASE n = m
      <4>1. writer'[m]["acquire"].pc = "off"
        BY <1>2, <3>1 DEF Off, Writers
      <4> QED BY <1>1, <3>1, <3>3, <4>1 DEF AcquireType, FlagStep, WaitStep
    <3>4. CASE n # m
      BY <1>1, <1>2, <3>1, <3>2, <3>4, LoopKept DEF AcquireType, WaitStep
    <3> QED BY <3>3, <3>4
  <2> QED BY <1>6, <2>1, <2>2, <2>3, <2>4, <2>5 DEF AcquireStep, CompeteStep
<1>7. ASSUME NEW m \in Member, NEW w \in Writers,
             \/ Produce(m, w) \/ ProduceFenced(m, w) \/ Commit(m, w)
             \/ CommitFenced(m, w) \/ ProduceFails(m, w) \/ CommitFails(m, w)
      PROVE  FlagStep(n) /\ WaitStep(n)
  <2>1. UNCHANGED <<registered, bornAt>>
    <3>1. WriteUnchanged
      BY <1>7, Zenon DEF Produce, ProduceFenced, Commit, CommitFenced, ProduceFails,
                         CommitFails
    <3> QED BY <3>1 DEF WriteUnchanged
  <2>2. NoNews(n)
    <3>1. /\ LeaseRecord(m, writer[m][w].at, w = "resign") \in LogRecord
          /\ ~Mine(LeaseRecord(m, writer[m][w].at, w = "resign"), n)
      BY <1>1, LeaseAppendTyped DEF Mine
    <3>2. \/ UNCHANGED log
          \/ log' = EndOpen(log, "committed")
          \/ log' = EndOpen(log, "aborted")
          \/ log' = Append(log, LeaseRecord(m, writer[m][w].at, w = "resign"))
      <4>1. CASE Produce(m, w) \/ ProduceFenced(m, w) \/ ProduceFails(m, w)
        BY <4>1, Zenon DEF Produce, ProduceFenced, ProduceFails
      <4>2. CASE Commit(m, w) \/ CommitFenced(m, w) \/ CommitFails(m, w)
        BY <4>2, Zenon DEF Commit, CommitFenced, CommitFails
      <4> QED BY <1>7, <4>1, <4>2
    <3> QED BY <1>2, <3>1, <3>2, NoNewsBy
  <2>3. /\ writer[m][w].pc \in {"granted", "produced"}
        /\ \/ SettleFenced(m, w) \/ SettleFailed(m, w)
           \/ UNCHANGED pc /\ (\E to : SetPc(m, w, to))
    <3>1. CASE Produce(m, w) \/ ProduceFenced(m, w) \/ ProduceFails(m, w)
      BY <3>1, Zenon DEF Produce, ProduceFenced, ProduceFails
    <3>2. CASE Commit(m, w) \/ CommitFenced(m, w) \/ CommitFails(m, w)
      BY <3>2, Zenon DEF Commit, CommitFenced, CommitFails
    <3> QED BY <1>7, <3>1, <3>2
  <2>4. \E to : SetPc(m, w, to)
    BY <2>3, Zenon DEF SettleFenced, SettleFailed
  <2>5. PICK v : writer' = [writer EXCEPT ![m][w] = v]
    BY <2>4, Zenon DEF SetPc
  <2>6. CASE UNCHANGED pc
    <3>1. FlagStep(n)
      BY <2>1, <2>2, <2>6, LoopKept
    <3>2. CASE n = m /\ w = "acquire"
      BY <2>3, <2>6, <3>1, <3>2 DEF WaitStep
    <3>3. CASE n # m \/ w # "acquire"
      <4>1. writer'[n]["acquire"] = writer[n]["acquire"]
        BY <1>2, <2>5, <3>3
      <4> QED BY <2>6, <3>1, <4>1 DEF WaitStep
    <3> QED BY <3>1, <3>2, <3>3
  <2>7. CASE SettleFenced(m, w) \/ SettleFailed(m, w)
    <3>1. CASE w # "acquire"
      <4>1. pc' = pc
        BY <1>1, <2>7, <3>1 DEF SettleFenced, SettleFailed, AcquireType
      <4> QED BY <2>6, <4>1
    <3>2. CASE w = "acquire"
      <4>1. pc' \in {[pc EXCEPT ![m] = "read"], [pc EXCEPT ![m] = "idle"]}
        BY <1>1, <2>7, <3>2 DEF SettleFenced, SettleFailed, AcquireType
      <4>2. SetPc(m, w, "off")
        BY <2>7, <3>2, Zenon DEF SettleFenced, SettleFailed, Cancelled
      <4>3. writer'[m]["acquire"].pc = "off"
        BY <1>2, <3>2, <4>2 DEF SetPc
      <4>4. pc[m] = "write"
        BY <2>3, <3>2 DEF AcquireWaits
      <4>5. CASE n = m
        BY <1>1, <2>1, <2>2, <4>1, <4>3, <4>4, <4>5
           DEF AcquireType, FlagStep, WaitStep, Acquiring
      <4>6. CASE n # m
        <5>1. writer'[n] = writer[n]
          BY <1>2, <2>5, <4>6
        <5> QED BY <1>1, <2>1, <2>2, <4>1, <4>6, <5>1, LoopKept
                DEF AcquireType, WaitStep
      <4> QED BY <4>5, <4>6
    <3> QED BY <3>1, <3>2
  <2> QED BY <2>3, <2>6, <2>7
<1>8. ASSUME NEW m \in Member,
             \/ LoopStep(m) \/ CallerStep(m) \/ \E w \in Writers : RenewAcked(m, w)
      PROVE  FlagStep(n) /\ WaitStep(n)
  <2>1. /\ HandleUnchanged
        /\ \E w \in Writers : /\ w # "acquire" \/ SetPc(m, w, "off")
                              /\ \E v : writer' = [writer EXCEPT ![m][w] = v]
    <3>1. CASE LoopStep(m)
      <4>1. "loop" \in Writers /\ "loop" # "acquire"
        BY DEF Writers
      <4> QED BY <3>1, <4>1, Zenon
              DEF LoopStep, LoopTop, LoopRenew, LoopFailed, LoopRetry, LoopStops, SetPc
    <3>2. CASE CallerStep(m)
      <4>1. {"renew", "resign"} \subseteq Writers /\ "renew" # "acquire" /\ "resign" # "acquire"
        BY DEF Writers
      <4> QED BY <3>2, <4>1, Zenon DEF CallerStep, CallRenew, CallResign, ResignEnds
    <3>3. CASE \E w \in Writers : RenewAcked(m, w)
      <4>1. "acquire" # "loop"
        OBVIOUS
      <4> QED BY <3>3, <4>1, Zenon DEF RenewAcked, SetPc
    <3> QED BY <1>8, <3>1, <3>2, <3>3
  <2>2. UNCHANGED <<log, pc, registered, bornAt>>
    BY <2>1 DEF HandleUnchanged, clusterVars, acquireVars
  <2>3. PICK w \in Writers : /\ w # "acquire" \/ SetPc(m, w, "off")
                             /\ \E v : writer' = [writer EXCEPT ![m][w] = v]
    BY <2>1
  <2>4. FlagStep(n)
    BY <1>2, <2>2, NoNewsBy, LoopKept
  <2>5. CASE n # m \/ w # "acquire"
    <3>1. writer'[n]["acquire"] = writer[n]["acquire"]
      BY <1>2, <2>3, <2>5
    <3> QED BY <2>2, <2>4, <3>1 DEF WaitStep
  <2>6. CASE n = m /\ w = "acquire"
    <3>1. writer'[n]["acquire"].pc = "off"
      BY <1>2, <2>3, <2>6 DEF SetPc
    <3> QED BY <2>4, <3>1 DEF WaitStep
  <2> QED BY <2>5, <2>6
<1>9. ASSUME NEW m \in Member, FaultStep(m) PROVE FlagStep(n) /\ WaitStep(n)
  <2>1. CASE RegisterFails(m)
    <3>1. /\ RegistrationRecord(m) \in LogRecord
          /\ n # m => ~Mine(RegistrationRecord(m), n)
      BY <1>1, RecordsTyped DEF RegistrationRecord, Mine
    <3>2. /\ pc[m] = "register" /\ UNCHANGED <<registered, bornAt, writer>>
          /\ pc' = [pc EXCEPT ![m] = "idle"]
          /\ UNCHANGED log \/ log' = Append(log, RegistrationRecord(m))
      BY <2>1 DEF RegisterFails, handleVars
    <3>3. CASE n = m
      BY <1>1, <3>2, <3>3 DEF AcquireType, FlagStep, WaitStep
    <3>4. CASE n # m
      <4>1. NoNews(n)
        BY <1>2, <3>1, <3>2, <3>4, NoNewsBy
      <4> QED BY <1>1, <3>2, <3>4, <4>1, LoopKept DEF AcquireType, WaitStep
    <3> QED BY <3>3, <3>4
  <2>2. CASE AcquireEpochFails(m) \/ Restart(m) \/ CancelAcquire(m)
    <3>1. /\ pc[m] # "write" /\ UNCHANGED <<registered, bornAt, writer>>
          /\ pc' = [pc EXCEPT ![m] = "idle"]
          /\ UNCHANGED log \/ log' = EndOpen(log, "aborted")
      BY <2>2 DEF AcquireEpochFails, MintAtCoordinator, Restart, CancelAcquire,
                  clusterVars, handleVars
    <3>2. NoNews(n)
      BY <1>2, <3>1, NoNewsBy
    <3>3. CASE n = m
      BY <1>1, <3>1, <3>3 DEF AcquireType, FlagStep, WaitStep
    <3>4. CASE n # m
      BY <1>1, <3>1, <3>2, <3>4, LoopKept DEF AcquireType, WaitStep
    <3> QED BY <3>3, <3>4
  <2>3. CASE Crash(m)
    <3>1. /\ pc' = [pc EXCEPT ![m] = "down"] /\ writer' = [writer EXCEPT ![m] = AllOff]
          /\ registered' = [registered EXCEPT ![m] = FALSE] /\ UNCHANGED <<bornAt, log>>
      BY <2>3 DEF Crash, clusterVars
    <3>2. CASE n = m
      BY <1>1, <1>2, <3>1, <3>2 DEF AcquireType, FlagStep, WaitStep, AllOff, Off
    <3>3. CASE n # m
      BY <1>1, <1>2, <3>1, <3>3, NoNewsBy, LoopKept DEF AcquireType, WaitStep
    <3> QED BY <3>2, <3>3
  <2> QED BY <1>7, <1>9, <2>1, <2>2, <2>3 DEF FaultStep
<1> QED BY <1>4, <1>5, <1>6, <1>7, <1>8, <1>9 DEF Next, WriteStep

\* The invariant is inductive.
LEMMA RegistrationStep ==
  ASSUME TypeOK, RegistrationInv, [Next]_vars
  PROVE  RegistrationInv'
<1>1. CASE Next
  <2>1. \A m \in Member : FlagStep(m) /\ WaitStep(m)
    BY <1>1, NextFlags DEF RegistrationInv
  <2>2. AcquireWaits'
    BY <2>1 DEF RegistrationInv, AcquireWaits, WaitStep
  <2>3. FlagGuards'
    BY <2>1, FlagKept DEF RegistrationInv, FlagGuards
  <2> QED BY <2>2, <2>3 DEF RegistrationInv
<1>2. CASE UNCHANGED vars
  BY <1>2 DEF vars, clusterVars, acquireVars, handleVars, RegistrationInv, AcquireWaits,
              FlagGuards, OwnOffsets
<1> QED BY <1>1, <1>2

\* One acquisition registers at most once, for any number of members and
\* however long an open transaction hides its registration from its reads.
THEOREM OneRegistration == Spec => []RegistersOnce
<1>1. Init => RegistrationInv
  BY DEF Init, RegistrationInv, AcquireWaits, FlagGuards, Acquiring, AllOff, Off, Writers
<1>2. TypeOK /\ RegistrationInv /\ [Next]_vars => RegistrationInv'
  BY RegistrationStep
<1>3. TypeOK /\ RegistrationInv => RegistersOnce
  <2> SUFFICES ASSUME TypeOK, RegistrationInv, NEW m \in Member,
                      pc[m] \in {"read", "evaluate", "register", "pause", "mint"}
               PROVE  Cardinality(OwnOffsets(m)) <= 1
    BY DEF RegistersOnce, OwnOffsets, Mine
  <2>1. \A i, j \in OwnOffsets(m) : i = j
    BY DEF RegistrationInv, FlagGuards, Acquiring
  <2>2. CASE OwnOffsets(m) = {}
    BY <2>2, FS_EmptySet
  <2>3. CASE OwnOffsets(m) # {}
    <3>1. PICK i \in OwnOffsets(m) : TRUE
      BY <2>3
    <3>2. OwnOffsets(m) = {i}
      BY <2>1, <3>1
    <3>3. Cardinality(OwnOffsets(m)) = 1
      BY <3>2, FS_Singleton, Zenon
    <3> QED BY <3>3
  <2> QED BY <2>2, <2>3
<1> QED BY <1>1, <1>2, <1>3, TypeCorrect, PTL DEF Spec

-----------------------------------------------------------------------------
(***************************************************************************)
(* The step simulation of RoleAuthority by Leadership: what a step does    *)
(* with the coordinator's token, the log and the members' tokens           *)
(* (CoreNext) is a step of the authority or none.  A commit is the step    *)
(* that needs an invariant of its own: what it makes visible has to be     *)
(* behind every visible lease record (OpenBehindLedger).                   *)
(***************************************************************************)
\* An open record is behind every visible lease record.
OpenBehindLedger ==
  \A i, j \in DOMAIN log :
    log[i].status = "open" /\ log[j].kind = "lease" /\ log[j].status = "committed" => j < i

VisibleLease(l) ==
  {j \in DOMAIN l : l[j].kind = "lease" /\ l[j].status = "committed"}

-----------------------------------------------------------------------------
(***************************************************************************)
(* The refinement mapping.                                                 *)
(***************************************************************************)
\* The member whose token is the coordinator's is the holder.
LEMMA HolderIs ==
  ASSUME NEW tokens, NEW c, NEW m \in Member, tokens[m] = c, c # NoEpoch,
         \A n \in Member : tokens[n] = c => n = m
  PROVE  m = IF \E n \in Member : c # NoEpoch /\ tokens[n] = c
             THEN CHOOSE n \in Member : c # NoEpoch /\ tokens[n] = c
             ELSE NoLease
<1>1. \E n \in Member : c # NoEpoch /\ tokens[n] = c
  OBVIOUS
<1>2. \A n \in Member : (c # NoEpoch /\ tokens[n] = c) => n = m
  OBVIOUS
<1> QED BY <1>1, <1>2

\* A member with the coordinator's token is the holder the mapping names.
LEMMA HolderNow ==
  ASSUME TokensUnique, NEW m \in Member, token[m] = coord, coord # NoEpoch
  PROVE  CurrentHolder = m
<1>1. \A n \in Member : token[n] = coord => n = m
  BY DEF TokensUnique
<1> QED BY <1>1, HolderIs DEF CurrentHolder, Authoritative

\* The ledger depends on the offset, member and token of the visible leases.
LEMMA LedgerKept ==
  ASSUME VisibleLease(log') = VisibleLease(log),
         \A i \in VisibleLease(log) : log'[i].member = log[i].member
                                      /\ log'[i].token = log[i].token
  PROVE  Ledger' = Ledger
<1>1. Ledger = {[offset |-> i, member |-> log[i].member, token |-> log[i].token] :
                  i \in VisibleLease(log)}
  BY DEF Ledger, VisibleLease
<1>2. Ledger' = {[offset |-> i, member |-> log'[i].member, token |-> log'[i].token] :
                   i \in VisibleLease(log')}
  BY DEF Ledger, VisibleLease
<1> QED BY <1>1, <1>2

\* An entry of the ledger is a visible lease record.
LEMMA LedgerEntry ==
  ASSUME NEW s \in Ledger
  PROVE  /\ s.offset \in VisibleLease(log)
         /\ s = [offset |-> s.offset, member |-> log[s.offset].member,
                 token |-> log[s.offset].token]
BY DEF Ledger, VisibleLease

-----------------------------------------------------------------------------
(***************************************************************************)
(* The steps.                                                              *)
(***************************************************************************)
\* A record that is no visible lease is appended: the authority stutters.
LEMMA AppendStutters ==
  ASSUME Core, OpenBehindLedger, NEW r \in LogRecord, log' = Append(log, r),
         (r.kind = "registration" /\ r.status = "committed") \/ r.status = "open",
         UNCHANGED <<coord, token>>
  PROVE  UNCHANGED <<coord, CurrentHolder, Ledger>> /\ OpenBehindLedger'
<1>1. /\ DOMAIN log' = 1 .. Len(log) + 1 /\ DOMAIN log = 1 .. Len(log)
      /\ \A i \in DOMAIN log : log'[i] = log[i]
      /\ log'[Len(log) + 1] = r /\ Len(log) \in Nat
  BY AppendFacts DEF Core
<1>2. \A i \in DOMAIN log' : \/ i \in DOMAIN log /\ log'[i] = log[i]
                             \/ i = Len(log) + 1 /\ log'[i] = r
  BY <1>1
<1>3. VisibleLease(log') = VisibleLease(log)
  BY <1>1, <1>2 DEF VisibleLease
<1>4. Ledger' = Ledger
  <2>1. \A i \in VisibleLease(log) : log'[i] = log[i]
    BY <1>1 DEF VisibleLease
  <2> QED BY <1>3, <2>1, LedgerKept
<1>5. CurrentHolder' = CurrentHolder
  BY DEF CurrentHolder, Authoritative
<1>6. OpenBehindLedger'
  <2> SUFFICES ASSUME NEW i \in DOMAIN log', NEW j \in DOMAIN log',
                      log'[i].status = "open", log'[j].kind = "lease",
                      log'[j].status = "committed"
               PROVE  j < i
    BY DEF OpenBehindLedger
  <2>1. j \in DOMAIN log /\ log'[j] = log[j]
    BY <1>2
  <2>2. CASE i \in DOMAIN log /\ log'[i] = log[i]
    BY <2>1, <2>2 DEF OpenBehindLedger
  <2>3. CASE i = Len(log) + 1
    BY <1>1, <2>1, <2>3
  <2> QED BY <1>2, <2>2, <2>3
<1> QED BY <1>4, <1>5, <1>6

\* The open transaction is aborted: nothing becomes visible.
LEMMA AbortKeepsLedger ==
  ASSUME Core, log' = EndOpen(log, "aborted")
  PROVE  Ledger' = Ledger /\ OpenBehindLedger'
<1>1. /\ DOMAIN log' = DOMAIN log
      /\ \A i \in DOMAIN log :
           /\ log'[i].kind = log[i].kind /\ log'[i].token = log[i].token
           /\ log'[i].member = log[i].member
           /\ log'[i].status = IF log[i].status = "open" THEN "aborted"
                               ELSE log[i].status
  BY EndOpenFacts DEF Core
<1>2. VisibleLease(log') = VisibleLease(log)
  BY <1>1 DEF VisibleLease
<1>3. Ledger' = Ledger
  BY <1>1, <1>2, LedgerKept DEF VisibleLease
<1>4. OpenBehindLedger'
  BY <1>1 DEF OpenBehindLedger
<1> QED BY <1>3, <1>4

\* A commit of the member with the coordinator's token publishes.
LEMMA CommitPublishes ==
  ASSUME Core, AuthorityInv, OpenBehindLedger, NEW m \in Member,
         token[m] = coord, token[m] # NoEpoch,
         log' = EndOpen(log, "committed"), UNCHANGED <<coord, token>>
  PROVE  Authority!Publish(m) /\ OpenBehindLedger'
<1>1. /\ DOMAIN log' = DOMAIN log
      /\ \A i \in DOMAIN log :
           /\ log'[i].kind = log[i].kind /\ log'[i].token = log[i].token
           /\ log'[i].member = log[i].member
           /\ log'[i].status = IF log[i].status = "open" THEN "committed"
                               ELSE log[i].status
  BY EndOpenFacts DEF Core
<1>2. CurrentHolder = m
  BY HolderNow DEF AuthorityInv
<1>3. CurrentHolder' = CurrentHolder
  BY DEF CurrentHolder, Authoritative
<1>4. Ledger' = {[offset |-> i, member |-> log[i].member, token |-> log[i].token] :
                   i \in VisibleLease(log')}
  BY <1>1 DEF Ledger, VisibleLease
<1>5. VisibleLease(log) \subseteq VisibleLease(log')
  BY <1>1 DEF VisibleLease
<1>6. Ledger \subseteq Ledger'
  BY <1>4, <1>5 DEF Ledger, VisibleLease
<1>7. ASSUME NEW r \in Ledger' \ Ledger
      PROVE  /\ r.member = m /\ r.token = coord
             /\ \A s \in Ledger : s.offset < r.offset
  <2>1. PICK i \in VisibleLease(log') :
          r = [offset |-> i, member |-> log[i].member, token |-> log[i].token]
    BY <1>4, <1>7
  <2>2. i \notin VisibleLease(log)
    BY <1>7, <2>1 DEF Ledger, VisibleLease
  <2>3. i \in DOMAIN log /\ log[i].status = "open" /\ log[i].kind = "lease"
    BY <1>1, <2>1, <2>2 DEF VisibleLease
  <2>4. log[i].token = coord
    BY <2>3 DEF AuthorityInv, OpenWritesAreCurrent
  <2>5. log[i].member = m
    BY <2>3, <2>4 DEF AuthorityInv, LeaseProvesAuthor
  <2>6. \A s \in Ledger : s.offset < i
    BY <2>3, LedgerEntry DEF OpenBehindLedger, VisibleLease
  <2> QED BY <2>1, <2>4, <2>5, <2>6
<1>8. OpenBehindLedger'
  BY <1>1 DEF OpenBehindLedger
<1> QED BY <1>2, <1>3, <1>6, <1>7, <1>8 DEF Authority!Publish

\* The coordinator mints, and a member takes the role or none does.
LEMMA MintTakesOrVoids ==
  ASSUME Core, AuthorityInv, MintAtCoordinator
  PROVE  /\ OpenBehindLedger'
         /\ UNCHANGED token => Authority!Void
         /\ \A m \in Member :
              token' = [token EXCEPT ![m] = NextToken(coord)] => Authority!Take(m)
<1> DEFINE new == NextToken(coord)
<1>1. coord' = new /\ new \in MintedToken /\ new \in Token /\ Supersedes(new, coord)
  BY NextTokenSupersedes DEF Core, MintAtCoordinator, Token
<1>2. \A n \in Member : token[n] # new
  BY <1>1, BelowNext DEF Core, AuthorityInv, TokensBelow
<1>3. new # NoEpoch
  BY <1>1, NoEpochNotMinted
<1>4. Ledger' = Ledger /\ OpenBehindLedger'
  BY AbortKeepsLedger DEF MintAtCoordinator
<1>5. Authority!Supersedes(coord', coord)
  BY <1>1 DEF Authority!Supersedes, Supersedes
<1> HIDE DEF new
<1>6. ASSUME UNCHANGED token PROVE Authority!Void
  <2>1. CurrentHolder' = NoLease
    BY <1>1, <1>2, <1>6 DEF CurrentHolder, Authoritative
  <2> QED BY <1>4, <1>5, <2>1 DEF Authority!Void
<1>7. ASSUME NEW m \in Member, token' = [token EXCEPT ![m] = NextToken(coord)]
      PROVE  Authority!Take(m)
  <2>1. token'[m] = new /\ \A n \in Member : token'[n] = new => n = m
    BY <1>2, <1>7 DEF Core, new
  <2>2. CurrentHolder' = m
    BY <1>1, <1>3, <2>1, HolderIs DEF CurrentHolder, Authoritative
  <2> QED BY <1>4, <1>5, <2>2 DEF Authority!Take
<1> QED BY <1>4, <1>6, <1>7

\* A process that stops leaves the role if it held it.
LEMMA CrashLeaves ==
  ASSUME Core, AuthorityInv, NEW m \in Member,
         token' = [token EXCEPT ![m] = NoEpoch], UNCHANGED <<coord, log>>
  PROVE  Authority!Leave \/ UNCHANGED <<coord, CurrentHolder, Ledger>>
<1>1. Ledger' = Ledger
  BY DEF Ledger
<1>2. \A n \in Member : token'[n] = IF n = m THEN NoEpoch ELSE token[n]
  BY DEF Core
<1>3. CASE coord # NoEpoch /\ token[m] = coord
  <2>1. CurrentHolder' = NoLease
    BY <1>2, <1>3 DEF CurrentHolder, Authoritative, AuthorityInv, TokensUnique
  <2> QED BY <1>1, <2>1 DEF Authority!Leave
<1>4. CASE ~(coord # NoEpoch /\ token[m] = coord)
  <2>1. \A n \in Member : (coord # NoEpoch /\ token'[n] = coord)
                          <=> (coord # NoEpoch /\ token[n] = coord)
    BY <1>2, <1>4
  <2>2. CASE \E n \in Member : coord # NoEpoch /\ token[n] = coord
    <3>1. PICK n \in Member : coord # NoEpoch /\ token[n] = coord
      BY <2>2
    <3>2. \A k \in Member : token[k] = coord => k = n
      BY <3>1 DEF AuthorityInv, TokensUnique
    <3>3. token'[n] = coord /\ \A k \in Member : token'[k] = coord => k = n
      BY <2>1, <3>1, <3>2
    <3>4. CurrentHolder = n
      BY <3>1, <3>2, HolderIs DEF CurrentHolder, Authoritative
    <3>5. CurrentHolder' = n
      BY <3>1, <3>3, HolderIs DEF CurrentHolder, Authoritative
    <3> QED BY <1>1, <3>4, <3>5
  <2>3. CASE ~\E n \in Member : coord # NoEpoch /\ token[n] = coord
    BY <1>1, <2>1, <2>3 DEF CurrentHolder, Authoritative
  <2> QED BY <2>2, <2>3
<1> QED BY <1>3, <1>4

\* Every step of Leadership is a step of the authority or none.
LEMMA StepSimulates ==
  ASSUME IndInv, OpenBehindLedger, [Next]_vars
  PROVE  OpenBehindLedger' /\ [Authority!Next]_<<coord, CurrentHolder, Ledger>>
<1>1. TypeOK /\ AuthorityInv /\ TokenBacksWrites /\ Core
  BY DEF IndInv, TypeOK, ClusterType, HandleType, Core
<1>2. CoreNext
  <2>1. CASE Next
    BY <1>1, <2>1, NextIsCore
  <2>2. CASE UNCHANGED vars
    BY <2>2 DEF CoreNext, vars, clusterVars, handleVars
  <2> QED BY <2>1, <2>2
<1>3. CASE UNCHANGED <<coord, log, token>>
  BY <1>3 DEF CurrentHolder, Authoritative, Ledger, OpenBehindLedger
<1>4. ASSUME NEW r \in LogRecord, r.kind = "registration", r.status = "committed",
             log' = Append(log, r), UNCHANGED <<coord, token>>
      PROVE  OpenBehindLedger' /\ UNCHANGED <<coord, CurrentHolder, Ledger>>
  BY <1>1, <1>4, AppendStutters
<1>5. ASSUME NEW r \in LogRecord, r.status = "open",
             log' = Append(log, r), UNCHANGED <<coord, token>>
      PROVE  OpenBehindLedger' /\ UNCHANGED <<coord, CurrentHolder, Ledger>>
  BY <1>1, <1>5, AppendStutters
<1>6. ASSUME NEW m \in Member, token[m] = coord, token[m] # NoEpoch,
             log' = EndOpen(log, "committed"), UNCHANGED <<coord, token>>
      PROVE  OpenBehindLedger' /\ Authority!Next
  BY <1>1, <1>6, CommitPublishes DEF Authority!Next
<1>7. CASE log' = EndOpen(log, "aborted") /\ UNCHANGED <<coord, token>>
  <2>1. CurrentHolder' = CurrentHolder
    BY <1>7 DEF CurrentHolder, Authoritative
  <2> QED BY <1>1, <1>7, <2>1, AbortKeepsLedger
<1>8. CASE MintAtCoordinator /\ UNCHANGED token
  BY <1>1, <1>8, MintTakesOrVoids DEF Authority!Next
<1>9. ASSUME NEW m \in Member, MintAtCoordinator,
             token' = [token EXCEPT ![m] = NextToken(coord)]
      PROVE  OpenBehindLedger' /\ Authority!Next
  BY <1>1, <1>9, MintTakesOrVoids DEF Authority!Next
<1>10. ASSUME NEW m \in Member, token' = [token EXCEPT ![m] = NoEpoch],
              UNCHANGED <<coord, log>>
       PROVE  OpenBehindLedger' /\ [Authority!Next]_<<coord, CurrentHolder, Ledger>>
  <2>1. OpenBehindLedger'
    BY <1>10 DEF OpenBehindLedger
  <2> QED BY <1>1, <1>10, <2>1, CrashLeaves DEF Authority!Next
<1> QED BY <1>2, <1>3, <1>4, <1>5, <1>6, <1>7, <1>8, <1>9, <1>10 DEF CoreNext

\* The members, the handles and the partition implement RoleAuthority, for
\* any number of members, clocks, crashes and lost answers: the role's token
\* only grows, only the member that holds it publishes lease records, and it
\* publishes behind everything its predecessors did.
THEOREM Implements == Spec => ImplementsAuthority
<1>1. Init => OpenBehindLedger /\ Authority!Init
  BY DEF Init, OpenBehindLedger, Authority!Init, Authority!NoEpoch, NoEpoch,
         CurrentHolder, Authoritative, Ledger
<1>2. IndInv /\ OpenBehindLedger /\ [Next]_vars
      => OpenBehindLedger' /\ [Authority!Next]_Authority!vars
  BY StepSimulates DEF Authority!vars
<1> QED BY <1>1, <1>2, InductiveInvariant, PTL
        DEF Spec, ImplementsAuthority, Authority!Spec
=============================================================================
