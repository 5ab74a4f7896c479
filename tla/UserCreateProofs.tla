-------------------------- MODULE UserCreateProofs --------------------------
(***************************************************************************)
(* Theorems about UserCreate, for any number of vaults, slots and users    *)
(* and any durations.  Type correctness, RecordedIsReal and the refinement *)
(* of VaultUser need no assumption on time; the exclusion of two creates,  *)
(* and what a success means, are proved from Timing.                       *)
(***************************************************************************)
EXTENDS UserCreate, TLAPS

-----------------------------------------------------------------------------
(* Type correctness. *)

\* The age of a claim, or its absence, stays of its type when time passes.
LEMMA OlderType ==
    ASSUME NEW a \in Nat \cup {NoClaim}
    PROVE  Older(a) \in Nat \cup {NoClaim}
BY DurationsAssumption DEF Older

\* Every step of the handlers and of time preserves TypeOK.
LEMMA TypeOKStep == TypeOK /\ [Next]_vars => TypeOK'
<1> SUFFICES ASSUME TypeOK, [Next]_vars PROVE TypeOK'
  OBVIOUS
<1> USE ConstantsAssumption, DurationsAssumption
<1> USE DEF TypeOK, Stage, Holding, Answer, Enter, Finish
<1>1. ASSUME NEW r \in Req, Start(r) PROVE TypeOK'
  BY <1>1 DEF Start
<1>2. ASSUME NEW r \in Req, ClaimGranted(r) \/ ClaimRefused(r) \/ ClaimFails(r)
      PROVE  TypeOK'
  BY <1>2 DEF ClaimGranted, ClaimRefused, ClaimFails, Claimed
<1>3. ASSUME NEW r \in Req, LookupRefusal(r) PROVE TypeOK'
  BY <1>3 DEF LookupRefusal
<1>4. ASSUME NEW r \in Req, CallReap(r) PROVE TypeOK'
  BY <1>4 DEF CallReap
<1>5. ASSUME NEW r \in Req, NEW u \in UserId,
             ReapCreates(r, u) \/ ReapCreatesNoID(r, u)
      PROVE  TypeOK'
  BY <1>5 DEF ReapCreates, ReapCreatesNoID, CreateInReap
<1>6. ASSUME NEW r \in Req, ReapRejects(r) \/ ReapFails(r) PROVE TypeOK'
  BY <1>6 DEF ReapRejects, ReapFails, CreateInReap
<1>7. ASSUME NEW r \in Req, Release(r) \/ ReleaseFails(r) PROVE TypeOK'
  BY <1>7 DEF Release, ReleaseFails
<1>8. ASSUME NEW r \in Req, Record(r) \/ RecordLoses(r) \/ RecordFails(r)
      PROVE  TypeOK'
  <2>1. CASE Record(r)
    BY <2>1 DEF Record, SetReapUserID
  <2>2. CASE RecordLoses(r)
    BY <2>2 DEF RecordLoses
  <2>3. CASE RecordFails(r)
    <3>1. /\ reapUserID' \in [Vault -> UserId \cup {NoUser}]
          /\ claimAge' \in [Vault -> Nat \cup {NoClaim}]
      BY <2>3 DEF RecordFails, SetReapUserID
    <3> QED BY <2>3, <3>1 DEF RecordFails
  <2> QED BY <1>8, <2>1, <2>2, <2>3
<1>9. ASSUME NEW r \in Req, Crash(r) PROVE TypeOK'
  BY <1>9 DEF Crash, CreateInReap
<1>10. ASSUME Tick PROVE TypeOK'
  <2>1. claimAge' \in [Vault -> Nat \cup {NoClaim}]
    BY <1>10, OlderType DEF Tick
  <2>2. left' \in [Req -> Nat]
    BY <1>10 DEF Tick
  <2> QED BY <1>10, <2>1, <2>2 DEF Tick
<1>11. CASE UNCHANGED vars
  BY <1>11 DEF vars
<1> QED
  BY <1>1, <1>2, <1>3, <1>4, <1>5, <1>6, <1>7, <1>8, <1>9, <1>10, <1>11
     DEF Next, Step

\* The columns, the handlers' locals and REAP's side keep their types.
THEOREM TypeCorrect == Spec => []TypeOK
<1>1. Init => TypeOK
  BY ConstantsAssumption, DurationsAssumption
     DEF Init, TypeOK, Stage, Holding, Answer
<1> QED BY <1>1, TypeOKStep, PTL DEF Spec

-----------------------------------------------------------------------------
(* RecordedIsReal.  The ID a request is about to record is one REAP has    *)
(* confirmed for the request's vault, and REAP never gives an ID again.    *)

RecordingIsReal ==
    \A r \in Req :
        pc[r] = "recording" =>
            /\ created[r] \in acked
            /\ reapUsers[created[r]] = VaultOf[r]

AckedIsGivenOut == \A u \in acked : reapUsers[u] # NoVault

RealInv == TypeOK /\ RecordingIsReal /\ AckedIsGivenOut /\ RecordedIsReal

\* No step of a handler or of REAP breaks the tie between a recorded ID and
\* the user REAP created.
LEMMA RealStep == RealInv /\ [Next]_vars => RealInv'
<1> SUFFICES ASSUME RealInv, [Next]_vars PROVE RealInv'
  OBVIOUS
<1>0. TypeOK'
  BY TypeOKStep DEF RealInv
<1> USE ConstantsAssumption, <1>0
<1> USE DEF RealInv, TypeOK, RecordingIsReal, AckedIsGivenOut, RecordedIsReal,
            Enter, Finish
<1>1. ASSUME NEW r \in Req, Start(r) PROVE RealInv'
  BY <1>1 DEF Start
<1>2. ASSUME NEW r \in Req, ClaimGranted(r) \/ ClaimRefused(r) \/ ClaimFails(r)
      PROVE  RealInv'
  BY <1>2 DEF ClaimGranted, ClaimRefused, ClaimFails
<1>3. ASSUME NEW r \in Req, LookupRefusal(r) PROVE RealInv'
  BY <1>3 DEF LookupRefusal
<1>4. ASSUME NEW r \in Req, CallReap(r) PROVE RealInv'
  BY <1>4 DEF CallReap
<1>5. ASSUME NEW r \in Req, NEW u \in UserId,
             ReapCreates(r, u) \/ ReapCreatesNoID(r, u)
      PROVE  RealInv'
  <2>1. reapUsers' = [reapUsers EXCEPT ![u] = VaultOf[r]] /\ acked' = acked \cup {u}
    BY <1>5 DEF ReapCreates, ReapCreatesNoID, CreateInReap
  <2>2. u \notin acked
    BY <1>5 DEF ReapCreates, ReapCreatesNoID, CreateInReap, Fresh
  <2>3. AckedIsGivenOut'
    BY <2>1
  <2>4. RecordedIsReal'
    BY <1>5, <2>1, <2>2 DEF ReapCreates, ReapCreatesNoID
  <2>5. RecordingIsReal'
    BY <1>5, <2>1, <2>2 DEF ReapCreates, ReapCreatesNoID
  <2> QED BY <2>3, <2>4, <2>5
<1>6. ASSUME NEW r \in Req, ReapRejects(r) PROVE RealInv'
  BY <1>6 DEF ReapRejects
<1>7. ASSUME NEW r \in Req, ReapFails(r) PROVE RealInv'
  BY <1>7 DEF ReapFails, CreateInReap, Fresh
<1>8. ASSUME NEW r \in Req, Release(r) \/ ReleaseFails(r) PROVE RealInv'
  BY <1>8 DEF Release, ReleaseFails
<1>9. ASSUME NEW r \in Req, Record(r) \/ RecordLoses(r) \/ RecordFails(r)
      PROVE  RealInv'
  BY <1>9 DEF Record, RecordLoses, RecordFails, SetReapUserID
<1>10. ASSUME NEW r \in Req, Crash(r) PROVE RealInv'
  BY <1>10 DEF Crash, CreateInReap, Fresh
<1>11. ASSUME Tick PROVE RealInv'
  BY <1>11 DEF Tick
<1>12. CASE UNCHANGED vars
  BY <1>12 DEF vars
<1> QED
  BY <1>1, <1>2, <1>3, <1>4, <1>5, <1>6, <1>7, <1>8, <1>9, <1>10, <1>11, <1>12
     DEF Next, Step

\* At the start REAP has no users and nothing is recorded.
LEMMA RealInit == Init => RealInv
BY ConstantsAssumption, DurationsAssumption
   DEF Init, RealInv, TypeOK, Stage, Holding, Answer, RecordingIsReal,
       AckedIsGivenOut, RecordedIsReal

\* Every ID SetReapUserID ever records is a user REAP created, and confirmed,
\* for that vault, whatever the timing of claims, releases and crashes.
THEOREM RecordedUsersAreReal == Spec => []RecordedIsReal
<1>1. RealInv => RecordedIsReal
  BY DEF RealInv
<1> QED BY <1>1, RealInit, RealStep, PTL DEF Spec

-----------------------------------------------------------------------------
(* Refinement of VaultUser. *)

\* A step of UserCreate binds a vault as VaultUser allows, or binds none.
LEMMA BindStep == RealInv /\ [Next]_vars => [VU!Next]_reapUserID
<1> SUFFICES ASSUME RealInv, [Next]_vars PROVE [VU!Next]_reapUserID
  OBVIOUS
<1>1. ASSUME NEW r \in Req, pc[r] = "recording", SetReapUserID(VaultOf[r], created[r])
      PROVE  VU!Next
  <2>1. created[r] \in UserId /\ VaultOf[r] \in Vault
    BY <1>1, ConstantsAssumption DEF RealInv, TypeOK, RecordingIsReal
  <2> QED
    BY <1>1, <2>1 DEF VU!Next, VU!Bind, SetReapUserID, Bindable
<1>2. ASSUME NEW r \in Req, Record(r) \/ RecordFails(r)
      PROVE  VU!Next \/ UNCHANGED reapUserID
  BY <1>1, <1>2 DEF Record, RecordFails
<1>3. ASSUME NEW r \in Req, Start(r) \/ Crash(r) PROVE UNCHANGED reapUserID
  BY <1>3 DEF Start, Crash
<1>4. ASSUME NEW r \in Req, Step(r), ~Record(r), ~RecordFails(r)
      PROVE  UNCHANGED reapUserID
  BY <1>4 DEF Step, ClaimGranted, ClaimRefused, ClaimFails, LookupRefusal,
              CallReap, ReapCreates, ReapCreatesNoID, ReapRejects, ReapFails,
              Release, ReleaseFails, RecordLoses
<1>5. ASSUME Tick \/ UNCHANGED vars PROVE UNCHANGED reapUserID
  BY <1>5 DEF Tick, vars
<1> QED BY <1>2, <1>3, <1>4, <1>5 DEF Next

\* UserCreate implements VaultUser: SetReapUserID keeps the mapping write-once
\* and injective although the claim that guards it can be lost.
THEOREM Refinement == Spec => ImplementsVaultUser
<1>1. Init => VU!Init
  BY DEF Init, VU!Init
<1> QED
  BY <1>1, RealInit, RealStep, BindStep, PTL DEF Spec, ImplementsVaultUser, VU!Spec

-----------------------------------------------------------------------------
(* Exclusion.  ClaimExclusive is not inductive: that a claim is not granted *)
(* while another request is past it follows from the claim's age, which     *)
(* ClaimCovers bounds by the time the holder has used up.                   *)

ExclInv == TypeOK /\ ClaimCovers /\ ClaimExclusive

\* Under Timing a covered request's claim is neither absent nor stale, so
\* ClaimReapUserCreate refuses everybody else.
LEMMA HeldNotClaimable ==
    ASSUME Timing, TypeOK, ClaimCovers, NEW r \in Req, pc[r] \in Holding
    PROVE  /\ claimAge[VaultOf[r]] \in Nat
           /\ claimAge[VaultOf[r]] + left[r] <= Budget(pc[r])
           /\ claimAge[VaultOf[r]] + left[r] <= StaleAfter
           /\ ~Claimable(VaultOf[r])
<1>1. claimAge[VaultOf[r]] \in Nat /\ left[r] \in Nat
  BY ConstantsAssumption DEF TypeOK, ClaimCovers
<1>2. claimAge[VaultOf[r]] + left[r] <= Budget(pc[r])
  BY DEF ClaimCovers
<1>3. Budget(pc[r]) \in Nat /\ Budget(pc[r]) <= StaleAfter
  BY DurationsAssumption DEF Timing, Budget, Holding
<1>4. claimAge[VaultOf[r]] + left[r] <= StaleAfter
  BY <1>1, <1>2, <1>3, DurationsAssumption
<1>5. claimAge[VaultOf[r]] # NoClaim
  BY DEF ClaimCovers
<1>6. ~Stale(VaultOf[r])
  BY <1>1, <1>4, DurationsAssumption DEF Stale
<1> QED BY <1>1, <1>2, <1>4, <1>5, <1>6 DEF Claimable

\* No step lets a second request past the claim, or uncovers the first.
LEMMA ExclStep == Timing /\ ExclInv /\ [Next]_vars => ExclInv'
<1> SUFFICES ASSUME Timing, ExclInv, [Next]_vars PROVE ExclInv'
  OBVIOUS
<1>0. TypeOK'
  BY TypeOKStep DEF ExclInv
<1> USE ConstantsAssumption, DurationsAssumption
<1>a. \A r \in Req : pc[r] \in Holding => ~Claimable(VaultOf[r])
  BY HeldNotClaimable DEF ExclInv
<1>1. ASSUME NEW r \in Req,
             \/ Start(r) \/ ClaimRefused(r) \/ LookupRefusal(r)
             \/ ReleaseFails(r) \/ RecordLoses(r) \/ Crash(r)
             \/ \E u \in UserId : ReapCreatesNoID(r, u)
      PROVE  ExclInv'
  <2>1. /\ UNCHANGED <<reapUserID, claimAge>>
        /\ \E st \in {"idle", "claiming", "lookup"} : pc' = [pc EXCEPT ![r] = st]
        /\ left' = [left EXCEPT ![r] = 0]
    BY <1>1 DEF Start, ClaimRefused, LookupRefusal, ReapCreatesNoID,
                ReleaseFails, RecordLoses, Crash, Enter, Finish
  <2> QED
    BY <2>1, <1>0 DEF ExclInv, ClaimCovers, ClaimExclusive, TypeOK, Holding
<1>2. ASSUME NEW r \in Req, ClaimGranted(r) PROVE ExclInv'
  <2>1. \A s \in Req : VaultOf[s] = VaultOf[r] => pc[s] \notin Holding
    BY <1>2, <1>a DEF ClaimGranted
  <2>2. ClaimCovers'
    BY <1>2, <2>1 DEF ClaimGranted, Claimed, Claimable, Enter, ExclInv,
                      ClaimCovers, TypeOK, Holding, Budget
  <2>3. ClaimExclusive'
    BY <1>2, <2>1 DEF ClaimGranted, Enter, ExclInv, ClaimExclusive, TypeOK
  <2> QED BY <1>0, <2>2, <2>3 DEF ExclInv
<1>3. ASSUME NEW r \in Req, ClaimFails(r) PROVE ExclInv'
  <2>1. \A s \in Req : pc[s] \in Holding =>
            claimAge'[VaultOf[s]] = claimAge[VaultOf[s]]
    BY <1>3, <1>a DEF ClaimFails, Claimed, ExclInv, TypeOK
  <2>2. /\ pc' = [pc EXCEPT ![r] = "idle"]
        /\ left' = [left EXCEPT ![r] = 0]
        /\ UNCHANGED reapUserID
    BY <1>3 DEF ClaimFails, Enter, Finish
  <2> QED
    BY <2>1, <2>2, <1>0 DEF ExclInv, ClaimCovers, ClaimExclusive, TypeOK, Holding
<1>4. ASSUME NEW r \in Req, NEW stage \in Holding, NEW time \in Nat,
             pc[r] \in Holding,
             Enter(r, stage, time),
             UNCHANGED <<reapUserID, claimAge>>,
             Budget(pc[r]) + time <= Budget(stage)
      PROVE  ExclInv'
  <2>1. claimAge[VaultOf[r]] + time <= Budget(stage)
    <3>1. /\ claimAge[VaultOf[r]] \in Nat
          /\ claimAge[VaultOf[r]] + left[r] <= Budget(pc[r])
      BY <1>4, HeldNotClaimable DEF ExclInv
    <3>2. left[r] \in Nat /\ Budget(pc[r]) \in Nat /\ Budget(stage) \in Nat
      BY <1>4 DEF ExclInv, TypeOK, Budget, Holding
    <3> QED BY <3>1, <3>2, <1>4
  <2>2. ClaimCovers'
    BY <1>4, <2>1 DEF Enter, ExclInv, ClaimCovers, TypeOK
  <2>3. ClaimExclusive'
    BY <1>4 DEF Enter, ExclInv, ClaimExclusive, TypeOK
  <2> QED BY <1>0, <2>2, <2>3 DEF ExclInv
<1>5. ASSUME NEW r \in Req, CallReap(r) PROVE ExclInv'
  BY <1>4, <1>5 DEF CallReap, Holding, Budget
<1>6. ASSUME NEW r \in Req, NEW u \in UserId, ReapCreates(r, u) PROVE ExclInv'
  BY <1>4, <1>6 DEF ReapCreates, Holding, Budget
<1>7. ASSUME NEW r \in Req, ReapRejects(r) \/ ReapFails(r) PROVE ExclInv'
  BY <1>4, <1>7 DEF ReapRejects, ReapFails, Holding, Budget
<1>8. ASSUME NEW r \in Req, Release(r) \/ Record(r) \/ RecordFails(r)
      PROVE  ExclInv'
  <2>1. \A s \in Req \ {r} : VaultOf[s] = VaultOf[r] => pc[s] \notin Holding
    BY <1>8 DEF Release, Record, RecordFails, Holding, ExclInv, ClaimExclusive
  <2>2. \A v \in Vault \ {VaultOf[r]} :
            claimAge'[v] = claimAge[v] /\ reapUserID'[v] = reapUserID[v]
    BY <1>8 DEF Release, Record, RecordFails, SetReapUserID, ExclInv, TypeOK
  <2>3. pc' = [pc EXCEPT ![r] = "idle"] /\ left' = [left EXCEPT ![r] = 0]
    BY <1>8 DEF Release, Record, RecordFails, Enter, Finish
  <2>4. ClaimCovers'
    BY <2>1, <2>2, <2>3 DEF ExclInv, ClaimCovers, TypeOK, Holding
  <2>5. ClaimExclusive'
    BY <2>3 DEF ExclInv, ClaimExclusive, TypeOK, Holding
  <2> QED BY <1>0, <2>4, <2>5 DEF ExclInv
<1>9. ASSUME Tick PROVE ExclInv'
  <2>1. ASSUME NEW r \in Req, pc[r] \in Holding
        PROVE  /\ claimAge'[VaultOf[r]] = claimAge[VaultOf[r]] + 1
               /\ claimAge[VaultOf[r]] \in Nat
               /\ left'[r] = left[r] - 1
               /\ left[r] \in Nat /\ left[r] > 0
               /\ claimAge[VaultOf[r]] + left[r] <= Budget(pc[r])
    <3>1. /\ claimAge[VaultOf[r]] \in Nat
          /\ claimAge[VaultOf[r]] + left[r] <= Budget(pc[r])
          /\ claimAge[VaultOf[r]] + left[r] <= StaleAfter
      BY <2>1, HeldNotClaimable DEF ExclInv
    <3>2. left[r] \in Nat /\ left[r] > 0 /\ left'[r] = left[r] - 1
      BY <1>9, <2>1 DEF Tick, ExclInv, TypeOK
    <3>3. claimAge'[VaultOf[r]] = Older(claimAge[VaultOf[r]])
      BY <1>9 DEF Tick
    <3>4. Older(claimAge[VaultOf[r]]) = claimAge[VaultOf[r]] + 1
      BY <3>1, <3>2 DEF Older
    <3> QED BY <3>1, <3>2, <3>3, <3>4
  <2>2. UNCHANGED <<pc, reapUserID>>
    BY <1>9 DEF Tick
  <2>3. ClaimCovers'
    <3> SUFFICES ASSUME NEW r \in Req, pc[r] \in Holding
                 PROVE  /\ reapUserID[VaultOf[r]] = NoUser
                        /\ claimAge'[VaultOf[r]] # NoClaim
                        /\ claimAge'[VaultOf[r]] + left'[r] <= Budget(pc[r])
      BY <2>2 DEF ClaimCovers, Budget
    <3>1. reapUserID[VaultOf[r]] = NoUser
      BY DEF ExclInv, ClaimCovers
    <3>2. Budget(pc[r]) \in Nat
      BY DEF Budget, Holding
    <3> QED BY <2>1, <3>1, <3>2
  <2>4. ClaimExclusive'
    BY <2>2 DEF ExclInv, ClaimExclusive
  <2> QED BY <1>0, <2>3, <2>4 DEF ExclInv
<1>10. CASE UNCHANGED vars
  BY <1>0, <1>10 DEF vars, ExclInv, ClaimCovers, ClaimExclusive, Budget
<1> QED
  BY <1>1, <1>2, <1>3, <1>5, <1>6, <1>7, <1>8, <1>9, <1>10 DEF Next, Step

\* Before the first request nothing is claimed.
LEMMA ExclInit == Init => ExclInv
BY ConstantsAssumption, DurationsAssumption
   DEF Init, ExclInv, TypeOK, Stage, Holding, Answer, ClaimCovers, ClaimExclusive

\* If the durations leave the claim young for as long as a create can take,
\* no two creates of a vault are ever past the claim together.
THEOREM Exclusion == ASSUME Timing PROVE Spec => []ClaimExclusive
<1>1. ExclInv /\ [Next]_vars => ExclInv'
  BY ExclStep
<1>2. ExclInv => ClaimExclusive
  BY DEF ExclInv
<1> QED BY <1>1, <1>2, ExclInit, PTL DEF Spec

\* The claim covers every request past it, to the end of its stage.
THEOREM Coverage == ASSUME Timing PROVE Spec => []ClaimCovers
<1>1. ExclInv /\ [Next]_vars => ExclInv'
  BY ExclStep
<1>2. ExclInv => ClaimCovers
  BY DEF ExclInv
<1> QED BY <1>1, <1>2, ExclInit, PTL DEF Spec

-----------------------------------------------------------------------------
(* What a 2xx answer means.  The race that CreateUser logs would need a     *)
(* user recorded under a request past the claim, which ClaimCovers excludes.*)

UnansweredInFlight == \A r \in Req : pc[r] # "idle" => answer[r] # "created"

SuccInv == ExclInv /\ RealInv /\ UnansweredInFlight /\ SuccessIsRecorded

\* No step answers 2xx for an unrecorded user or unrecords an answered one.
LEMMA SuccStep == Timing /\ SuccInv /\ [Next]_vars => SuccInv'
<1> SUFFICES ASSUME Timing, SuccInv, [Next]_vars PROVE SuccInv'
  OBVIOUS
<1>0. ExclInv' /\ RealInv'
  BY ExclStep, RealStep DEF SuccInv
<1> USE ConstantsAssumption, <1>0
<1> USE DEF SuccInv, UnansweredInFlight, SuccessIsRecorded, ExclInv, TypeOK
<1>1. ASSUME NEW r \in Req, Start(r) PROVE SuccInv'
  BY <1>1 DEF Start, Enter
<1>2. ASSUME NEW r \in Req, ClaimGranted(r) \/ ClaimRefused(r) \/ ClaimFails(r)
      PROVE  SuccInv'
  BY <1>2 DEF ClaimGranted, ClaimRefused, ClaimFails, Enter, Finish
<1>3. ASSUME NEW r \in Req, LookupRefusal(r) PROVE SuccInv'
  BY <1>3 DEF LookupRefusal, Enter, Finish
<1>4. ASSUME NEW r \in Req, CallReap(r) PROVE SuccInv'
  BY <1>4 DEF CallReap, Enter
<1>5. ASSUME NEW r \in Req, NEW u \in UserId,
             ReapCreates(r, u) \/ ReapCreatesNoID(r, u)
      PROVE  SuccInv'
  BY <1>5 DEF ReapCreates, ReapCreatesNoID, Enter, Finish
<1>6. ASSUME NEW r \in Req, ReapRejects(r) \/ ReapFails(r) PROVE SuccInv'
  BY <1>6 DEF ReapRejects, ReapFails, Enter
<1>7. ASSUME NEW r \in Req, Release(r) \/ ReleaseFails(r) PROVE SuccInv'
  BY <1>7 DEF Release, ReleaseFails, Enter, Finish
<1>8. ASSUME NEW r \in Req, Record(r) \/ RecordFails(r) PROVE SuccInv'
  <2>1. created[r] \in UserId
    BY <1>8 DEF Record, RecordFails, RealInv, RecordingIsReal
  <2>2. \A s \in Req : answer[s] = "created" => reapUserID[VaultOf[s]] # NoUser
    OBVIOUS
  <2>3. \A s \in Req : answer[s] = "created" =>
            reapUserID'[VaultOf[s]] = reapUserID[VaultOf[s]]
    BY <1>8, <2>2 DEF Record, RecordFails, SetReapUserID, Bindable
  <2>4. pc' = [pc EXCEPT ![r] = "idle"] /\ UNCHANGED created
    BY <1>8 DEF Record, RecordFails, Enter, Finish
  <2>5. CASE Record(r)
    <3>1. reapUserID'[VaultOf[r]] = created[r]
      BY <2>5 DEF Record, SetReapUserID
    <3>2. answer' = [answer EXCEPT ![r] = "created"]
      BY <2>5 DEF Record, Finish
    <3> QED BY <2>1, <2>3, <2>4, <3>1, <3>2
  <2>6. CASE RecordFails(r)
    <3>1. answer' = [answer EXCEPT ![r] = "error"]
      BY <2>6 DEF RecordFails, Finish
    <3> QED BY <2>3, <2>4, <3>1
  <2> QED BY <1>8, <2>5, <2>6
<1>9. ASSUME NEW r \in Req, RecordLoses(r) PROVE FALSE
  BY <1>9 DEF RecordLoses, ClaimCovers, Holding
<1>10. ASSUME NEW r \in Req, Crash(r) PROVE SuccInv'
  BY <1>10 DEF Crash, Enter, Finish
<1>11. CASE Tick
  BY <1>11 DEF Tick
<1>12. CASE UNCHANGED vars
  BY <1>12 DEF vars
<1> QED
  BY <1>1, <1>2, <1>3, <1>4, <1>5, <1>6, <1>7, <1>8, <1>9, <1>10, <1>11, <1>12
     DEF Next, Step

\* Under Timing a client that gets REAP's 2xx back has exactly that user, for
\* good: the branch of CreateUser that passes back an orphan is never taken.
THEOREM SuccessMeansRecorded == ASSUME Timing PROVE Spec => []SuccessIsRecorded
<1>1. Init => SuccInv
  BY RealInit, ExclInit DEF Init, SuccInv, UnansweredInFlight, SuccessIsRecorded
<1>2. SuccInv /\ [Next]_vars => SuccInv'
  BY SuccStep
<1>3. SuccInv => SuccessIsRecorded
  BY DEF SuccInv
<1> QED BY <1>1, <1>2, <1>3, PTL DEF Spec
=============================================================================
