-------------------------- MODULE JniBridge_proofs --------------------------
(***************************************************************************)
(* For any number of threads, Java threads and references: the invariants  *)
(* of JniBridge, which are inductive when taken together.                  *)
(***************************************************************************)
EXTENDS JniBridge, TLAPS

Inv == TypeOK /\ NoLeak /\ DeletedOnce /\ AttachBalance /\ NothingPending

USE DEF Points, Using, Owning, Inside, vars

-----------------------------------------------------------------------------
\* The initial state, where no thread is inside the bridge.
LEMMA InitInv == Init => Inv
<1> SUFFICES ASSUME Init PROVE Inv
  OBVIOUS
<1>1. TypeOK
  <2>1. /\ attached \in [Threads -> BOOLEAN]
        /\ needDetach \in [Threads -> BOOLEAN]
        /\ pending \in [Threads -> BOOLEAN]
    BY DEF Init
  <2>2. /\ javaVm \in BOOLEAN /\ gCls \in Refs \cup {NoRef} /\ live \subseteq Refs
    BY DEF Init
  <2>3. pc \in [Threads -> Points] /\ ref \in [Threads -> Refs \cup {NoRef}]
    BY DEF Init
  <2>4. calls \in 0..MaxCalls
    BY JniAssumption DEF Init
  <2> QED BY <2>1, <2>2, <2>3, <2>4 DEF TypeOK
<1>2. NoLeak /\ DeletedOnce
  BY DEF Init, NoLeak, DeletedOnce, Owned
<1>3. AttachBalance
  BY DEF Init, AttachBalance
<1>4. NothingPending
  BY DEF Init, NothingPending
<1> QED BY <1>1, <1>2, <1>3, <1>4 DEF Inv

\* Every step keeps the types.
LEMMA TypeStep ==
  ASSUME TypeOK, [Next]_vars
  PROVE  TypeOK'
<1> USE JniAssumption DEF TypeOK
<1>1. ASSUME NEW t \in Threads, CallAnnounce(t) PROVE TypeOK'
  BY <1>1 DEF CallAnnounce, Enter, Goto
<1>2. ASSUME NEW t \in Threads, Snapshot(t) PROVE TypeOK'
  BY <1>2 DEF Snapshot, Goto
<1>3. ASSUME NEW t \in Threads, Attach(t) PROVE TypeOK'
  BY <1>3 DEF Attach, Goto, DetachAfter
<1>4. ASSUME NEW t \in Threads, LookupMethod(t) PROVE TypeOK'
  BY <1>4 DEF LookupMethod, Goto
<1>5. ASSUME NEW t \in Threads, CallJava(t) PROVE TypeOK'
  BY <1>5 DEF CallJava, Goto
<1>6. ASSUME NEW t \in Threads, ClearException(t) PROVE TypeOK'
  BY <1>6 DEF ClearException, Goto, AfterCheck
<1>7. ASSUME NEW t \in Threads, Return(t) PROVE TypeOK'
  BY <1>7 DEF Return, Goto
<1>8. ASSUME NEW t \in Threads, CallInit(t) PROVE TypeOK'
  BY <1>8 DEF CallInit, Enter, Goto
<1>9. ASSUME NEW t \in Threads, CreateRef(t) PROVE TypeOK'
  BY <1>9 DEF CreateRef, NewGlobal, Goto
<1>10. ASSUME NEW t \in Threads, SwapRef(t) PROVE TypeOK'
  BY <1>10 DEF SwapRef, Goto, Replaced
<1>11. ASSUME NEW t \in Threads, CallRelease(t) PROVE TypeOK'
  BY <1>11 DEF CallRelease, Enter, Goto
<1>12. ASSUME NEW t \in Threads, DropRef(t) PROVE TypeOK'
  BY <1>12 DEF DropRef, Goto, ClearedTo
<1>13. ASSUME NEW t \in Threads, DeleteRef(t) PROVE TypeOK'
  BY <1>13 DEF DeleteRef, Goto
<1>14. CASE UNCHANGED vars
  BY <1>14
<1> QED BY <1>1, <1>2, <1>3, <1>4, <1>5, <1>6, <1>7, <1>8, <1>9, <1>10, <1>11, <1>12, <1>13, <1>14 DEF Next

\* A step that gives up a reference has it deleted or hands it on.
LEMMA LeakStep ==
  ASSUME TypeOK, NoLeak, DeletedOnce, [Next]_vars
  PROVE  NoLeak'
<1> USE JniAssumption DEF TypeOK, NoLeak, DeletedOnce, Owned
<1>1. ASSUME NEW t \in Threads, CallAnnounce(t) PROVE NoLeak'
  BY <1>1 DEF CallAnnounce, Enter, Goto
<1>2. ASSUME NEW t \in Threads, Snapshot(t) PROVE NoLeak'
  BY <1>2 DEF Snapshot, Goto
<1>3. ASSUME NEW t \in Threads, Attach(t) PROVE NoLeak'
  BY <1>3 DEF Attach, Goto, DetachAfter
<1>4. ASSUME NEW t \in Threads, LookupMethod(t) PROVE NoLeak'
  BY <1>4 DEF LookupMethod, Goto
<1>5. ASSUME NEW t \in Threads, CallJava(t) PROVE NoLeak'
  BY <1>5 DEF CallJava, Goto
<1>6. ASSUME NEW t \in Threads, ClearException(t) PROVE NoLeak'
  BY <1>6 DEF ClearException, Goto, AfterCheck
<1>7. ASSUME NEW t \in Threads, Return(t) PROVE NoLeak'
  BY <1>7 DEF Return, Goto
<1>8. ASSUME NEW t \in Threads, CallInit(t) PROVE NoLeak'
  BY <1>8 DEF CallInit, Enter, Goto
<1>9. ASSUME NEW t \in Threads, CreateRef(t) PROVE NoLeak'
  BY <1>9 DEF CreateRef, NewGlobal, Goto
<1>10. ASSUME NEW t \in Threads, SwapRef(t) PROVE NoLeak'
  BY <1>10 DEF SwapRef, Goto, Replaced
<1>11. ASSUME NEW t \in Threads, CallRelease(t) PROVE NoLeak'
  BY <1>11 DEF CallRelease, Enter, Goto
<1>12. ASSUME NEW t \in Threads, DropRef(t) PROVE NoLeak'
  BY <1>12 DEF DropRef, Goto, ClearedTo
<1>13. ASSUME NEW t \in Threads, DeleteRef(t) PROVE NoLeak'
  BY <1>13 DEF DeleteRef, Goto
<1>14. CASE UNCHANGED vars
  BY <1>14
<1> QED BY <1>1, <1>2, <1>3, <1>4, <1>5, <1>6, <1>7, <1>8, <1>9, <1>10, <1>11, <1>12, <1>13, <1>14 DEF Next

\* A reference changes hands, but never has two owners.
LEMMA DeleteStep ==
  ASSUME TypeOK, NoLeak, DeletedOnce, [Next]_vars
  PROVE  DeletedOnce'
<1> USE JniAssumption DEF TypeOK, NoLeak, DeletedOnce, Owned
<1>1. ASSUME NEW t \in Threads, CallAnnounce(t) PROVE DeletedOnce'
  BY <1>1 DEF CallAnnounce, Enter, Goto
<1>2. ASSUME NEW t \in Threads, Snapshot(t) PROVE DeletedOnce'
  BY <1>2 DEF Snapshot, Goto
<1>3. ASSUME NEW t \in Threads, Attach(t) PROVE DeletedOnce'
  BY <1>3 DEF Attach, Goto, DetachAfter
<1>4. ASSUME NEW t \in Threads, LookupMethod(t) PROVE DeletedOnce'
  BY <1>4 DEF LookupMethod, Goto
<1>5. ASSUME NEW t \in Threads, CallJava(t) PROVE DeletedOnce'
  BY <1>5 DEF CallJava, Goto
<1>6. ASSUME NEW t \in Threads, ClearException(t) PROVE DeletedOnce'
  BY <1>6 DEF ClearException, Goto, AfterCheck
<1>7. ASSUME NEW t \in Threads, Return(t) PROVE DeletedOnce'
  BY <1>7 DEF Return, Goto
<1>8. ASSUME NEW t \in Threads, CallInit(t) PROVE DeletedOnce'
  BY <1>8 DEF CallInit, Enter, Goto
<1>9. ASSUME NEW t \in Threads, CreateRef(t) PROVE DeletedOnce'
  BY <1>9 DEF CreateRef, NewGlobal, Goto
<1>10. ASSUME NEW t \in Threads, SwapRef(t) PROVE DeletedOnce'
  BY <1>10 DEF SwapRef, Goto, Replaced
<1>11. ASSUME NEW t \in Threads, CallRelease(t) PROVE DeletedOnce'
  BY <1>11 DEF CallRelease, Enter, Goto
<1>12. ASSUME NEW t \in Threads, DropRef(t) PROVE DeletedOnce'
  BY <1>12 DEF DropRef, Goto, ClearedTo
<1>13. ASSUME NEW t \in Threads, DeleteRef(t) PROVE DeletedOnce'
  BY <1>13 DEF DeleteRef, Goto
<1>14. CASE UNCHANGED vars
  BY <1>14
<1> QED BY <1>1, <1>2, <1>3, <1>4, <1>5, <1>6, <1>7, <1>8, <1>9, <1>10, <1>11, <1>12, <1>13, <1>14 DEF Next

\* What a thread attaches it detaches.
LEMMA AttachStep ==
  ASSUME TypeOK, AttachBalance, [Next]_vars
  PROVE  AttachBalance'
<1> USE JniAssumption DEF TypeOK, AttachBalance
<1>1. ASSUME NEW t \in Threads, CallAnnounce(t) PROVE AttachBalance'
  BY <1>1 DEF CallAnnounce, Enter, Goto
<1>2. ASSUME NEW t \in Threads, Snapshot(t) PROVE AttachBalance'
  BY <1>2 DEF Snapshot, Goto
<1>3. ASSUME NEW t \in Threads, Attach(t) PROVE AttachBalance'
  BY <1>3 DEF Attach, Goto, DetachAfter
<1>4. ASSUME NEW t \in Threads, LookupMethod(t) PROVE AttachBalance'
  BY <1>4 DEF LookupMethod, Goto
<1>5. ASSUME NEW t \in Threads, CallJava(t) PROVE AttachBalance'
  BY <1>5 DEF CallJava, Goto
<1>6. ASSUME NEW t \in Threads, ClearException(t) PROVE AttachBalance'
  BY <1>6 DEF ClearException, Goto, AfterCheck
<1>7. ASSUME NEW t \in Threads, Return(t) PROVE AttachBalance'
  BY <1>7 DEF Return, Goto
<1>8. ASSUME NEW t \in Threads, CallInit(t) PROVE AttachBalance'
  BY <1>8 DEF CallInit, Enter, Goto
<1>9. ASSUME NEW t \in Threads, CreateRef(t) PROVE AttachBalance'
  BY <1>9 DEF CreateRef, NewGlobal, Goto
<1>10. ASSUME NEW t \in Threads, SwapRef(t) PROVE AttachBalance'
  BY <1>10 DEF SwapRef, Goto, Replaced
<1>11. ASSUME NEW t \in Threads, CallRelease(t) PROVE AttachBalance'
  BY <1>11 DEF CallRelease, Enter, Goto
<1>12. ASSUME NEW t \in Threads, DropRef(t) PROVE AttachBalance'
  BY <1>12 DEF DropRef, Goto, ClearedTo
<1>13. ASSUME NEW t \in Threads, DeleteRef(t) PROVE AttachBalance'
  BY <1>13 DEF DeleteRef, Goto
<1>14. CASE UNCHANGED vars
  BY <1>14
<1> QED BY <1>1, <1>2, <1>3, <1>4, <1>5, <1>6, <1>7, <1>8, <1>9, <1>10, <1>11, <1>12, <1>13, <1>14 DEF Next

\* An exception lives from the call that raises it to the check after it.
LEMMA PendingStep ==
  ASSUME TypeOK, NothingPending, [Next]_vars
  PROVE  NothingPending'
<1> USE JniAssumption DEF TypeOK, NothingPending
<1>1. ASSUME NEW t \in Threads, CallAnnounce(t) PROVE NothingPending'
  BY <1>1 DEF CallAnnounce, Enter, Goto
<1>2. ASSUME NEW t \in Threads, Snapshot(t) PROVE NothingPending'
  BY <1>2 DEF Snapshot, Goto
<1>3. ASSUME NEW t \in Threads, Attach(t) PROVE NothingPending'
  BY <1>3 DEF Attach, Goto, DetachAfter
<1>4. ASSUME NEW t \in Threads, LookupMethod(t) PROVE NothingPending'
  BY <1>4 DEF LookupMethod, Goto
<1>5. ASSUME NEW t \in Threads, CallJava(t) PROVE NothingPending'
  BY <1>5 DEF CallJava, Goto
<1>6. ASSUME NEW t \in Threads, ClearException(t) PROVE NothingPending'
  BY <1>6 DEF ClearException, Goto, AfterCheck
<1>7. ASSUME NEW t \in Threads, Return(t) PROVE NothingPending'
  BY <1>7 DEF Return, Goto
<1>8. ASSUME NEW t \in Threads, CallInit(t) PROVE NothingPending'
  BY <1>8 DEF CallInit, Enter, Goto
<1>9. ASSUME NEW t \in Threads, CreateRef(t) PROVE NothingPending'
  BY <1>9 DEF CreateRef, NewGlobal, Goto
<1>10. ASSUME NEW t \in Threads, SwapRef(t) PROVE NothingPending'
  BY <1>10 DEF SwapRef, Goto, Replaced
<1>11. ASSUME NEW t \in Threads, CallRelease(t) PROVE NothingPending'
  BY <1>11 DEF CallRelease, Enter, Goto
<1>12. ASSUME NEW t \in Threads, DropRef(t) PROVE NothingPending'
  BY <1>12 DEF DropRef, Goto, ClearedTo
<1>13. ASSUME NEW t \in Threads, DeleteRef(t) PROVE NothingPending'
  BY <1>13 DEF DeleteRef, Goto
<1>14. CASE UNCHANGED vars
  BY <1>14
<1> QED BY <1>1, <1>2, <1>3, <1>4, <1>5, <1>6, <1>7, <1>8, <1>9, <1>10, <1>11, <1>12, <1>13, <1>14 DEF Next

-----------------------------------------------------------------------------
\* All of them hold in every reachable state: neither a leak nor a double
\* delete of the class reference, for any number of threads of either kind.
THEOREM Invariance == Spec => []Inv
<1>1. Inv /\ [Next]_vars => Inv'
  BY TypeStep, LeakStep, DeleteStep, AttachStep, PendingStep DEF Inv
<1> QED BY InitInv, <1>1, PTL DEF Spec

\* Type correctness of the bridge.
THEOREM TypeCorrect == Spec => []TypeOK
<1>1. Inv => TypeOK
  BY DEF Inv
<1> QED BY Invariance, <1>1, PTL

\* Every reference initNative() created is installed, deleted or still in the
\* hands of a call.
THEOREM NoReferenceLeaks == Spec => []NoLeak
<1>1. Inv => NoLeak
  BY DEF Inv
<1> QED BY Invariance, <1>1, PTL

\* No two overlapping initNative() and releaseNative() delete the same reference.
THEOREM NoDoubleDelete == Spec => []DeletedOnce
<1>1. Inv => DeletedOnce
  BY DEF Inv
<1> QED BY Invariance, <1>1, PTL

\* An exception is pending only until the check behind the call that may throw.
THEOREM ExceptionsCleared == Spec => []NothingPending
<1>1. Inv => NothingPending
  BY DEF Inv
<1> QED BY Invariance, <1>1, PTL

\* Announcing leaves every thread attached or detached as it came.
THEOREM ThreadsBalanced == Spec => []AttachBalance
<1>1. Inv => AttachBalance
  BY DEF Inv
<1> QED BY Invariance, <1>1, PTL

=============================================================================
