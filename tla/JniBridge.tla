----------------------------- MODULE JniBridge -----------------------------
(***************************************************************************)
(* The bridge between the decoder and the Java class NativeBridge          *)
(* (src/rtlsdr433.cpp): one global class reference, swapped by the Java    *)
(* calls initNative() and releaseNative(), and the two announcements       *)
(* (announce_output_line, announce_device_stat) any thread may make.       *)
(*                                                                         *)
(* A thread runs one call at a time; pc[t] is where it stands in it. The   *)
(* sections under g_jni_mutex hold one or two assignments and never block, *)
(* so each is one step. JNI itself is external: NewGlobalRef and           *)
(* AttachCurrentThread may fail, a callback may throw.                     *)
(***************************************************************************)
EXTENDS Naturals, FiniteSets

CONSTANTS Threads,      \* every thread that enters the bridge
          JavaThreads,  \* those the JVM created: always attached
          Refs,         \* global references NewGlobalRef can hand out
          NoRef,        \* nullptr
          MaxCalls      \* bound: calls made in a behaviour

ASSUME JniAssumption ==
    /\ JavaThreads \subseteq Threads
    /\ NoRef \notin Refs
    /\ MaxCalls \in Nat

VARIABLES
    javaVm,     \* g_javaVm has been set
    gCls,       \* g_cls
    live,       \* the global references created and not yet deleted
    pc,         \* where each thread stands
    ref,        \* the local jclass of the call: cls, newGlobal or oldCls
    attached,   \* the threads attached to the JVM
    needDetach, \* the local flag of the call
    pending,    \* a Java exception is pending in the thread
    calls       \* calls made so far

vars == <<javaVm, gCls, live, pc, ref, attached, needDetach, pending, calls>>

Points == {"idle", "snapshot", "attach", "lookup", "call", "check", "detach",
           "create", "swap", "drop", "delete"}

\* The thread uses its snapshot; it owns a reference; it is inside JNI.
Using == {"lookup", "call"}
Owning == {"swap", "delete"}
Inside == {"lookup", "call", "check", "detach"}

TypeOK ==
    /\ javaVm \in BOOLEAN
    /\ gCls \in Refs \cup {NoRef}
    /\ live \subseteq Refs
    /\ pc \in [Threads -> Points]
    /\ ref \in [Threads -> Refs \cup {NoRef}]
    /\ attached \in [Threads -> BOOLEAN]
    /\ needDetach \in [Threads -> BOOLEAN]
    /\ pending \in [Threads -> BOOLEAN]
    /\ calls \in 0..MaxCalls

Init ==
    /\ javaVm = FALSE
    /\ gCls = NoRef
    /\ live = {}
    /\ pc = [t \in Threads |-> "idle"]
    /\ ref = [t \in Threads |-> NoRef]
    /\ attached = [t \in Threads |-> t \in JavaThreads]
    /\ needDetach = [t \in Threads |-> FALSE]
    /\ pending = [t \in Threads |-> FALSE]
    /\ calls = 0

Goto(t, p) == pc' = [pc EXCEPT ![t] = p]

Enter(t, p) ==
    /\ pc[t] = "idle"
    /\ calls < MaxCalls
    /\ calls' = calls + 1
    /\ Goto(t, p)

-----------------------------------------------------------------------------
(* Announcements: announce_output_line() and announce_device_stat().        *)

CallAnnounce(t) ==
    /\ Enter(t, "snapshot")
    /\ UNCHANGED <<javaVm, gCls, live, ref, attached, needDetach, pending>>

\* The class is read under the mutex; without one there is no listener.
Snapshot(t) ==
    /\ pc[t] = "snapshot"
    /\ ref' = [ref EXCEPT ![t] = gCls]
    /\ Goto(t, IF gCls = NoRef THEN "idle" ELSE "attach")
    /\ UNCHANGED <<javaVm, gCls, live, attached, needDetach, pending, calls>>

DetachAlways(wasAttached) == TRUE  \* mutant

\* Only a thread that came detached is detached again.
DetachAfter(wasAttached) == ~wasAttached

\* attachThread(): a failed attach, or a JVM not known yet, ends the call.
Attach(t) ==
    /\ pc[t] = "attach"
    /\ \/ /\ javaVm
          /\ attached' = [attached EXCEPT ![t] = TRUE]
          /\ needDetach' = [needDetach EXCEPT ![t] = DetachAfter(attached[t])]
          /\ Goto(t, "lookup")
       \/ /\ ~javaVm \/ ~attached[t]
          /\ needDetach' = [needDetach EXCEPT ![t] = FALSE]
          /\ Goto(t, "idle")
          /\ UNCHANGED attached
    /\ UNCHANGED <<javaVm, gCls, live, ref, pending, calls>>

\* GetStaticMethodID leaves an exception when the method does not exist.
LookupMethod(t) ==
    /\ pc[t] = "lookup"
    /\ \/ Goto(t, "call") /\ UNCHANGED pending
       \/ Goto(t, "check") /\ pending' = [pending EXCEPT ![t] = TRUE]
    /\ UNCHANGED <<javaVm, gCls, live, ref, attached, needDetach, calls>>

\* The static method runs and may throw; NewStringUTF, which comes before it
\* for a line, may fail and leave an exception too.
CallJava(t) ==
    /\ pc[t] = "call"
    /\ \E thrown \in BOOLEAN : pending' = [pending EXCEPT ![t] = thrown]
    /\ Goto(t, "check")
    /\ UNCHANGED <<javaVm, gCls, live, ref, attached, needDetach, calls>>

KeepException(p) == p  \* mutant
AfterCheck(p) == FALSE

\* ExceptionCheck, ExceptionDescribe, ExceptionClear: on every path.
ClearException(t) ==
    /\ pc[t] = "check"
    /\ pending' = [pending EXCEPT ![t] = AfterCheck(pending[t])]
    /\ Goto(t, "detach")
    /\ UNCHANGED <<javaVm, gCls, live, ref, attached, needDetach, calls>>

Return(t) ==
    /\ pc[t] = "detach"
    /\ attached' = [attached EXCEPT ![t] = attached[t] /\ ~needDetach[t]]
    /\ needDetach' = [needDetach EXCEPT ![t] = FALSE]
    /\ Goto(t, "idle")
    /\ UNCHANGED <<javaVm, gCls, live, ref, pending, calls>>

-----------------------------------------------------------------------------
(* The Java calls that replace the reference.                               *)


\* initNative(): the JVM is remembered first, before anything can fail.
CallInit(t) ==
    /\ t \in JavaThreads
    /\ Enter(t, "create")
    /\ javaVm' = TRUE
    /\ UNCHANGED <<gCls, live, ref, attached, needDetach, pending>>

NullUnchecked == (Refs \ live) \cup {NoRef}  \* mutant
NewGlobal == Refs \ live

\* FindClass and NewGlobalRef: either may fail, and the old class stays.
CreateRef(t) ==
    /\ pc[t] = "create"
    /\ \/ \E r \in NewGlobal :
            /\ live' = live \cup {r}
            /\ ref' = [ref EXCEPT ![t] = r]
            /\ Goto(t, "swap")
       \/ Goto(t, "idle") /\ UNCHANGED <<live, ref>>
    /\ UNCHANGED <<javaVm, gCls, attached, needDetach, pending, calls>>

ForgetOld == NoRef  \* mutant
Replaced == gCls

\* What the swap takes out is what is deleted after it.
SwapRef(t) ==
    /\ pc[t] = "swap"
    /\ gCls' = ref[t]
    /\ ref' = [ref EXCEPT ![t] = Replaced]
    /\ Goto(t, IF Replaced = NoRef THEN "idle" ELSE "delete")
    /\ UNCHANGED <<javaVm, live, attached, needDetach, pending, calls>>

CallRelease(t) ==
    /\ t \in JavaThreads
    /\ Enter(t, "drop")
    /\ UNCHANGED <<javaVm, gCls, live, ref, attached, needDetach, pending>>

StillSet == gCls  \* mutant
ClearedTo == NoRef

\* releaseNative() takes the reference out under the mutex.
DropRef(t) ==
    /\ pc[t] = "drop"
    /\ gCls' = ClearedTo
    /\ ref' = [ref EXCEPT ![t] = gCls]
    /\ Goto(t, IF gCls = NoRef THEN "idle" ELSE "delete")
    /\ UNCHANGED <<javaVm, live, attached, needDetach, pending, calls>>

\* DeleteGlobalRef, outside the mutex.
DeleteRef(t) ==
    /\ pc[t] = "delete"
    /\ live' = live \ {ref[t]}
    /\ ref' = [ref EXCEPT ![t] = NoRef]
    /\ Goto(t, "idle")
    /\ UNCHANGED <<javaVm, gCls, attached, needDetach, pending, calls>>

Next == \E t \in Threads :
    \/ CallAnnounce(t) \/ Snapshot(t) \/ Attach(t) \/ LookupMethod(t)
    \/ CallJava(t) \/ ClearException(t) \/ Return(t)
    \/ CallInit(t) \/ CreateRef(t) \/ SwapRef(t)
    \/ CallRelease(t) \/ DropRef(t) \/ DeleteRef(t)

Spec == Init /\ [][Next]_vars

-----------------------------------------------------------------------------
(* Properties.                                                              *)

Owned == {ref[t] : t \in {u \in Threads : pc[u] \in Owning}}

\* No reference is lost: each one created and not yet deleted is g_cls or in
\* the hands of the call that will install or delete it, however initNative()
\* and releaseNative() overlap.
NoLeak == live \subseteq {gCls} \cup Owned

\* No reference is deleted twice and g_cls never dangles: what a call is about
\* to install or delete is alive, is not g_cls, and belongs to that call only.
DeletedOnce ==
    /\ gCls # NoRef => gCls \in live
    /\ \A t \in Threads : pc[t] \in Owning =>
        /\ ref[t] \in live \ {gCls}
        /\ \A u \in Threads \ {t} : pc[u] \in Owning => ref[u] # ref[t]

\* Attach and detach balance on every path: between calls exactly the threads
\* of the JVM are attached (a Java thread that announces, as the one inside
\* start() does, is never detached), and no JNI call is made detached.
AttachBalance == \A t \in Threads :
    IF pc[t] \in Inside
    THEN attached[t] /\ (needDetach[t] <=> t \notin JavaThreads)
    ELSE (attached[t] <=> t \in JavaThreads) /\ ~needDetach[t]

\* No JNI call but the exception ones is made with an exception pending, and
\* none is left in the thread when an announcement returns.
NothingPending == \A t \in Threads : pending[t] => pc[t] = "check"

\* The reference an announcement uses is alive: the swap that creates the new
\* one before it deletes the old one "prevents use-after-free".
UsesLiveRef == \A t \in Threads : pc[t] \in Using => ref[t] \in live

=============================================================================
