----------------------------- MODULE SmStdCall -----------------------------
(***************************************************************************)
(* The standard call of the secure monitor library (lib/sm/sm.c): one call *)
(* at a time, run by the thread sm-stdcall, which any CPU that is in the   *)
(* secure world may schedule.  A CPU enters with a call, a restart or a    *)
(* nop, runs secure threads, and goes back from its idle thread, from its  *)
(* interrupt thread, or for a FIQ.  The CPU that expects the result is     *)
(* active_cpu.                                                             *)
(*                                                                         *)
(* The normal world is a set of callers that keep to the protocol of       *)
(* smcall.h and sm_err.h, each entering through any CPU that is free.      *)
(***************************************************************************)
EXTENDS Naturals

CONSTANTS Cpus,
          Callers,      \* threads of the normal world
          None,
          Requests,     \* api versions the normal world asks for
          NeedVersion,  \* version its driver needs before it makes calls
          TRUSTY_API_VERSION_CURRENT,
          MaxFiqs

TRUSTY_API_VERSION_SMP == 2

(* Return values other than the result of a call (sm_err.h). *)
Codes == {"INTERNAL_FAILURE", "BUSY", "UNEXPECTED_RESTART", "CPU_IDLE", "ERROR",
          "INTERRUPTED", "NOP_INTERRUPTED", "NOP_DONE"}

ASSUME NoneAssumption == None \notin Cpus \cup Callers \cup Codes
ASSUME CodesAssumption == Callers \cap Codes = {}
ASSUME VersionAssumption == Requests \subseteq Nat /\ TRUSTY_API_VERSION_CURRENT \in Nat
ASSUME FiqsAssumption == MaxFiqs \in Nat

VARIABLES
  event, done, active, restarts, args, ret, \* struct sm_std_call_state
  sc,       \* the thread sm-stdcall: wait, ready, run, blocked
  on,       \* the CPU it runs on, if it does
  fiqs,     \* FIQs so far
  at,       \* CPU |-> ns, run (secure threads, interrupts on), check and get
            \* (idle thread, interrupts off), irq (interrupt thread), fiq;
            \* fiqver: a FIQ between locking the version and reading it
  resume,   \* CPU |-> where it goes on when it is entered again
  user,     \* CPU |-> the caller that is inside through it
  want,     \* caller |-> its next SMC, "in" when inside, "none"
  kind,     \* caller |-> what it does: "call" or "nop"
  got,      \* caller |-> what its last SMC returned
  api, locked, \* sm_api_version, sm_api_version_locked
  ns_api,   \* the version the normal world believes in
  answer,   \* the answer to its request, on its way ({} or a single version)
  seen      \* versions that sm_get_api_version has returned

std_vars == <<event, done, active, restarts, args, ret>>
thread_vars == <<sc, on>>
cpu_vars == <<fiqs, at, resume, user>>
ns_vars == <<want, kind, got>>
api_vars == <<api, locked, ns_api, answer, seen>>
vars == <<std_vars, thread_vars, cpu_vars, ns_vars, api_vars>>

Secure == {"run", "check", "get", "irq"}
Places == Secure \cup {"ns", "fiq", "fiqver"}
Open == event \/ done     \* a call is queued, running, or has its result

Init == /\ event = FALSE /\ done = FALSE /\ active = None /\ restarts = FALSE
        /\ args = None /\ ret = None
        /\ sc = "wait" /\ on = None
        /\ fiqs = 0 /\ at = [c \in Cpus |-> "ns"] /\ resume = [c \in Cpus |-> "run"]
        /\ user = [c \in Cpus |-> None]
        /\ want = [w \in Callers |-> "none"] /\ kind = [w \in Callers |-> "call"]
        /\ got = [w \in Callers |-> None]
        /\ api = 0 /\ locked = FALSE /\ ns_api = 0 /\ answer = {} /\ seen = {}

-----------------------------------------------------------------------------
(* The normal world *)

(* What a caller does about a return value: "Got interrupted. Call back    *)
(* with restart SMC", "Temporarily busy. Call back with original args".    *)
After(w, code) ==
  IF code \in {"INTERRUPTED", "CPU_IDLE"} THEN "restart"
  ELSE IF code \in {"BUSY", "NOP_INTERRUPTED"} THEN kind[w]
  ELSE "none"

Reply(w, code) == /\ got' = [got EXCEPT ![w] = code]
                  /\ want' = [want EXCEPT ![w] = After(w, code)]
                  /\ UNCHANGED kind

Decide(w) ==
  /\ want[w] = "none" /\ ns_api >= NeedVersion
  /\ \E k \in {"call", "nop"} : /\ want' = [want EXCEPT ![w] = k]
                                /\ kind' = [kind EXCEPT ![w] = k]
  /\ got' = [got EXCEPT ![w] = None]
  /\ UNCHANGED <<std_vars, thread_vars, cpu_vars, api_vars>>

(* The fast call that selects the version.  It comes through any CPU that  *)
(* is in the normal world, whatever is open meanwhile, and is not queued.  *)
smc_sm_api_version(v) ==
  /\ answer = {}
  /\ \E c \in Cpus : at[c] \in {"ns", "fiq"}
  /\ api' = IF locked THEN api
            ELSE IF v > TRUSTY_API_VERSION_CURRENT THEN TRUSTY_API_VERSION_CURRENT
            ELSE v
  /\ answer' = {api'}
  /\ UNCHANGED <<locked, ns_api, seen, std_vars, thread_vars, cpu_vars, ns_vars>>

VersionAnswer == /\ ns_api' \in answer
                 /\ answer' = {}
                 /\ UNCHANGED <<api, locked, seen, std_vars, thread_vars, cpu_vars, ns_vars>>

-----------------------------------------------------------------------------
(* Entering: sm_return_and_wait_for_next_stdcall gets its next SMC *)

Enter(w, c) == /\ at' = [at EXCEPT ![c] = resume[c]]
               /\ resume' = [resume EXCEPT ![c] = "run"]
               /\ user' = [user EXCEPT ![c] = w]
               /\ want' = [want EXCEPT ![w] = "in"]
               /\ UNCHANGED <<fiqs, kind, got>>

(* Mistake: a result that nobody fetched does not keep the call busy. *)
QueueRetIgnoresDone(smc) ==
  IF event
  THEN IF smc = "restart" /\ active = None THEN "ok" ELSE "BUSY"
  ELSE IF smc = "restart" /\ ~done THEN "UNEXPECTED_RESTART" ELSE "ok"

QueueRet(smc) ==
  IF event \/ done
  THEN IF smc = "restart" /\ active = None THEN "ok" ELSE "BUSY"
  ELSE IF smc = "restart" THEN "UNEXPECTED_RESTART" ELSE "ok"

(* A call or a restart: sm_queue_stdcall under the state's lock. *)
sm_queue_stdcall(w, c) ==
  /\ at[c] = "ns" /\ want[w] \in {"call", "restart"}
  /\ LET code == QueueRet(want[w]) IN
       \/ /\ code # "ok"
          /\ Reply(w, code)
          /\ UNCHANGED <<std_vars, thread_vars, cpu_vars>>
       \/ /\ code = "ok" /\ want[w] = "restart"
          /\ restarts' = TRUE /\ active' = c
          /\ Enter(w, c)
          /\ UNCHANGED <<event, done, args, ret, thread_vars>>
       \/ /\ code = "ok" /\ want[w] = "call"
          /\ ret' = "INTERNAL_FAILURE" /\ args' = w /\ restarts' = FALSE
          /\ event' = TRUE /\ active' = c
          /\ sc' = IF sc = "wait" THEN "ready" ELSE sc
          /\ Enter(w, c)
          /\ UNCHANGED <<done, on>>
  /\ UNCHANGED api_vars

(* A nop: its handler either has nothing to say (0) and the CPU goes on in *)
(* the secure world, or its error goes straight back.                      *)
Nop(w, c) ==
  /\ at[c] = "ns" /\ want[w] = "nop"
  /\ \/ Enter(w, c)
     \/ Reply(w, "ERROR") /\ UNCHANGED cpu_vars
  /\ UNCHANGED <<std_vars, thread_vars, api_vars>>

-----------------------------------------------------------------------------
(* Leaving *)

Return(c, code) == /\ at' = [at EXCEPT ![c] = "ns"]
                   /\ resume' = [resume EXCEPT ![c] = "run"]
                   /\ user' = [user EXCEPT ![c] = None]
                   /\ Reply(user[c], code)
                   /\ UNCHANGED fiqs

(* sm_wait_for_smcall: interrupts off, thread_yield.  The idle thread goes *)
(* on when no other thread is ready for this CPU.                          *)
Idle(c) == /\ at[c] = "run" /\ sc # "ready" /\ on # c
           /\ at' = [at EXCEPT ![c] = "check"]
           /\ UNCHANGED <<fiqs, resume, user, std_vars, thread_vars, ns_vars, api_vars>>

(* It looks at active_cpu without the lock. *)
Check(c) ==
  /\ at[c] = "check"
  /\ \/ /\ active = c
        /\ at' = [at EXCEPT ![c] = "get"]
        /\ UNCHANGED <<fiqs, resume, user, ns_vars>>
     \/ active # c /\ Return(c, "NOP_DONE")
  /\ UNCHANGED <<std_vars, thread_vars, api_vars>>

(* Mistake: the version is not locked (as under TRUSTY_EMBEDDED_BUILD). *)
LockVersionNot == UNCHANGED locked

(* sm_get_api_version: looking at the version locks it, if it is not yet   *)
(* locked; it is read after that, under no lock.                           *)
LockVersion == locked' = TRUE
ReadVersion == seen' = seen \cup {api}

(* Mistake: an unfinished call stays with this CPU. *)
sm_get_stdcall_ret_keeps(c) ==
  /\ at[c] = "get"
  /\ \/ /\ active # c
        /\ Return(c, "INTERNAL_FAILURE") /\ UNCHANGED <<active, done, locked, seen>>
     \/ /\ active = c /\ done
        /\ active' = None /\ done' = FALSE
        /\ Return(c, ret) /\ UNCHANGED <<locked, seen>>
     \/ /\ active = c /\ ~done
        /\ LockVersion /\ ReadVersion
        /\ Return(c, IF api >= TRUSTY_API_VERSION_SMP THEN "CPU_IDLE"
                     ELSE IF restarts THEN "BUSY" ELSE "INTERRUPTED")
        /\ UNCHANGED <<active, done>>
  /\ UNCHANGED <<event, restarts, args, ret, thread_vars, api, ns_api, answer>>

sm_get_stdcall_ret(c) ==
  /\ at[c] = "get"
  /\ IF active # c
     THEN Return(c, "INTERNAL_FAILURE") /\ UNCHANGED <<active, done, locked, seen>>
     ELSE /\ active' = None
          /\ \/ /\ done
                /\ done' = FALSE
                /\ Return(c, ret) /\ UNCHANGED <<locked, seen>>
             \/ /\ ~done
                /\ LockVersion /\ ReadVersion
                /\ Return(c, IF api >= TRUSTY_API_VERSION_SMP THEN "CPU_IDLE"
                             ELSE IF restarts THEN "BUSY" ELSE "INTERRUPTED")
                /\ UNCHANGED done
  /\ UNCHANGED <<event, restarts, args, ret, thread_vars, api, ns_api, answer>>

Preempt(c) == IF sc = "run" /\ on = c THEN sc' = "ready" /\ on' = None
              ELSE UNCHANGED thread_vars

(* Mistake: interrupts stay on in the idle thread. *)
sm_handle_irq_always(c) ==
  /\ at[c] \in {"run", "check", "get"}
  /\ at' = [at EXCEPT ![c] = "irq"]
  /\ resume' = [resume EXCEPT ![c] = at[c]]
  /\ Preempt(c)
  /\ UNCHANGED <<fiqs, user, std_vars, ns_vars, api_vars>>

(* A normal-world interrupt takes the CPU from whatever thread it runs. *)
sm_handle_irq(c) ==
  /\ at[c] = "run"
  /\ at' = [at EXCEPT ![c] = "irq"]
  /\ Preempt(c)
  /\ UNCHANGED <<fiqs, resume, user, std_vars, ns_vars, api_vars>>

(* The interrupt thread.  (An interrupted resume point is kept.) *)
ReturnFrom(c, code) == /\ at' = [at EXCEPT ![c] = "ns"]
                       /\ user' = [user EXCEPT ![c] = None]
                       /\ Reply(user[c], code)
                       /\ UNCHANGED <<fiqs, resume>>

(* Mistake: the CPU stays the one that expects the result. *)
sm_irq_return_ns_keeps(c) ==
  /\ at[c] = "irq"
  /\ \/ active = c /\ ReturnFrom(c, "INTERRUPTED")
     \/ active # c /\ ReturnFrom(c, "NOP_INTERRUPTED")
  /\ UNCHANGED <<std_vars, thread_vars, api_vars>>

sm_irq_return_ns(c) ==
  /\ at[c] = "irq"
  /\ \/ active = c /\ active' = None /\ ReturnFrom(c, "INTERRUPTED")
     \/ active # c /\ UNCHANGED active /\ ReturnFrom(c, "NOP_INTERRUPTED")
  /\ UNCHANGED <<event, done, restarts, args, ret, thread_vars, api_vars>>

(* A FIQ lends the CPU to the normal world, with a return value that       *)
(* depends on the version.  The normal world must come back with a restart *)
(* on the same CPU; everything else on it is refused meanwhile.            *)
sm_handle_fiq(c) ==
  /\ fiqs < MaxFiqs /\ at[c] \in Secure
  /\ at' = [at EXCEPT ![c] = "fiqver"]
  /\ resume' = [resume EXCEPT ![c] = at[c]]
  /\ LockVersion
  /\ fiqs' = fiqs + 1
  /\ UNCHANGED <<user, std_vars, thread_vars, ns_vars, api, ns_api, answer, seen>>

FiqReturn(c) ==
  /\ at[c] = "fiqver"
  /\ ReadVersion
  /\ at' = [at EXCEPT ![c] = "fiq"]
  /\ UNCHANGED <<fiqs, resume, user, std_vars, thread_vars, ns_vars, api, locked,
                 ns_api, answer>>

RestartFiq(c) ==
  /\ at[c] = "fiq"
  /\ at' = [at EXCEPT ![c] = resume[c]]
  /\ resume' = [resume EXCEPT ![c] = "run"]
  /\ UNCHANGED <<fiqs, user, std_vars, thread_vars, ns_vars, api_vars>>

-----------------------------------------------------------------------------
(* The thread sm-stdcall *)

ScRun(c) == /\ sc = "ready" /\ at[c] = "run"
            /\ sc' = "run" /\ on' = c
            /\ UNCHANGED <<std_vars, cpu_vars, ns_vars, api_vars>>

(* The handler waits for something, and gets it. *)
ScBlock == /\ sc = "run" /\ at[on] = "run"
           /\ sc' = "blocked" /\ on' = None
           /\ UNCHANGED <<std_vars, cpu_vars, ns_vars, api_vars>>
ScWake == /\ sc = "blocked"
          /\ sc' = "ready"
          /\ UNCHANGED <<on, std_vars, cpu_vars, ns_vars, api_vars>>

(* The handler returns; the result belongs to the arguments it was given. *)
sm_stdcall_loop ==
  /\ sc = "run" /\ at[on] = "run"
  /\ ret' = args /\ done' = TRUE /\ event' = FALSE
  /\ sc' = "wait" /\ on' = None
  /\ UNCHANGED <<active, restarts, args, cpu_vars, ns_vars, api_vars>>

-----------------------------------------------------------------------------
CpuStep(c) == Check(c) \/ sm_get_stdcall_ret(c) \/ sm_irq_return_ns(c) \/ FiqReturn(c)

Next == \/ \E c \in Cpus : \/ CpuStep(c) \/ Idle(c) \/ ScRun(c)
                           \/ sm_handle_irq(c) \/ sm_handle_fiq(c) \/ RestartFiq(c)
        \/ \E w \in Callers : \/ Decide(w)
                              \/ \E c \in Cpus : sm_queue_stdcall(w, c) \/ Nop(w, c)
        \/ \E v \in Requests : smc_sm_api_version(v)
        \/ VersionAnswer
        \/ ScBlock \/ ScWake \/ sm_stdcall_loop

Spec == Init /\ [][Next]_vars

(* CPUs go on; the normal world comes back after a FIQ and with the call a *)
(* return value asks for; the handler's waits end.  Interrupts may come at *)
(* any time, but not before every step of sm-stdcall, nor each time before *)
(* a result is fetched, and a caller finds a CPU free in the end: hence    *)
(* strong fairness.                                                        *)
FairSpec ==
  /\ Spec
  /\ \A c \in Cpus : WF_vars(CpuStep(c)) /\ WF_vars(RestartFiq(c))
  /\ \A w \in Callers : SF_vars(\E c \in Cpus : sm_queue_stdcall(w, c) \/ Nop(w, c))
  /\ WF_vars(ScWake) /\ SF_vars(\E c \in Cpus : ScRun(c)) /\ SF_vars(sm_stdcall_loop)
  /\ SF_vars(\E c \in Cpus : Idle(c) /\ active = c /\ done)

-----------------------------------------------------------------------------
(* Properties *)

(* Types. *)
TypeOK ==
  /\ event \in BOOLEAN /\ done \in BOOLEAN /\ restarts \in BOOLEAN
  /\ active \in Cpus \cup {None} /\ args \in Callers \cup {None}
  /\ ret \in Callers \cup {None, "INTERNAL_FAILURE"}
  /\ sc \in {"wait", "ready", "run", "blocked"} /\ on \in Cpus \cup {None}
  /\ fiqs \in 0 .. MaxFiqs
  /\ at \in [Cpus -> Places] /\ resume \in [Cpus -> Secure]
  /\ user \in [Cpus -> Callers \cup {None}]
  /\ want \in [Callers -> {"none", "call", "restart", "nop", "in"}]
  /\ kind \in [Callers -> {"call", "nop"}]
  /\ got \in [Callers -> Callers \cup Codes \cup {None}]
  /\ api \in Nat /\ locked \in BOOLEAN /\ ns_api \in Nat
  /\ answer \subseteq Nat /\ seen \subseteq Nat

(* The result of a standard call goes to the caller that made it, whoever  *)
(* else calls, restarts or is refused meanwhile, and on whatever CPUs.     *)
OwnResult == \A w \in Callers : got[w] \in Callers => got[w] = w

(* "Returns SM_ERR_NOP_INTERRUPTED or SM_ERR_NOP_DONE" (smcall.h:82): a    *)
(* nop never sees the outcome of a standard call nor a call that of a nop. *)
RightKind ==
  \A w \in Callers :
    /\ got[w] \in {"NOP_INTERRUPTED", "NOP_DONE"} => kind[w] = "nop"
    /\ got[w] \in {"INTERRUPTED", "CPU_IDLE", "BUSY"} \cup Callers => kind[w] = "call"

(* On top of the types, the CPU that expects the result (active_cpu) is    *)
(* inside, except for a FIQ, and its caller is the one whose call is open. *)
ActiveInside ==
  /\ TypeOK
  /\ active # None => at[active] # "ns" /\ Open /\ user[active] = args

(* "Disable interrupts so stdcallstate.active_cpu does not change to or    *)
(* from this cpu after checking it below" (sm.c:321): the check without    *)
(* the lock is not stale, and no restart comes unexpected.                 *)
NoProtocolError ==
  \A w \in Callers : got[w] \notin {"INTERNAL_FAILURE", "UNEXPECTED_RESTART"}

(* "Tried to select api version after use" (sm.c:93): a version is chosen  *)
(* at most once for all that depends on it.  Whatever CPUs look at it, for *)
(* an unfinished call or for a FIQ, and whatever the normal world selects  *)
(* meanwhile on others, they all get the same version, and it is the one   *)
(* the normal world was told.                                              *)
OneVersion ==
  /\ \A u, v \in seen : u = v
  /\ seen # {} /\ answer = {} => ns_api \in seen

(* An accepted call comes to its end and its result is fetched.  (Not when *)
(* the version that is in use for good does not know SM_ERR_CPU_IDLE: a    *)
(* restarted call is then refused with SM_ERR_BUSY.)                       *)
CallEnds == Open ~> (~Open \/ (locked /\ api < TRUSTY_API_VERSION_SMP))
=============================================================================
