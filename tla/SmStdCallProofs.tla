-------------------------- MODULE SmStdCallProofs --------------------------
(***************************************************************************)
(* Proofs about SmStdCall for every number of CPUs and callers, every set  *)
(* of requested versions and every number of FIQs.                         *)
(*                                                                         *)
(* The invariant ties three views of the same call together: the state of  *)
(* the call (args, active, done), the CPUs (who is inside through which,   *)
(* and where) and the callers (what each of them does next).               *)
(***************************************************************************)
EXTENDS SmStdCall, TLAPS

(* A caller is inside through one CPU at most, and a CPU that is not in    *)
(* the normal world is used by a caller that waits for it to come back.    *)
Users ==
  /\ \A c \in Cpus : at[c] = "ns" <=> user[c] = None
  /\ \A c \in Cpus : user[c] # None => want[user[c]] = "in"
  /\ \A c, d \in Cpus : user[c] # None /\ user[c] = user[d] => c = d

(* A CPU goes on elsewhere than at its secure threads only after a FIQ,    *)
(* and one that is to fetch a result is still the one that expects it.     *)
Resumes ==
  /\ \A c \in Cpus : at[c] \notin {"fiq", "fiqver"} => resume[c] = "run"
  /\ \A c \in Cpus : "get" \in {at[c], resume[c]} => active = c

(* The thread sm-stdcall is busy exactly while a call is queued or runs,   *)
(* and a result is that of the call's own arguments.                       *)
Call ==
  /\ event <=> sc # "wait"
  /\ Open => args \in Callers
  /\ done => ret = args

(* What a caller is about to do fits what it wants; a restart is wanted    *)
(* only by the caller of an open call that no CPU expects.                 *)
Wants ==
  /\ \A w \in Callers : want[w] \in {"call", "nop"} => kind[w] = want[w]
  /\ \A w \in Callers : want[w] = "restart" =>
       kind[w] = "call" /\ Open /\ active = None /\ args = w

(* A caller inside for a call is inside through the CPU that expects it.   *)
Expects ==
  \A c \in Cpus : user[c] # None =>
    (kind[user[c]] = "call" <=> active = c)

(* A version that was looked at is locked and is still the current one;    *)
(* the normal world knows the current one, or its answer is on the way.    *)
Versions ==
  /\ seen # {} => locked
  /\ seen \subseteq {api} /\ answer \subseteq {api}
  /\ answer = {} => ns_api = api
  /\ \A c \in Cpus : at[c] = "fiqver" => locked

IInv == /\ ActiveInside /\ Users /\ Resumes /\ Call /\ Wants /\ Expects
        /\ OwnResult /\ RightKind /\ NoProtocolError /\ Versions

-----------------------------------------------------------------------------
(* No call is open and nobody is inside when the system starts. *)
LEMMA InitIInv == Init => IInv
<1> SUFFICES ASSUME Init PROVE IInv
  OBVIOUS
<1> USE NoneAssumption, CodesAssumption, VersionAssumption, FiqsAssumption DEF Init
<1>1. TypeOK
  <2>1. /\ event \in BOOLEAN /\ done \in BOOLEAN /\ restarts \in BOOLEAN
        /\ locked \in BOOLEAN
    BY Zenon
  <2>2. /\ active \in Cpus \cup {None} /\ args \in Callers \cup {None}
        /\ ret \in Callers \cup {None, "INTERNAL_FAILURE"}
        /\ sc \in {"wait", "ready", "run", "blocked"} /\ on \in Cpus \cup {None}
        /\ fiqs \in 0 .. MaxFiqs /\ api \in Nat /\ ns_api \in Nat
    OBVIOUS
  <2>3. /\ at \in [Cpus -> Places] /\ resume \in [Cpus -> Secure]
        /\ user \in [Cpus -> Callers \cup {None}]
        /\ want \in [Callers -> {"none", "call", "restart", "nop", "in"}]
        /\ kind \in [Callers -> {"call", "nop"}]
        /\ got \in [Callers -> Callers \cup Codes \cup {None}]
    BY DEF Secure, Places
  <2> QED
    BY <2>1, <2>2, <2>3, Zenon DEF TypeOK
<1>2. ActiveInside
  BY <1>1 DEF ActiveInside
<1>3. Users /\ Resumes /\ Call /\ Wants /\ Expects
  BY DEF Users, Resumes, Call, Wants, Expects, Open
<1>4. OwnResult /\ RightKind /\ NoProtocolError /\ Versions
  BY DEF OwnResult, RightKind, NoProtocolError, Versions, Codes
<1> QED
  BY <1>2, <1>3, <1>4 DEF IInv

(* What a return to the normal world changes: one CPU, one caller. *)
LEMMA ReturnEffect ==
  ASSUME TypeOK, Users, Resumes, NEW c \in Cpus, at[c] \notin {"ns", "fiq", "fiqver"},
         NEW code \in Callers \cup Codes,
         Return(c, code) \/ ReturnFrom(c, code)
  PROVE  /\ user[c] \in Callers /\ want[user[c]] = "in"
         /\ at' \in [Cpus -> Places]
         /\ user' \in [Cpus -> Callers \cup {None}] /\ resume' = resume
         /\ want' \in [Callers -> {"none", "call", "restart", "nop", "in"}]
         /\ got' \in [Callers -> Callers \cup Codes \cup {None}]
         /\ kind' = kind /\ fiqs' = fiqs
         /\ at'[c] = "ns" /\ user'[c] = None
         /\ \A d \in Cpus \ {c} : at'[d] = at[d] /\ user'[d] = user[d]
         /\ want'[user[c]] = After(user[c], code) /\ got'[user[c]] = code
         /\ \A w \in Callers \ {user[c]} : want'[w] = want[w] /\ got'[w] = got[w]
<1> USE NoneAssumption
<1>1. user[c] \in Callers /\ want[user[c]] = "in"
  BY DEF TypeOK, Users
<1>2. resume' = resume
  BY DEF TypeOK, Resumes, Return, ReturnFrom
<1>3. /\ at' = [at EXCEPT ![c] = "ns"]
      /\ user' = [user EXCEPT ![c] = None]
      /\ Reply(user[c], code) /\ fiqs' = fiqs
  BY DEF Return, ReturnFrom
<1>4. After(user[c], code) \in {"none", "call", "restart", "nop", "in"}
  BY <1>1 DEF After, TypeOK
<1>5. /\ want' = [want EXCEPT ![user[c]] = After(user[c], code)]
      /\ got' = [got EXCEPT ![user[c]] = code]
      /\ kind' = kind
  BY <1>3 DEF Reply
<1> QED
  BY <1>1, <1>2, <1>3, <1>4, <1>5 DEF TypeOK, Places

(* What an entry changes: the CPU goes on at its secure threads. *)
LEMMA EnterEffect ==
  ASSUME TypeOK, Resumes, NEW w \in Callers, NEW c \in Cpus, at[c] = "ns", Enter(w, c)
  PROVE  /\ at' \in [Cpus -> Places]
         /\ user' \in [Cpus -> Callers \cup {None}] /\ resume' = resume
         /\ want' \in [Callers -> {"none", "call", "restart", "nop", "in"}]
         /\ kind' = kind /\ got' = got /\ fiqs' = fiqs
         /\ at'[c] = "run" /\ user'[c] = w /\ want'[w] = "in"
         /\ \A d \in Cpus \ {c} : at'[d] = at[d] /\ user'[d] = user[d]
         /\ \A v \in Callers \ {w} : want'[v] = want[v]
<1>1. resume[c] = "run" /\ resume' = resume
  BY DEF TypeOK, Resumes, Enter
<1> QED
  BY <1>1 DEF TypeOK, Enter, Secure, Places

(* A CPU that leaves preserves the invariant if it stops being the one     *)
(* that expects the result, and answers its caller accordingly.            *)
LEMMA ReturnIInv ==
  ASSUME IInv, NEW c \in Cpus, at[c] \notin {"ns", "fiq", "fiqver"},
         NEW code \in Callers \cup Codes,
         Return(c, code) \/ ReturnFrom(c, code),
         active' = IF active = c THEN None ELSE active,
         \/ active # c /\ done' = done /\ code \in {"NOP_DONE", "NOP_INTERRUPTED"}
         \/ active = c /\ done' = done /\ code \in {"INTERRUPTED", "CPU_IDLE", "BUSY"}
         \/ active = c /\ done /\ done' = FALSE /\ code = ret,
         \/ UNCHANGED <<locked, seen>>
         \/ locked' = TRUE /\ seen' = seen \cup {api},
         UNCHANGED <<event, restarts, args, ret, thread_vars, api, ns_api, answer>>
  PROVE  IInv'
<1>0. TypeOK
  BY DEF IInv, ActiveInside
<1> USE NoneAssumption, CodesAssumption, <1>0 DEF IInv, thread_vars
<1> DEFINE w == user[c]
<1>1. /\ w \in Callers /\ want[w] = "in"
      /\ at' \in [Cpus -> Places]
      /\ user' \in [Cpus -> Callers \cup {None}] /\ resume' = resume
      /\ want' \in [Callers -> {"none", "call", "restart", "nop", "in"}]
      /\ got' \in [Callers -> Callers \cup Codes \cup {None}]
      /\ kind' = kind /\ fiqs' = fiqs
      /\ at'[c] = "ns" /\ user'[c] = None
      /\ \A d \in Cpus \ {c} : at'[d] = at[d] /\ user'[d] = user[d]
      /\ want'[w] = After(w, code) /\ got'[w] = code
      /\ \A v \in Callers \ {w} : want'[v] = want[v] /\ got'[v] = got[v]
  BY ReturnEffect
<1>2. w # None /\ \A d \in Cpus \ {c} : user[d] # w
  BY <1>1 DEF Users
<1>3. /\ active = c => Open /\ args = w /\ kind[w] = "call"
      /\ active # c => kind[w] = "nop"
  BY <1>1, <1>2 DEF ActiveInside, Expects, TypeOK
<1> HIDE DEF w
<1>4. active = c /\ code = ret /\ done => code = w
  BY <1>3 DEF Call
<1>5. /\ code \in {"NOP_DONE", "NOP_INTERRUPTED"} => After(w, code) \in {"none", kind[w]}
      /\ code \in {"INTERRUPTED", "CPU_IDLE"} => After(w, code) = "restart"
      /\ code = "BUSY" => After(w, code) = kind[w]
      /\ code \in Callers => After(w, code) = "none"
  BY <1>1, <1>3 DEF After, Codes
<1>6. TypeOK'
  <2>1. done' \in BOOLEAN /\ active' \in Cpus \cup {None}
    BY DEF TypeOK
  <2> QED
    BY <1>1, <2>1 DEF TypeOK
<1>7. ActiveInside'
  BY <1>1, <1>6 DEF ActiveInside, Open, TypeOK
<1>8. Users'
  BY <1>1, <1>2 DEF Users, TypeOK
<1>9. Resumes' /\ Call'
  BY <1>1 DEF Resumes, Call, Open
<1>10. Wants'
  <2>1. ASSUME NEW v \in Callers, v # w
        PROVE  /\ want'[v] \in {"call", "nop"} => kind'[v] = want'[v]
               /\ want'[v] = "restart" =>
                    kind'[v] = "call" /\ Open' /\ active' = None /\ args' = v
    BY <1>1, <2>1 DEF Wants, Open
  <2>2. /\ want'[w] \in {"call", "nop"} => kind'[w] = want'[w]
        /\ want'[w] = "restart" =>
             kind'[w] = "call" /\ Open' /\ active' = None /\ args' = w
    <3>1. CASE active # c /\ code \in {"NOP_DONE", "NOP_INTERRUPTED"}
      BY <1>1, <1>3, <1>5, <3>1 DEF Open
    <3>2. CASE active = c /\ done' = done /\ code \in {"INTERRUPTED", "CPU_IDLE", "BUSY"}
      BY <1>1, <1>3, <1>5, <3>2 DEF Open, Codes
    <3>3. CASE active = c /\ done /\ code = ret
      BY <1>1, <1>4, <1>5, <3>3
    <3> QED
      BY <3>1, <3>2, <3>3
  <2> QED
    BY <2>1, <2>2 DEF Wants
<1>11. Expects'
  BY <1>1, <1>2 DEF Expects, TypeOK
<1>12. OwnResult' /\ RightKind' /\ NoProtocolError' /\ Versions'
  <2>1. /\ code \in Callers => code = w
        /\ code \in {"NOP_DONE", "NOP_INTERRUPTED"} => kind[w] = "nop"
        /\ code \in {"INTERRUPTED", "CPU_IDLE", "BUSY"} \cup Callers => kind[w] = "call"
        /\ code \notin {"INTERNAL_FAILURE", "UNEXPECTED_RESTART"}
    BY <1>1, <1>3, <1>4 DEF Codes
  <2> QED
    BY <1>1, <2>1 DEF OwnResult, RightKind, NoProtocolError, Versions
<1> QED
  BY <1>7, <1>8, <1>9, <1>10, <1>11, <1>12

(* A call that is refused, and a nop whose handler fails, change nothing   *)
(* but their caller.                                                       *)
LEMMA RefusedIInv ==
  ASSUME IInv, NEW w \in Callers, NEW code \in {"BUSY", "ERROR"},
         Reply(w, code), want[w] \in {"call", "restart", "nop"},
         code = "BUSY" => want[w] \in {"call", "restart"},
         UNCHANGED <<std_vars, thread_vars, cpu_vars, api_vars>>
  PROVE  IInv'
<1>0. TypeOK
  BY DEF IInv, ActiveInside
<1> USE NoneAssumption, CodesAssumption, <1>0
    DEF IInv, std_vars, thread_vars, cpu_vars, api_vars
<1>1. code = "BUSY" => kind[w] = "call"
  BY DEF Wants
<1>2. /\ want' = [want EXCEPT ![w] = IF code = "BUSY" THEN kind[w] ELSE "none"]
      /\ got' = [got EXCEPT ![w] = code] /\ kind' = kind
  BY DEF Reply, After
<1>3. TypeOK'
  BY <1>2 DEF TypeOK, Codes
<1>4. ActiveInside' /\ Resumes' /\ Call'
  BY <1>2, <1>3 DEF ActiveInside, Resumes, Call, Open
<1>5. Users' /\ Expects'
  BY <1>2 DEF Users, Expects, TypeOK
<1>6. Wants'
  BY <1>1, <1>2 DEF Wants, Open, TypeOK
<1>7. OwnResult' /\ RightKind' /\ NoProtocolError' /\ Versions'
  BY <1>1, <1>2 DEF OwnResult, RightKind, NoProtocolError, Versions, TypeOK, Codes
<1> QED
  BY <1>4, <1>5, <1>6, <1>7

(* A CPU that enters preserves the invariant if it becomes the one that    *)
(* expects the result exactly when it enters for a call.                   *)
LEMMA EnterIInv ==
  ASSUME IInv, NEW w \in Callers, NEW c \in Cpus, at[c] = "ns", Enter(w, c),
         want[w] \in {"call", "restart", "nop"},
         \/ kind[w] = "nop" /\ active' = active /\ UNCHANGED <<event, done, args>>
         \/ kind[w] = "call" /\ active = None /\ active' = c /\ Open' /\ args' = w,
         Open => Open' /\ args' = args,
         Call', restarts' \in BOOLEAN, event' \in BOOLEAN, done' \in BOOLEAN,
         ret' \in Callers \cup {None, "INTERNAL_FAILURE"},
         sc' \in {"wait", "ready", "run", "blocked"}, on' = on,
         UNCHANGED api_vars
  PROVE  IInv'
<1>0. TypeOK
  BY DEF IInv, ActiveInside
<1> USE NoneAssumption, CodesAssumption, <1>0 DEF IInv, api_vars
<1>1. /\ at' \in [Cpus -> Places]
      /\ user' \in [Cpus -> Callers \cup {None}] /\ resume' = resume
      /\ want' \in [Callers -> {"none", "call", "restart", "nop", "in"}]
      /\ kind' = kind /\ got' = got /\ fiqs' = fiqs
      /\ at'[c] = "run" /\ user'[c] = w /\ want'[w] = "in"
      /\ \A d \in Cpus \ {c} : at'[d] = at[d] /\ user'[d] = user[d]
      /\ \A v \in Callers \ {w} : want'[v] = want[v]
  BY EnterEffect
<1>2. user[c] = None /\ active # c /\ \A d \in Cpus : user[d] # w
  BY DEF Users, ActiveInside
<1>3. TypeOK'
  BY <1>1 DEF TypeOK
<1>4. ActiveInside'
  BY <1>1, <1>2, <1>3 DEF ActiveInside, Open, TypeOK
<1>5. Users'
  BY <1>1, <1>2 DEF Users, TypeOK
<1>6. Resumes'
  BY <1>1, <1>2 DEF Resumes
<1>7. Wants'
  BY <1>1 DEF Wants, Open
<1>8. Expects'
  BY <1>1, <1>2 DEF Expects, TypeOK
<1>9. OwnResult' /\ RightKind' /\ NoProtocolError' /\ Versions'
  BY <1>1 DEF OwnResult, RightKind, NoProtocolError, Versions
<1> QED
  BY <1>4, <1>5, <1>6, <1>7, <1>8, <1>9

(* Every step of a CPU, a caller or the thread sm-stdcall preserves it.    *)
LEMMA StepIInv == IInv /\ [Next]_vars => IInv'
<1> SUFFICES ASSUME IInv, [Next]_vars PROVE IInv'
  OBVIOUS
<1>0. TypeOK
  BY DEF IInv, ActiveInside
<1> USE NoneAssumption, CodesAssumption, VersionAssumption, FiqsAssumption, <1>0 DEF IInv
<1>1. ASSUME NEW c \in Cpus, Check(c)
      PROVE  IInv'
  <2> USE <1>1 DEF std_vars, thread_vars, cpu_vars, ns_vars, api_vars
  <2>1. CASE active = c
    <3>1. /\ at' = [at EXCEPT ![c] = "get"]
          /\ UNCHANGED <<fiqs, resume, user, ns_vars, std_vars, thread_vars, api_vars>>
      BY <2>1 DEF Check
    <3>2. TypeOK'
      BY <3>1 DEF TypeOK, Secure, Places
    <3>3. ActiveInside' /\ Users' /\ Resumes'
      BY <2>1, <3>1, <3>2 DEF Check, ActiveInside, Users, Resumes, Open, TypeOK
    <3>4. Call' /\ Wants' /\ Expects'
      BY <3>1 DEF Call, Wants, Expects, Open
    <3>5. OwnResult' /\ RightKind' /\ NoProtocolError' /\ Versions'
      BY <3>1 DEF OwnResult, RightKind, NoProtocolError, Versions
    <3> QED
      BY <3>3, <3>4, <3>5
  <2>2. CASE active # c
    <3>1. /\ Return(c, "NOP_DONE") /\ at[c] = "check"
          /\ UNCHANGED <<std_vars, thread_vars, api_vars>>
      BY <2>2 DEF Check
    <3>2. "NOP_DONE" \in Codes
      BY DEF Codes
    <3> QED
      BY <2>2, <3>1, <3>2, ReturnIInv
  <2> QED
    BY <2>1, <2>2
<1>2. ASSUME NEW c \in Cpus, sm_get_stdcall_ret(c)
      PROVE  IInv'
  <2> USE <1>2 DEF thread_vars
  <2>1. active = c /\ at[c] = "get"
    BY DEF sm_get_stdcall_ret, Resumes
  <2>2. /\ active' = None
        /\ UNCHANGED <<event, restarts, args, ret, thread_vars, api, ns_api, answer>>
    BY <2>1 DEF sm_get_stdcall_ret
  <2>3. CASE done
    <3>1. done' = FALSE /\ Return(c, ret) /\ UNCHANGED <<locked, seen>>
      BY <2>1, <2>3 DEF sm_get_stdcall_ret
    <3>2. ret \in Callers /\ locked \in BOOLEAN
      BY <2>3 DEF Call, Open, TypeOK
    <3> QED
      BY <2>1, <2>2, <2>3, <3>1, <3>2, ReturnIInv
  <2>4. CASE ~done
    <3>1. /\ done' = done /\ locked' = TRUE /\ seen' = seen \cup {api}
          /\ Return(c, IF api >= TRUSTY_API_VERSION_SMP THEN "CPU_IDLE"
                       ELSE IF restarts THEN "BUSY" ELSE "INTERRUPTED")
      BY <2>1, <2>4 DEF sm_get_stdcall_ret, LockVersion, ReadVersion
    <3>2. PICK code \in {"INTERRUPTED", "CPU_IDLE", "BUSY"} : Return(c, code)
      BY <3>1
    <3>3. code \in Codes
      BY DEF Codes
    <3> QED
      BY <2>1, <2>2, <3>1, <3>2, <3>3, ReturnIInv
  <2> QED
    BY <2>3, <2>4
<1>3. ASSUME NEW c \in Cpus, sm_irq_return_ns(c)
      PROVE  IInv'
  <2> USE <1>3 DEF thread_vars, api_vars
  <2>1. /\ at[c] = "irq" /\ UNCHANGED <<locked, seen>>
        /\ UNCHANGED <<event, done, restarts, args, ret, thread_vars, api, ns_api, answer>>
    BY DEF sm_irq_return_ns
  <2>2. {"INTERRUPTED", "NOP_INTERRUPTED"} \subseteq Codes
    BY DEF Codes
  <2>3. CASE active = c
    <3>1. active' = None /\ ReturnFrom(c, "INTERRUPTED")
      BY <2>3 DEF sm_irq_return_ns
    <3> QED
      BY <2>1, <2>2, <2>3, <3>1, ReturnIInv
  <2>4. CASE active # c
    <3>1. active' = active /\ ReturnFrom(c, "NOP_INTERRUPTED")
      BY <2>4 DEF sm_irq_return_ns
    <3> QED
      BY <2>1, <2>2, <2>4, <3>1, ReturnIInv
  <2> QED
    BY <2>3, <2>4
<1>4. ASSUME NEW c \in Cpus, Idle(c)
      PROVE  IInv'
  <2> USE <1>4 DEF Idle, std_vars, thread_vars, cpu_vars, ns_vars, api_vars
  <2>1. TypeOK'
    BY DEF TypeOK, Secure, Places
  <2>2. ActiveInside'
    BY <2>1 DEF ActiveInside, Users, Open
  <2>3. Users'
    BY DEF Users
  <2>4. Resumes' /\ Call'
    BY DEF Resumes, Call, Open
  <2>5. Wants'
    BY DEF Wants, Open, Users
  <2>6. Expects'
    BY DEF Expects, Users
  <2>7. OwnResult' /\ RightKind' /\ NoProtocolError' /\ Versions'
    BY DEF OwnResult, RightKind, NoProtocolError, Versions
  <2> QED
    BY <2>2, <2>3, <2>4, <2>5, <2>6, <2>7
<1>5. ASSUME NEW c \in Cpus, ScRun(c)
      PROVE  IInv'
  <2> USE <1>5 DEF ScRun, std_vars, thread_vars, cpu_vars, ns_vars, api_vars
  <2>1. TypeOK'
    BY DEF TypeOK, Secure, Places
  <2>2. ActiveInside'
    BY <2>1 DEF ActiveInside, Users, Open
  <2>3. Users'
    BY DEF Users
  <2>4. Resumes' /\ Call'
    BY DEF Resumes, Call, Open
  <2>5. Wants'
    BY DEF Wants, Open, Users
  <2>6. Expects'
    BY DEF Expects, Users
  <2>7. OwnResult' /\ RightKind' /\ NoProtocolError' /\ Versions'
    BY DEF OwnResult, RightKind, NoProtocolError, Versions
  <2> QED
    BY <2>2, <2>3, <2>4, <2>5, <2>6, <2>7
<1>6. ASSUME NEW c \in Cpus, sm_handle_irq(c)
      PROVE  IInv'
  <2> USE <1>6 DEF sm_handle_irq, Preempt, std_vars, thread_vars, cpu_vars, ns_vars, api_vars
  <2>1. TypeOK'
    BY DEF TypeOK, Secure, Places
  <2>2. ActiveInside'
    BY <2>1 DEF ActiveInside, Users, Open
  <2>3. Users'
    BY DEF Users
  <2>4. Resumes' /\ Call'
    BY DEF Resumes, Call, Open
  <2>5. Wants'
    BY DEF Wants, Open, Users
  <2>6. Expects'
    BY DEF Expects, Users
  <2>7. OwnResult' /\ RightKind' /\ NoProtocolError' /\ Versions'
    BY DEF OwnResult, RightKind, NoProtocolError, Versions
  <2> QED
    BY <2>2, <2>3, <2>4, <2>5, <2>6, <2>7
<1>7. ASSUME NEW c \in Cpus, sm_handle_fiq(c)
      PROVE  IInv'
  <2> USE <1>7 DEF sm_handle_fiq, LockVersion, std_vars, thread_vars, cpu_vars, ns_vars, api_vars
  <2>1. TypeOK'
    BY DEF TypeOK, Secure, Places
  <2>2. ActiveInside'
    BY <2>1 DEF ActiveInside, Users, Open, TypeOK, Secure, Places
  <2>3. Users'
    BY DEF Users, TypeOK, Secure, Places
  <2>4. Resumes' /\ Call'
    BY DEF Resumes, Call, Open, TypeOK, Secure, Places
  <2>5. Wants'
    BY DEF Wants, Open, Users, TypeOK
  <2>6. Expects'
    BY DEF Expects, Users, TypeOK
  <2>7. OwnResult' /\ RightKind' /\ NoProtocolError' /\ Versions'
    BY DEF OwnResult, RightKind, NoProtocolError, Versions, TypeOK, Codes
  <2> QED
    BY <2>2, <2>3, <2>4, <2>5, <2>6, <2>7
<1>8. ASSUME NEW c \in Cpus, RestartFiq(c)
      PROVE  IInv'
  <2> USE <1>8 DEF RestartFiq, std_vars, thread_vars, cpu_vars, ns_vars, api_vars
  <2>1. TypeOK'
    BY DEF TypeOK, Secure, Places
  <2>2. ActiveInside'
    BY <2>1 DEF ActiveInside, Users, Open, TypeOK, Secure, Places
  <2>3. Users'
    BY DEF Users, TypeOK, Secure, Places
  <2>4. Resumes' /\ Call'
    BY DEF Resumes, Call, Open, TypeOK, Secure, Places
  <2>5. Wants'
    BY DEF Wants, Open, Users, TypeOK
  <2>6. Expects'
    BY DEF Expects, Users, TypeOK
  <2>7. OwnResult' /\ RightKind' /\ NoProtocolError' /\ Versions'
    BY DEF OwnResult, RightKind, NoProtocolError, Versions, TypeOK, Secure
  <2> QED
    BY <2>2, <2>3, <2>4, <2>5, <2>6, <2>7
<1>9. ASSUME NEW w \in Callers, Decide(w)
      PROVE  IInv'
  <2> USE <1>9 DEF Decide, std_vars, thread_vars, cpu_vars, ns_vars, api_vars
  <2>1. TypeOK'
    BY DEF TypeOK, Secure, Places
  <2>2. ActiveInside'
    BY <2>1 DEF ActiveInside, Users, Open, TypeOK, Secure, Places
  <2>3. Users'
    BY DEF Users, TypeOK, Secure, Places
  <2>4. Resumes' /\ Call'
    BY DEF Resumes, Call, Open, TypeOK, Secure, Places
  <2>5. Wants'
    BY DEF Wants, Open, Users, TypeOK
  <2>6. Expects'
    BY DEF Expects, Users, TypeOK
  <2>7. OwnResult' /\ RightKind' /\ NoProtocolError' /\ Versions'
    BY DEF OwnResult, RightKind, NoProtocolError, Versions, TypeOK, Codes
  <2> QED
    BY <2>2, <2>3, <2>4, <2>5, <2>6, <2>7
<1>10. ASSUME NEW w \in Callers, NEW c \in Cpus, sm_queue_stdcall(w, c)
       PROVE  IInv'
  <2> DEFINE code == QueueRet(want[w])
  <2>1. /\ at[c] = "ns" /\ want[w] \in {"call", "restart"}
        /\ UNCHANGED api_vars
    BY <1>10 DEF sm_queue_stdcall, api_vars
  <2>2. code \in {"ok", "BUSY"}
    BY <2>1 DEF QueueRet, Wants, Open
  <2>3. CASE code = "BUSY"
    <3>1. Reply(w, "BUSY") /\ UNCHANGED <<std_vars, thread_vars, cpu_vars>>
      BY <1>10, <2>3 DEF sm_queue_stdcall
    <3>2. UNCHANGED <<std_vars, thread_vars, cpu_vars, api_vars>>
      BY <2>1, <3>1 DEF api_vars
    <3> QED
      BY <2>1, <2>2, <3>1, <3>2, RefusedIInv
  <2>4. CASE code = "ok" /\ want[w] = "restart"
    <3>1. /\ restarts' = TRUE /\ active' = c /\ Enter(w, c)
          /\ UNCHANGED <<event, done, args, ret, thread_vars>>
      BY <1>10, <2>4 DEF sm_queue_stdcall
    <3>2. kind[w] = "call" /\ active = None /\ Open /\ args = w
      BY <2>4 DEF Wants
    <3>3. Call' /\ Open' /\ args' = args
      BY <3>1, <3>2 DEF Call, Open, thread_vars
    <3>4. /\ restarts' \in BOOLEAN /\ event' \in BOOLEAN /\ done' \in BOOLEAN
          /\ ret' \in Callers \cup {None, "INTERNAL_FAILURE"}
          /\ sc' \in {"wait", "ready", "run", "blocked"} /\ on' = on
      BY <3>1 DEF TypeOK, thread_vars
    <3> QED
      BY <2>1, <3>1, <3>2, <3>3, <3>4, EnterIInv
  <2>5. CASE code = "ok" /\ want[w] = "call"
    <3>1. ~event /\ ~done
      BY <2>5 DEF QueueRet
    <3>2. /\ ret' = "INTERNAL_FAILURE" /\ args' = w /\ restarts' = FALSE
          /\ event' = TRUE /\ active' = c /\ Enter(w, c)
          /\ sc' = IF sc = "wait" THEN "ready" ELSE sc
          /\ UNCHANGED <<done, on>>
      BY <1>10, <2>5 DEF sm_queue_stdcall
    <3>3. sc = "wait" /\ active = None /\ kind[w] = "call"
      BY <2>5, <3>1 DEF Call, ActiveInside, Open, Wants
    <3>4. Call' /\ Open' /\ ~Open
      BY <3>1, <3>2, <3>3 DEF Call, Open
    <3>5. /\ restarts' \in BOOLEAN /\ event' \in BOOLEAN /\ done' \in BOOLEAN
          /\ sc' \in {"wait", "ready", "run", "blocked"}
      BY <3>2, <3>3 DEF TypeOK
    <3> QED
      BY <2>1, <3>2, <3>3, <3>4, <3>5, EnterIInv
  <2> QED
    BY <2>1, <2>2, <2>3, <2>4, <2>5
<1>11. ASSUME NEW w \in Callers, NEW c \in Cpus, Nop(w, c)
       PROVE  IInv'
  <2> USE <1>11 DEF Nop, std_vars, thread_vars, api_vars, cpu_vars
  <2>1. kind[w] = "nop" /\ want[w] = "nop" /\ at[c] = "ns"
    BY DEF Wants
  <2>2. CASE Enter(w, c)
    <3>1. Call' /\ UNCHANGED <<event, done, args, active>> /\ Open' = Open
      BY DEF Call, Open
    <3>2. /\ restarts' \in BOOLEAN /\ event' \in BOOLEAN /\ done' \in BOOLEAN
          /\ ret' \in Callers \cup {None, "INTERNAL_FAILURE"}
          /\ sc' \in {"wait", "ready", "run", "blocked"} /\ on' = on
          /\ UNCHANGED api_vars
      BY DEF TypeOK
    <3> QED
      BY <2>1, <2>2, <3>1, <3>2, EnterIInv
  <2>3. CASE Reply(w, "ERROR") /\ UNCHANGED cpu_vars
    BY <2>1, <2>3, RefusedIInv
  <2> QED
    BY <2>2, <2>3
<1>12. ASSUME NEW v \in Requests, smc_sm_api_version(v)
      PROVE  IInv'
  <2> USE <1>12 DEF smc_sm_api_version, std_vars, thread_vars, cpu_vars, ns_vars, api_vars
  <2>1. TypeOK'
    BY DEF TypeOK, Secure, Places
  <2>2. ActiveInside'
    BY <2>1 DEF ActiveInside, Users, Open
  <2>3. Users'
    BY DEF Users
  <2>4. Resumes' /\ Call'
    BY DEF Resumes, Call, Open
  <2>5. Wants'
    BY DEF Wants, Open, Users
  <2>6. Expects'
    BY DEF Expects, Users
  <2>7. OwnResult' /\ RightKind' /\ NoProtocolError' /\ Versions'
    BY DEF OwnResult, RightKind, NoProtocolError, Versions
  <2> QED
    BY <2>2, <2>3, <2>4, <2>5, <2>6, <2>7
<1>13. CASE ScBlock \/ ScWake
  <2> USE <1>13 DEF ScBlock, ScWake, std_vars, thread_vars, cpu_vars, ns_vars, api_vars
  <2>1. TypeOK'
    BY DEF TypeOK, Secure, Places
  <2>2. ActiveInside'
    BY <2>1 DEF ActiveInside, Users, Open
  <2>3. Users'
    BY DEF Users
  <2>4. Resumes' /\ Call'
    BY DEF Resumes, Call, Open
  <2>5. Wants'
    BY DEF Wants, Open, Users
  <2>6. Expects'
    BY DEF Expects, Users
  <2>7. OwnResult' /\ RightKind' /\ NoProtocolError' /\ Versions'
    BY DEF OwnResult, RightKind, NoProtocolError, Versions
  <2> QED
    BY <2>2, <2>3, <2>4, <2>5, <2>6, <2>7
<1>14. CASE sm_stdcall_loop
  <2> USE <1>14 DEF sm_stdcall_loop, std_vars, thread_vars, cpu_vars, ns_vars, api_vars
  <2>1. TypeOK'
    BY DEF TypeOK, Secure, Places
  <2>2. ActiveInside'
    BY <2>1 DEF ActiveInside, Users, Open
  <2>3. Users'
    BY DEF Users
  <2>4. Resumes' /\ Call'
    BY DEF Resumes, Call, Open
  <2>5. Wants'
    BY DEF Wants, Open, Users
  <2>6. Expects'
    BY DEF Expects, Users
  <2>7. OwnResult' /\ RightKind' /\ NoProtocolError' /\ Versions'
    BY DEF OwnResult, RightKind, NoProtocolError, Versions
  <2> QED
    BY <2>2, <2>3, <2>4, <2>5, <2>6, <2>7
<1>15. CASE UNCHANGED vars
  <2> USE <1>15 DEF vars, std_vars, thread_vars, cpu_vars, ns_vars, api_vars
  <2>1. TypeOK'
    BY DEF TypeOK, Secure, Places
  <2>2. ActiveInside'
    BY <2>1 DEF ActiveInside, Users, Open
  <2>3. Users'
    BY DEF Users
  <2>4. Resumes' /\ Call'
    BY DEF Resumes, Call, Open
  <2>5. Wants'
    BY DEF Wants, Open, Users
  <2>6. Expects'
    BY DEF Expects, Users
  <2>7. OwnResult' /\ RightKind' /\ NoProtocolError' /\ Versions'
    BY DEF OwnResult, RightKind, NoProtocolError, Versions
  <2> QED
    BY <2>2, <2>3, <2>4, <2>5, <2>6, <2>7
<1>16. ASSUME NEW c \in Cpus, FiqReturn(c)
      PROVE  IInv'
  <2> USE <1>16 DEF FiqReturn, ReadVersion, std_vars, thread_vars, cpu_vars, ns_vars, api_vars
  <2>1. TypeOK'
    BY DEF TypeOK, Secure, Places
  <2>2. ActiveInside'
    BY <2>1 DEF ActiveInside, Users, Open, TypeOK, Secure, Places
  <2>3. Users'
    BY DEF Users, TypeOK, Secure, Places
  <2>4. Resumes' /\ Call'
    BY DEF Resumes, Call, Open, TypeOK, Secure, Places
  <2>5. Wants'
    BY DEF Wants, Open, Users, TypeOK
  <2>6. Expects'
    BY DEF Expects, Users, TypeOK
  <2>7. OwnResult' /\ RightKind' /\ NoProtocolError' /\ Versions'
    BY DEF OwnResult, RightKind, NoProtocolError, Versions, TypeOK, Codes
  <2> QED
    BY <2>2, <2>3, <2>4, <2>5, <2>6, <2>7
<1>17. CASE VersionAnswer
  <2> USE <1>17 DEF VersionAnswer, std_vars, thread_vars, cpu_vars, ns_vars, api_vars
  <2>1. TypeOK'
    BY DEF TypeOK, Secure, Places
  <2>2. ActiveInside'
    BY <2>1 DEF ActiveInside, Users, Open
  <2>3. Users'
    BY DEF Users
  <2>4. Resumes' /\ Call'
    BY DEF Resumes, Call, Open
  <2>5. Wants'
    BY DEF Wants, Open, Users
  <2>6. Expects'
    BY DEF Expects, Users
  <2>7. OwnResult' /\ RightKind' /\ NoProtocolError' /\ Versions'
    BY DEF OwnResult, RightKind, NoProtocolError, Versions
  <2> QED
    BY <2>2, <2>3, <2>4, <2>5, <2>6, <2>7
<1> QED
  BY <1>1, <1>2, <1>3, <1>4, <1>5, <1>6, <1>7, <1>8, <1>9, <1>10, <1>11, <1>12,
     <1>13, <1>14, <1>15, <1>16, <1>17 DEF Next, CpuStep

-----------------------------------------------------------------------------
(* The inductive invariant holds in every reachable state. *)
THEOREM IInvHolds == Spec => []IInv
<1>1. Init => IInv
  BY InitIInv
<1>2. IInv /\ [Next]_vars => IInv'
  BY StepIInv
<1> QED
  BY <1>1, <1>2, PTL DEF Spec

(* The result of a standard call is returned to the caller that made it:   *)
(* sm_queue_stdcall refuses every other one until it was fetched.          *)
THEOREM ResultsReachCaller == Spec => []OwnResult
<1>1. IInv => OwnResult
  BY DEF IInv
<1> QED
  BY <1>1, IInvHolds, PTL

(* Nops and standard calls never see each other's return values, whatever  *)
(* interrupt or FIQ made a CPU return.                                     *)
THEOREM KindsKeptApart == Spec => []RightKind
<1>1. IInv => RightKind
  BY DEF IInv
<1> QED
  BY <1>1, IInvHolds, PTL

(* Type correctness, and active_cpu always names a CPU that is inside for  *)
(* the call that is open.                                                  *)
THEOREM ActiveCpuIsInside == Spec => []ActiveInside
<1>1. IInv => ActiveInside
  BY DEF IInv
<1> QED
  BY <1>1, IInvHolds, PTL

(* The look at active_cpu without the lock (sm_wait_for_smcall) is never   *)
(* stale when sm_get_stdcall_ret takes the lock, and a restart never finds *)
(* its call gone.                                                          *)
THEOREM UnlockedCheckIsSafe == Spec => []NoProtocolError
<1>1. IInv => NoProtocolError
  BY DEF IInv
<1> QED
  BY <1>1, IInvHolds, PTL

(* Every look at the version, for an unfinished call or for a FIQ, finds   *)
(* the same one, whatever the normal world asks for meanwhile, and it is   *)
(* the one that the normal world was told.                                 *)
THEOREM OneVersionIsUsed == Spec => []OneVersion
<1>1. IInv => OneVersion
  BY DEF IInv, Versions, OneVersion
<1> QED
  BY <1>1, IInvHolds, PTL
=============================================================================
