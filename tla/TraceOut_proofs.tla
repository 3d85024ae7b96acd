----------------------------- MODULE TraceOut_proofs -----------------------------
(***************************************************************************)
(* Proofs about recording and dumping the trace buffer, for every size of  *)
(* the buffer and of the chunks.  They say which priorities of the two     *)
(* interrupts each result needs: the dump is the buffer byte for byte      *)
(* unless the completion interrupt preempts the request, and nothing is    *)
(* traced meanwhile unless the request preempts the completion interrupt.  *)
(***************************************************************************)
EXTENDS TraceOut, SequenceTheorems, TLAPS

-------------------------------------------------------------------------------
(* Pushing a context and popping it again.                                 *)
LEMMA PushPop ==
  ASSUME NEW s \in Seq(Contexts), NEW c \in Contexts
  PROVE  /\ Append(s, c) \in Seq(Contexts)
         /\ Last(Append(s, c)) = c
         /\ Front(Append(s, c)) = s
         /\ \A d : Contains(Append(s, c), d) <=> Contains(s, d) \/ d = c
  <1> DEFINE t == Append(s, c)
             f == SubSeq(t, 1, Len(t) - 1)
  <1>1. /\ t \in Seq(Contexts) /\ Len(t) = Len(s) + 1 /\ Len(s) \in Nat
        /\ \A i \in 1 .. Len(s) : t[i] = s[i]
        /\ t[Len(s) + 1] = c
    BY AppendProperties, LenProperties
  <1>2. \A i \in 1 .. Len(t) - 1 : t[i] \in Contexts
    BY <1>1, ElementOfSeq
  <1> HIDE DEF t
  <1>3. /\ f \in Seq(Contexts) /\ Len(f) = Len(s)
        /\ \A i \in 1 .. Len(s) : f[i] = t[i]
    <2>1. Len(t) - 1 = Len(s)
      BY <1>1
    <2>2. /\ SubSeq(t, 1, Len(s)) \in Seq(Contexts)
          /\ Len(SubSeq(t, 1, Len(s))) = IF 1 <= Len(s) THEN Len(s) - 1 + 1 ELSE 0
          /\ \A i \in 1 .. Len(s) - 1 + 1 : SubSeq(t, 1, Len(s))[i] = t[1 + i - 1]
      BY <1>1, <1>2, <2>1, SubSeqProperties
    <2> QED
      BY <1>1, <2>1, <2>2
  <1>4. f = s
    BY <1>1, <1>3, SeqEqual
  <1>5. Last(t) = c /\ Front(t) = s
    BY <1>1, <1>4 DEF Last, Front
  <1>6. \A d : Contains(t, d) <=> Contains(s, d) \/ d = c
    <2>1. \A i \in 1 .. Len(t) : i \in 1 .. Len(s) \/ i = Len(s) + 1
      BY <1>1
    <2>2. \A i \in 1 .. Len(s) : i \in 1 .. Len(t)
      BY <1>1
    <2>3. Len(s) + 1 \in 1 .. Len(t)
      BY <1>1
    <2> QED
      BY <1>1, <2>1, <2>2, <2>3 DEF Contains
  <1> QED
    BY <1>1, <1>5, <1>6 DEF t

(* The stacks that occur: an interrupt on the thread, or on the other one. *)
OnThread == <<"thread">>
OnTop(c) == Append(OnThread, c)
OnBoth(c, d) == Append(OnTop(c), d)

LEMMA StackOps ==
  ASSUME NEW c \in Contexts, NEW d \in Contexts
  PROVE  /\ Last(OnThread) = "thread" /\ Last(OnTop(c)) = c /\ Last(OnBoth(c, d)) = d
         /\ Front(OnTop(c)) = OnThread /\ Front(OnBoth(c, d)) = OnTop(c)
         /\ \A e : Contains(OnThread, e) <=> e = "thread"
         /\ \A e : Contains(OnTop(c), e) <=> e \in {"thread", c}
         /\ \A e : Contains(OnBoth(c, d), e) <=> e \in {"thread", c, d}
  <1>1. OnThread \in Seq(Contexts)
    BY DEF OnThread, Contexts
  <1>2. OnTop(c) \in Seq(Contexts)
    BY <1>1, PushPop DEF OnTop
  <1>3. Last(OnThread) = "thread" /\ \A e : Contains(OnThread, e) <=> e = "thread"
    BY DEF OnThread, Last, Contains
  <1>4. /\ Last(OnTop(c)) = c /\ Front(OnTop(c)) = OnThread
        /\ \A e : Contains(OnTop(c), e) <=> e \in {"thread", c}
    BY <1>1, <1>3, PushPop DEF OnTop
  <1>5. /\ Last(OnBoth(c, d)) = d /\ Front(OnBoth(c, d)) = OnTop(c)
        /\ \A e : Contains(OnBoth(c, d), e) <=> e \in {"thread", c, d}
    BY <1>2, <1>4, PushPop DEF OnBoth
  <1> QED
    BY <1>3, <1>4, <1>5

-------------------------------------------------------------------------------
Interrupts == {"trigger", "complete"}
ThreadLabels == {"idle", "enable", "started", "disable", "stopped"}
CompleteLabels == {"idle", "chunk", "account", "restart", "enable", "started"}
Labels == ThreadLabels \cup CompleteLabels \cup {"load"}

(* Whatever the priorities: which contexts have begun, and where they are. *)
StackInv ==
  /\ \/ stack = OnThread
     \/ \E c \in Interrupts : stack = OnTop(c)
     \/ stack = OnBoth("trigger", "complete") /\ HigherPriority = "complete"
     \/ stack = OnBoth("complete", "trigger") /\ HigherPriority = "trigger"
  /\ pc \in [Contexts -> Labels]
  /\ pc["thread"] \in ThreadLabels
  /\ pc["complete"] \in CompleteLabels
  /\ \A c \in Interrupts : pc[c] # "idle" <=> Contains(stack, c)

(* A step of context c to a label; the other contexts stay where they are. *)
Moved(c, label) ==
  /\ pc'[c] = label
  /\ \A d \in Contexts : d # c => pc'[d] = pc[d]

LEMMA RunningContext ==
  ASSUME StackInv
  PROVE  /\ Running \in Contexts
         /\ Running # "thread" => pc[Running] # "idle"
         /\ Running = "thread" => stack = OnThread /\ \A c \in Interrupts : pc[c] = "idle"
  <1>1. CASE stack = OnThread
    BY <1>1, StackOps DEF StackInv, Running, Contexts, Interrupts
  <1>2. ASSUME NEW c \in Interrupts, stack = OnTop(c)
        PROVE  Running = c /\ Contains(stack, c)
    BY <1>2, StackOps DEF Running, Contexts, Interrupts
  <1>3. ASSUME NEW c \in Interrupts, NEW d \in Interrupts, stack = OnBoth(c, d)
        PROVE  Running = d /\ Contains(stack, d)
    BY <1>3, StackOps DEF Running, Contexts, Interrupts
  <1> QED
    BY <1>1, <1>2, <1>3 DEF StackInv, Contexts, Interrupts

LEMMA GotoShape ==
  ASSUME StackInv, NEW label \in Labels, Goto(label),
         pc[Running] # "idle" \/ Running = "thread",
         Running = "thread" => label \in ThreadLabels,
         Running = "complete" => label \in CompleteLabels
  PROVE  StackInv' /\ Moved(Running, label)
  <1>1. Running \in Contexts /\ pc' = [pc EXCEPT ![Running] = label]
    BY RunningContext DEF Goto
  <1>2. Moved(Running, label)
    BY <1>1 DEF StackInv, Moved
  <1>3. /\ pc' \in [Contexts -> Labels]
        /\ pc'["thread"] \in ThreadLabels /\ pc'["complete"] \in CompleteLabels
    BY <1>1, <1>2 DEF StackInv, Moved, Contexts
  <1>4. CASE label # "idle" \/ Running = "thread"
    <2>1. stack' = stack
      BY <1>4 DEF Goto
    <2>2. \A c \in Interrupts : pc'[c] # "idle" <=> Contains(stack', c)
      BY <1>2, <1>4, <2>1 DEF StackInv, Moved, Interrupts, Contexts
    <2>3. \/ stack' = OnThread
          \/ \E c \in Interrupts : stack' = OnTop(c)
          \/ stack' = OnBoth("trigger", "complete") /\ HigherPriority = "complete"
          \/ stack' = OnBoth("complete", "trigger") /\ HigherPriority = "trigger"
      BY <2>1 DEF StackInv
    <2> QED
      BY <1>2, <1>3, <2>2, <2>3 DEF StackInv
  <1>5. CASE label = "idle" /\ Running # "thread"
    <2>1. stack' = Front(stack)
      BY <1>5 DEF Goto
    <2>2. ASSUME NEW c \in Interrupts, stack = OnTop(c)
          PROVE  StackInv'
      <3>1. Running = c /\ stack' = OnThread
        BY <2>1, <2>2, StackOps DEF Running, Contexts, Interrupts
      <3>2. \A d \in Interrupts : d # c => pc[d] = "idle"
        BY <2>2, StackOps DEF StackInv, Contexts, Interrupts
      <3>3. \A d \in Interrupts : pc'[d] # "idle" <=> Contains(stack', d)
        BY <1>2, <1>5, <3>1, <3>2, StackOps DEF Moved, Interrupts, Contexts
      <3> QED
        BY <1>3, <3>1, <3>3 DEF StackInv
    <2>3. ASSUME NEW c \in Interrupts, NEW d \in Interrupts, c # d, stack = OnBoth(c, d)
          PROVE  StackInv'
      <3>1. Running = d /\ stack' = OnTop(c)
        BY <2>1, <2>3, StackOps DEF Running, Contexts, Interrupts
      <3>2. pc[c] # "idle"
        BY <2>3, StackOps DEF StackInv, Contexts, Interrupts
      <3>3. \A e \in Interrupts : pc'[e] # "idle" <=> Contains(stack', e)
        BY <1>2, <1>5, <2>3, <3>1, <3>2, StackOps DEF Moved, Interrupts, Contexts
      <3> QED
        BY <1>3, <3>1, <3>3 DEF StackInv
    <2>4. stack # OnThread
      BY <1>5, StackOps DEF Running, Contexts
    <2>5. StackInv'
      BY <2>2, <2>3, <2>4 DEF StackInv, Interrupts
    <2> QED
      BY <1>2, <2>5
  <1> QED
    BY <1>2, <1>4, <1>5

LEMMA EnterShape ==
  ASSUME StackInv, NEW c \in Interrupts, MayInterrupt(c),
         NEW label \in Labels \ {"idle"}, Enter(c, label),
         c = "complete" => label \in CompleteLabels
  PROVE  /\ StackInv' /\ Moved(c, label) /\ pc[c] = "idle"
         /\ \/ Running = "thread"
            \/ HigherPriority = c /\ Running # c /\ pc[Running] # "idle"
  <1>1. pc' = [pc EXCEPT ![c] = label] /\ stack' = Append(stack, c)
    BY DEF Enter
  <1>2. Moved(c, label)
    BY <1>1 DEF StackInv, Moved, Interrupts, Contexts
  <1>3. /\ pc' \in [Contexts -> Labels]
        /\ pc'["thread"] \in ThreadLabels /\ pc'["complete"] \in CompleteLabels
    BY <1>1, <1>2 DEF StackInv, Moved, Contexts, Interrupts
  <1>4. CASE Running = "thread"
    <2>1. stack = OnThread /\ \A d \in Interrupts : pc[d] = "idle"
      BY <1>4, RunningContext
    <2>2. stack' = OnTop(c)
      BY <1>1, <2>1 DEF OnTop
    <2>3. \A d \in Interrupts : pc'[d] # "idle" <=> Contains(stack', d)
      BY <1>2, <2>1, <2>2, StackOps DEF Moved, Interrupts, Contexts
    <2> QED
      BY <1>2, <1>3, <1>4, <2>1, <2>2, <2>3 DEF StackInv
  <1>5. CASE Running # "thread"
    <2>1. HigherPriority = c /\ ~Contains(stack, c)
      BY <1>5 DEF MayInterrupt
    <2>2. PICK d \in Interrupts : stack = OnTop(d) /\ d # c
      <3>1. stack # OnThread
        BY <1>5, StackOps DEF Running, Contexts
      <3>2. \A d, e \in Interrupts : d # e => stack # OnBoth(d, e)
        BY <2>1, StackOps DEF Contexts, Interrupts
      <3>3. PICK d \in Interrupts : stack = OnTop(d)
        BY <3>1, <3>2 DEF StackInv, Interrupts
      <3>4. Contains(stack, d)
        BY <3>3, StackOps DEF Contexts, Interrupts
      <3> QED
        BY <2>1, <3>3, <3>4
    <2>3. stack' = OnBoth(d, c) /\ Running = d
      BY <1>1, <2>2, StackOps DEF OnBoth, Running, Contexts, Interrupts
    <2>4. pc[c] = "idle" /\ pc[d] # "idle"
      BY <2>1, <2>2, StackOps DEF StackInv, Contexts, Interrupts
    <2>5. \A e \in Interrupts : pc'[e] # "idle" <=> Contains(stack', e)
      BY <1>2, <2>2, <2>3, <2>4, StackOps DEF Moved, Interrupts, Contexts
    <2>6. StackInv'
      BY <1>3, <2>1, <2>2, <2>3, <2>5 DEF StackInv, Interrupts
    <2> QED
      BY <1>2, <2>1, <2>2, <2>3, <2>4, <2>6
  <1> QED
    BY <1>4, <1>5

(* Where each step of the running context takes it.                        *)
LEMMA StepShape ==
  ASSUME StackInv
  PROVE  /\ Enable => StackInv' /\ Moved(Running, "started")
         /\ Started => StackInv' /\ Moved(Running, "idle")
         /\ Disable => StackInv' /\ Moved(Running, "stopped") /\ Running # "complete"
         /\ Stopped => /\ StackInv' /\ Running # "complete"
                       /\ Moved(Running, IF Running = "trigger" THEN "load" ELSE "idle")
         /\ Load => StackInv' /\ Moved(Running, "chunk") /\ Running = "trigger"
         /\ Finish => StackInv' /\ Moved(Running, "restart") /\ Running \in Interrupts
         /\ Restart => StackInv' /\ Moved(Running, StartLabel) /\ Running \in Interrupts
         /\ Transmit => StackInv' /\ Moved(Running, "account") /\ Running \in Interrupts
         /\ Account => StackInv' /\ Moved(Running, "idle") /\ Running \in Interrupts
         /\ ThreadStart => StackInv' /\ Moved(Running, "enable") /\ Running = "thread"
         /\ ThreadStop => StackInv' /\ Moved(Running, "disable") /\ Running = "thread"
  <1> USE DEF At
  <1>1. /\ Running \in Contexts
        /\ Running = "thread" => pc[Running] \in ThreadLabels
        /\ Running = "complete" => pc[Running] \in CompleteLabels
    BY RunningContext DEF StackInv
  <1>2. /\ "started" \in ThreadLabels \cap CompleteLabels \cap Labels
        /\ "enable" \in ThreadLabels \cap CompleteLabels \cap Labels
        /\ "idle" \in ThreadLabels \cap CompleteLabels \cap Labels
        /\ "disable" \in ThreadLabels \cap Labels /\ "disable" \notin CompleteLabels
        /\ "stopped" \in ThreadLabels \cap Labels /\ "stopped" \notin CompleteLabels
        /\ "load" \in Labels /\ "load" \notin ThreadLabels /\ "load" \notin CompleteLabels
        /\ "chunk" \in CompleteLabels \cap Labels /\ "chunk" \notin ThreadLabels
        /\ "account" \in CompleteLabels \cap Labels /\ "account" \notin ThreadLabels
        /\ "restart" \in CompleteLabels \cap Labels /\ "restart" \notin ThreadLabels
    BY DEF ThreadLabels, CompleteLabels, Labels
  <1> HIDE DEF At
  <1>3. ASSUME Enable PROVE StackInv' /\ Moved(Running, "started")
    <2>1. pc[Running] = "enable" /\ Goto("started")
      BY <1>3 DEF Enable, At
    <2> QED
      BY <1>2, <2>1, GotoShape
  <1>4. ASSUME Started PROVE StackInv' /\ Moved(Running, "idle")
    <2>1. pc[Running] = "started" /\ Goto("idle")
      BY <1>4 DEF Started, At
    <2> QED
      BY <1>2, <2>1, GotoShape
  <1>5. ASSUME Disable PROVE StackInv' /\ Moved(Running, "stopped") /\ Running # "complete"
    <2>1. pc[Running] = "disable" /\ Goto("stopped")
      BY <1>5 DEF Disable, At
    <2> QED
      BY <1>1, <1>2, <2>1, GotoShape
  <1>6. ASSUME Stopped
        PROVE  /\ StackInv' /\ Running # "complete"
               /\ Moved(Running, IF Running = "trigger" THEN "load" ELSE "idle")
    <2> DEFINE label == IF Running = "trigger" THEN "load" ELSE "idle"
    <2>1. pc[Running] = "stopped" /\ Goto(label)
      BY <1>6 DEF Stopped, At
    <2>2. Running # "complete"
      BY <1>1, <1>2, <2>1
    <2>3. label \in Labels /\ (Running = "thread" => label \in ThreadLabels)
      BY <1>2
    <2> HIDE DEF label
    <2>4. StackInv' /\ Moved(Running, label)
      BY <2>1, <2>2, <2>3, GotoShape
    <2> QED
      BY <2>2, <2>4 DEF label
  <1>7. ASSUME Load PROVE StackInv' /\ Moved(Running, "chunk") /\ Running = "trigger"
    <2>1. pc[Running] = "load" /\ Goto("chunk")
      BY <1>7 DEF Load, At
    <2>2. Running = "trigger"
      BY <1>1, <1>2, <2>1 DEF Contexts
    <2> QED
      BY <1>2, <2>1, <2>2, GotoShape
  <1>8. ASSUME Finish PROVE StackInv' /\ Moved(Running, "restart") /\ Running \in Interrupts
    <2>1. pc[Running] = "chunk" /\ Goto("restart")
      BY <1>8 DEF Finish, At
    <2>2. Running \in Interrupts
      BY <1>1, <1>2, <2>1 DEF Contexts, Interrupts
    <2> QED
      BY <1>2, <2>1, <2>2, GotoShape DEF Interrupts
  <1>9. ASSUME Restart PROVE StackInv' /\ Moved(Running, StartLabel) /\ Running \in Interrupts
    <2>1. pc[Running] = "restart" /\ Goto(StartLabel)
      BY <1>9 DEF Restart, At
    <2>2. Running \in Interrupts
      BY <1>1, <1>2, <2>1 DEF Contexts, Interrupts
    <2>3. StartLabel \in ThreadLabels \cap CompleteLabels \cap Labels
      BY <1>2 DEF StartLabel
    <2> QED
      BY <1>2, <2>1, <2>2, <2>3, GotoShape DEF Interrupts
  <1>10. ASSUME Transmit PROVE StackInv' /\ Moved(Running, "account") /\ Running \in Interrupts
    <2>1. pc[Running] = "chunk" /\ Goto("account")
      BY <1>10 DEF Transmit, At
    <2>2. Running \in Interrupts
      BY <1>1, <1>2, <2>1 DEF Contexts, Interrupts
    <2> QED
      BY <1>2, <2>1, <2>2, GotoShape DEF Interrupts
  <1>11. ASSUME Account PROVE StackInv' /\ Moved(Running, "idle") /\ Running \in Interrupts
    <2>1. pc[Running] = "account" /\ Goto("idle")
      BY <1>11 DEF Account, At
    <2>2. Running \in Interrupts
      BY <1>1, <1>2, <2>1 DEF Contexts, Interrupts
    <2> QED
      BY <1>2, <2>1, <2>2, GotoShape DEF Interrupts
  <1>12. ASSUME ThreadStart PROVE StackInv' /\ Moved(Running, "enable") /\ Running = "thread"
    <2>1. Running = "thread" /\ Goto("enable")
      BY <1>12 DEF ThreadStart, ThreadIdle, StartLabel
    <2> QED
      BY <1>2, <2>1, GotoShape
  <1>13. ASSUME ThreadStop PROVE StackInv' /\ Moved(Running, "disable") /\ Running = "thread"
    <2>1. Running = "thread" /\ Goto("disable")
      BY <1>13 DEF ThreadStop, ThreadIdle
    <2> QED
      BY <1>2, <2>1, GotoShape
  <1> QED
    BY <1>3, <1>4, <1>5, <1>6, <1>7, <1>8, <1>9, <1>10, <1>11, <1>12, <1>13

(* Where the interrupts begin.                                             *)
LEMMA InterruptShape ==
  ASSUME StackInv
  PROVE  /\ Trigger => /\ StackInv' /\ pc["trigger"] = "idle"
                       /\ Moved("trigger", IF s_tracex_started THEN "disable" ELSE "load")
                       /\ \/ Running = "thread"
                          \/ /\ HigherPriority = "trigger" /\ Running # "trigger"
                             /\ pc[Running] # "idle"
         /\ TxComplete /\ s_output_active =>
                       /\ StackInv' /\ Moved("complete", "chunk") /\ pc["complete"] = "idle"
                       /\ \/ Running = "thread"
                          \/ /\ HigherPriority = "complete" /\ Running # "complete"
                             /\ pc[Running] # "idle"
  <1>1. /\ "disable" \in Labels \ {"idle"} /\ "load" \in Labels \ {"idle"}
        /\ "chunk" \in Labels \ {"idle"} /\ "chunk" \in CompleteLabels
        /\ "trigger" \in Interrupts /\ "complete" \in Interrupts
    BY DEF Labels, ThreadLabels, CompleteLabels, Interrupts
  <1>2. ASSUME Trigger
        PROVE  /\ StackInv' /\ pc["trigger"] = "idle"
               /\ Moved("trigger", IF s_tracex_started THEN "disable" ELSE "load")
               /\ \/ Running = "thread"
                  \/ /\ HigherPriority = "trigger" /\ Running # "trigger"
                     /\ pc[Running] # "idle"
    <2> DEFINE label == IF s_tracex_started THEN "disable" ELSE "load"
    <2>1. MayInterrupt("trigger") /\ Enter("trigger", label)
      BY <1>2 DEF Trigger
    <2>2. label \in Labels \ {"idle"}
      BY <1>1
    <2> HIDE DEF label
    <2>3. /\ StackInv' /\ Moved("trigger", label) /\ pc["trigger"] = "idle"
          /\ \/ Running = "thread"
             \/ HigherPriority = "trigger" /\ Running # "trigger" /\ pc[Running] # "idle"
      BY <1>1, <2>1, <2>2, EnterShape
    <2> QED
      BY <2>3 DEF label
  <1>3. ASSUME TxComplete, s_output_active
        PROVE  /\ StackInv' /\ Moved("complete", "chunk") /\ pc["complete"] = "idle"
               /\ \/ Running = "thread"
                  \/ /\ HigherPriority = "complete" /\ Running # "complete"
                     /\ pc[Running] # "idle"
    <2>1. MayInterrupt("complete") /\ Enter("complete", "chunk")
      BY <1>3 DEF TxComplete
    <2> QED
      BY <1>1, <2>1, EnterShape
  <1> QED
    BY <1>2, <1>3

LEMMA StackInit == Init => StackInv
  <1> SUFFICES ASSUME Init PROVE StackInv
    OBVIOUS
  <1>1. stack = OnThread /\ pc = [c \in Contexts |-> "idle"]
    BY DEF Init, OnThread
  <1> QED
    BY <1>1, StackOps DEF StackInv, Contexts, Interrupts, Labels, ThreadLabels, CompleteLabels

LEMMA StackStep == StackInv /\ [Next]_vars => StackInv'
  <1> SUFFICES ASSUME StackInv, [Next]_vars PROVE StackInv'
    OBVIOUS
  <1>1. CASE UNCHANGED <<stack, pc>>
    BY <1>1 DEF StackInv
  <1>2. CASE Step \/ ThreadStart \/ ThreadStop
    BY <1>2, StepShape DEF Step
  <1>3. CASE Trigger \/ TxComplete
    BY <1>1, <1>3, InterruptShape DEF TxComplete
  <1> QED
    BY <1>1, <1>2, <1>3 DEF Next, Call, tracex_init, traceout_init, vars

-------------------------------------------------------------------------------
(* Without a request that preempts the completion interrupt, and with      *)
(* threads that leave tracing alone once dumps are armed: while a dump is  *)
(* under way recording is off, both its flag and in ThreadX; only the end  *)
(* of the dump, in the completion interrupt, switches it on again.         *)
TraceInv ==
  /\ StackInv
  /\ s_tx_fn => pc["thread"] = "idle" /\ s_trace_size # 0
  /\ s_output_active \/ pc["trigger"] # "idle" \/ pc["complete"] # "idle" => s_tx_fn
  /\ in_flight => s_output_active
  /\ s_output_active => ~tracing /\ ~s_tracex_started
  /\ tracing => s_tracex_started \/ \E c \in Contexts : pc[c] = "started"
  /\ pc["trigger"] \in {"disable", "stopped", "load"} =>
       ~s_output_active /\ pc["complete"] = "idle"
  /\ pc["thread"] = "stopped" \/ pc["trigger"] = "stopped" => ~tracing
  /\ pc["trigger"] = "load" => ~tracing /\ ~s_tracex_started
  /\ pc["trigger"] = "chunk" => s_output_active /\ ~in_flight /\ s_remaining # 0
  /\ pc["trigger"] \notin {"restart", "enable", "started"}
  /\ pc["trigger"] # "idle" /\ pc["complete"] # "idle" => pc["trigger"] = "account"
  /\ pc["complete"] = "chunk" => s_output_active /\ ~in_flight
  /\ pc["complete"] = "account" => s_output_active
  /\ pc["complete"] \in {"restart", "enable", "started"} => ~s_output_active

LEMMA TraceInit == Init => TraceInv
  <1> SUFFICES ASSUME Init PROVE TraceInv
    OBVIOUS
  <1>1. StackInv
    BY StackInit
  <1>2. /\ s_tx_fn = FALSE /\ s_output_active = FALSE /\ in_flight = FALSE /\ tracing = FALSE
        /\ \A c \in Contexts : pc[c] = "idle"
    BY DEF Init
  <1> QED
    BY <1>1, <1>2 DEF TraceInv, Contexts

LEMMA TraceStep ==
  ASSUME HigherPriority # "trigger", CallsAfterArming = {}
  PROVE  TraceInv /\ [Next]_vars => TraceInv'
  <1> SUFFICES ASSUME TraceInv, [Next]_vars PROVE TraceInv'
    OBVIOUS
  <1> USE DEF Contexts, Interrupts
  <1>1. StackInv /\ StackInv'
    BY StackStep DEF TraceInv
  <1>2. Running \in Contexts
    BY <1>1, RunningContext
  <1>3. CASE UNCHANGED vars
    BY <1>1, <1>3 DEF TraceInv, vars, traceVars, outVars
  <1>4. CASE tracex_init
    BY <1>1, <1>4, RunningContext DEF TraceInv, tracex_init, ThreadIdle, outVars
  <1>5. CASE traceout_init
    BY <1>1, <1>5, RunningContext DEF TraceInv, traceout_init, ThreadIdle, At, traceVars
  <1>6. CASE ThreadStart
    <2>1. ~s_tx_fn /\ pc["thread"] = "idle" /\ UNCHANGED <<traceVars, outVars>>
      BY <1>6 DEF ThreadStart, ThreadIdle, At
    <2>2. Moved("thread", "enable") /\ \A c \in Interrupts : pc[c] = "idle"
      BY <1>1, <1>6, StepShape, RunningContext
    <2> QED
      BY <1>1, <2>1, <2>2 DEF TraceInv, Moved, traceVars, outVars
  <1>7. CASE ThreadStop
    BY <1>1, <1>7, StepShape, RunningContext
      DEF TraceInv, ThreadStop, Moved, traceVars, outVars
  <1>8. CASE Enable
    BY <1>1, <1>2, <1>8, StepShape DEF TraceInv, Enable, At, Moved, outVars
  <1>9. CASE Started
    BY <1>1, <1>2, <1>9, StepShape DEF TraceInv, Started, At, Moved, outVars
  <1>10. CASE Disable
    BY <1>1, <1>2, <1>10, StepShape DEF TraceInv, Disable, At, Moved, outVars
  <1>11. CASE Stopped
    <2>1. /\ pc[Running] = "stopped" /\ ~s_tracex_started'
          /\ UNCHANGED <<s_trace_size, tracing, outVars>>
      BY <1>11 DEF Stopped, At
    <2>2. CASE Running = "thread"
      <3>1. Moved("thread", "idle") /\ \A c \in Interrupts : pc[c] = "idle"
        BY <1>1, <1>11, <2>2, StepShape, RunningContext
      <3>2. ~s_tx_fn
        BY <2>1, <2>2 DEF TraceInv
      <3> QED
        BY <1>1, <2>1, <2>2, <3>1, <3>2 DEF TraceInv, Moved, outVars
    <2>3. CASE Running = "trigger"
      <3>1. Moved("trigger", "load")
        BY <1>1, <1>11, <2>3, StepShape
      <3> QED
        BY <1>1, <2>1, <2>3, <3>1 DEF TraceInv, Moved, outVars
    <2> QED
      BY <1>1, <1>2, <1>11, <2>2, <2>3, StepShape
  <1>12. CASE Load
    BY <1>1, <1>2, <1>12, StepShape DEF TraceInv, Load, At, Moved, traceVars
  <1>13. CASE Finish
    BY <1>1, <1>2, <1>13, StepShape DEF TraceInv, Finish, At, Moved, traceVars
  <1>14. CASE Restart
    BY <1>1, <1>2, <1>14, StepShape DEF TraceInv, Restart, StartLabel, At, Moved, traceVars, outVars
  <1>15. CASE Transmit
    BY <1>1, <1>2, <1>15, StepShape DEF TraceInv, Transmit, At, Moved, traceVars
  <1>16. CASE Account
    BY <1>1, <1>2, <1>16, StepShape DEF TraceInv, Account, At, Moved, traceVars
  <1>17. CASE Trigger
    BY <1>1, <1>17, InterruptShape, RunningContext
      DEF TraceInv, Trigger, Moved, traceVars, outVars
  <1>18. CASE TxComplete
    <2>1. /\ in_flight /\ ~in_flight'
          /\ UNCHANGED <<traceVars, s_tx_fn, s_output_active, s_remaining>>
      BY <1>18 DEF TxComplete
    <2>2. s_output_active /\ ~tracing /\ ~s_tracex_started
      BY <2>1 DEF TraceInv
    <2>3. Moved("complete", "chunk")
      BY <1>1, <1>18, <2>2, InterruptShape
    <2>4. pc["trigger"] \in {"idle", "account"}
      BY <1>1, <1>18, <2>1, <2>2, InterruptShape, RunningContext
        DEF TraceInv, StackInv, Labels, ThreadLabels, CompleteLabels
    <2> QED
      BY <1>1, <2>1, <2>2, <2>3, <2>4 DEF TraceInv, Moved, traceVars
  <1> QED
    BY <1>3, <1>4, <1>5, <1>6, <1>7, <1>8, <1>9, <1>10, <1>11, <1>12, <1>13, <1>14,
       <1>15, <1>16, <1>17, <1>18 DEF Next, Step, Call

(* Nothing writes the trace buffer while it is being sent                  *)
(* (traceout_start_from_isr stops the recording before the first chunk,    *)
(* start_next_chunk starts it after the last), if the request does not     *)
(* preempt the completion interrupt and threads call neither tracex_start  *)
(* nor tracex_stop after traceout_init.                                    *)
THEOREM NothingTracedWhileDumped ==
  HigherPriority # "trigger" /\ CallsAfterArming = {} => (Spec => []NotTracedWhileDumped)
  <1> SUFFICES ASSUME HigherPriority # "trigger", CallsAfterArming = {}
               PROVE  Spec => []NotTracedWhileDumped
    OBVIOUS
  <1>1. TraceInv => NotTracedWhileDumped
    BY DEF TraceInv, NotTracedWhileDumped
  <1>2. TraceInv /\ [Next]_vars => TraceInv'
    BY TraceStep
  <1> QED
    BY <1>1, <1>2, TraceInit, PTL DEF Spec

-------------------------------------------------------------------------------
(* Without a completion interrupt that preempts the request, and whatever  *)
(* threads call: one context at most works on a chunk, and what has been   *)
(* handed out is the buffer up to s_dp, and the chunk being accounted for. *)
Working(c) == pc[c] \in {"chunk", "account"}

OutInv ==
  /\ StackInv
  /\ s_trace_size \in Nat /\ s_trace_size < Modulus
  /\ s_dp \in Nat /\ s_remaining \in Nat /\ s_output_active \in BOOLEAN
  /\ n \in [Contexts -> Nat]
  /\ out \in Seq(Nat) /\ \A i \in 1 .. Len(out) : out[i] = i - 1
  /\ s_tx_fn => s_trace_size # 0
  /\ s_output_active \/ pc["trigger"] # "idle" => s_tx_fn
  /\ pc["trigger"] \in {"disable", "stopped", "load"} => ~s_output_active
  /\ \A c \in Contexts : Working(c) => s_output_active
  /\ \A c, d \in Contexts : Working(c) /\ Working(d) => c = d
  /\ s_output_active => s_dp + s_remaining = s_trace_size
  /\ \A c \in Contexts : pc[c] = "account" =>
       n[c] <= s_remaining /\ Len(out) = s_dp + n[c]
  /\ s_output_active /\ (\A c \in Contexts : pc[c] # "account") => Len(out) = s_dp

(* The bytes of a chunk of k bytes, appended to those handed out before.   *)
LEMMA ChunkAppended ==
  ASSUME NEW s \in Seq(Nat), NEW k \in Nat, \A i \in 1 .. Len(s) : s[i] = i - 1
  PROVE  LET t == s \o [i \in 1 .. k |-> Len(s) + i - 1]
         IN  /\ t \in Seq(Nat) /\ Len(t) = Len(s) + k
             /\ \A i \in 1 .. Len(t) : t[i] = i - 1
             /\ t = [i \in 1 .. Len(s) + k |-> i - 1]
  <1> DEFINE u == [i \in 1 .. k |-> Len(s) + i - 1]
             t == s \o u
             w == [i \in 1 .. Len(s) + k |-> i - 1]
  <1>1. Len(s) \in Nat
    BY LenProperties
  <1>2. /\ u \in Seq(Nat) /\ Len(u) = k
        /\ \A i \in 1 .. k : u[i] = Len(s) + i - 1
    <2>1. u \in [1 .. k -> Nat]
      BY <1>1
    <2>2. u \in Seq(Nat)
      BY <2>1, SeqDef
    <2>3. Len(u) \in Nat /\ DOMAIN u = 1 .. Len(u)
      BY <2>2, LenProperties
    <2>4. Len(u) = k
      BY <2>3
    <2> QED
      BY <2>2, <2>4
  <1>3. /\ w \in Seq(Nat) /\ Len(w) = Len(s) + k
        /\ \A i \in 1 .. Len(s) + k : w[i] = i - 1
    <2>0. Len(s) + k \in Nat
      BY <1>1
    <2>1. w \in [1 .. Len(s) + k -> Nat]
      BY <1>1
    <2>2. w \in Seq(Nat)
      BY <2>0, <2>1, SeqDef
    <2>3. Len(w) \in Nat /\ DOMAIN w = 1 .. Len(w)
      BY <2>2, LenProperties
    <2>4. Len(w) = Len(s) + k
      BY <2>0, <2>3
    <2> QED
      BY <2>2, <2>4
  <1> HIDE DEF u
  <1>4. /\ t \in Seq(Nat) /\ Len(t) = Len(s) + k
        /\ \A i \in 1 .. Len(s) + k : t[i] = IF i <= Len(s) THEN s[i] ELSE u[i - Len(s)]
    BY <1>2, ConcatProperties
  <1> HIDE DEF t, w
  <1>5. \A i \in 1 .. Len(s) + k : t[i] = i - 1
    <2> SUFFICES ASSUME NEW i \in 1 .. Len(s) + k PROVE t[i] = i - 1
      OBVIOUS
    <2>1. CASE i <= Len(s)
      <3>1. i \in 1 .. Len(s) /\ t[i] = s[i]
        BY <1>1, <1>4, <2>1
      <3> QED
        BY <3>1
    <2>2. CASE ~(i <= Len(s))
      <3>1. i - Len(s) \in 1 .. k
        BY <1>1, <2>2
      <3>2. u[i - Len(s)] = Len(s) + (i - Len(s)) - 1
        BY <1>2, <3>1
      <3> QED
        BY <1>1, <1>4, <2>2, <3>2
    <2> QED
      BY <2>1, <2>2
  <1>6. t = w
    BY <1>3, <1>4, <1>5, SeqEqual
  <1> QED
    BY <1>4, <1>5, <1>6 DEF t, u, w

LEMMA OutInit == Init => OutInv
  <1> SUFFICES ASSUME Init PROVE OutInv
    OBVIOUS
  <1>1. StackInv
    BY StackInit
  <1>2. /\ s_trace_size = 0 /\ s_dp = 0 /\ s_remaining = 0 /\ out = << >>
        /\ s_tx_fn = FALSE /\ s_output_active = FALSE
        /\ n \in [Contexts -> Nat]
        /\ \A c \in Contexts : pc[c] = "idle"
    BY DEF Init
  <1>3. 0 < Modulus
    BY SizesAssumption
  <1>4. out \in Seq(Nat) /\ \A i \in 1 .. Len(out) : out[i] = i - 1
    BY <1>2
  <1>5. \A c \in Contexts : ~Working(c) /\ pc[c] # "account"
    BY <1>2 DEF Working
  <1>6. pc["trigger"] = "idle"
    BY <1>2 DEF Contexts
  <1> QED
    BY <1>1, <1>2, <1>3, <1>4, <1>5, <1>6 DEF OutInv

(* A context that works on a chunk is the only one, and is running.        *)
LEMMA OneWorker ==
  ASSUME OutInv, NEW c \in Contexts, Working(c)
  PROVE  /\ s_output_active /\ s_dp + s_remaining = s_trace_size /\ c # "thread"
         /\ \A d \in Contexts : d # c => ~Working(d)
         /\ pc[c] = "chunk" => Len(out) = s_dp
  BY DEF OutInv, StackInv, Working, Contexts, ThreadLabels

(* The 32-bit arithmetic of a chunk's accounting does not wrap.            *)
LEMMA NoWrap ==
  ASSUME NEW x \in Nat, NEW y \in Nat, NEW k \in Nat, k <= y, x + y < Modulus
  PROVE  /\ (x + k) % Modulus = x + k
         /\ (y + Modulus - k) % Modulus = y - k
  <1>1. Modulus \in Nat \ {0}
    BY SizesAssumption
  <1>2. x + k \in 0 .. Modulus - 1 /\ y - k \in 0 .. Modulus - 1
    BY <1>1
  <1>3. y + Modulus - k = (y - k) + Modulus
    BY <1>1
  <1>4. \A r \in 0 .. Modulus - 1 : r % Modulus = r /\ (r + Modulus) % Modulus = r
    BY <1>1
  <1> QED
    BY <1>2, <1>3, <1>4

LEMMA LoadOut ==
  ASSUME OutInv, Load
  PROVE  /\ OutInv' /\ ~s_output_active /\ s_output_active' /\ out' = << >>
         /\ s_trace_size' = s_trace_size
  <1>1. StackInv /\ StackInv' /\ Moved(Running, "chunk") /\ Running = "trigger"
    BY StepShape DEF OutInv
  <1>2. /\ pc["trigger"] = "load" /\ s_dp' = 0 /\ s_remaining' = s_trace_size
        /\ s_output_active' = TRUE /\ out' = << >>
        /\ s_trace_size' = s_trace_size /\ s_tx_fn' = s_tx_fn /\ n' = n
    BY <1>1 DEF Load, At, traceVars
  <1>3. ~s_output_active /\ s_tx_fn /\ s_trace_size # 0
    BY <1>2 DEF OutInv
  <1>4. \A c \in Contexts : ~Working(c)
    BY <1>3 DEF OutInv
  <1>5. \A c \in Contexts : pc'[c] \in {"chunk", "account"} => c = "trigger"
    BY <1>1, <1>4 DEF Moved, Working
  <1>6. /\ pc'["trigger"] = "chunk"
        /\ \A c \in Contexts : pc'[c] # "account"
    BY <1>1, <1>5 DEF Moved
  <1>7. out' \in Seq(Nat) /\ Len(out') = 0 /\ \A i \in 1 .. Len(out') : out'[i] = i - 1
    BY <1>2
  <1> QED
    BY <1>1, <1>2, <1>3, <1>5, <1>6, <1>7 DEF OutInv, Working

LEMMA TransmitOut ==
  ASSUME OutInv, Transmit
  PROVE  /\ OutInv' /\ s_output_active /\ s_output_active' = s_output_active
         /\ s_trace_size' = s_trace_size
         /\ \E k \in 1 .. ChunkBytes :
              /\ Len(out) + k <= s_trace_size
              /\ out' = [i \in 1 .. Len(out) + k |-> i - 1]
  <1> DEFINE k == IF s_remaining > ChunkBytes THEN ChunkBytes ELSE s_remaining
  <1>1. StackInv /\ StackInv' /\ Moved(Running, "account") /\ Running \in Interrupts
    BY StepShape DEF OutInv
  <1>2. /\ pc[Running] = "chunk" /\ s_remaining # 0
        /\ n' = [n EXCEPT ![Running] = k]
        /\ out' = out \o [i \in 1 .. k |-> s_dp + i - 1]
        /\ UNCHANGED <<s_trace_size, s_tx_fn, s_output_active, s_dp, s_remaining>>
    BY DEF Transmit, At, traceVars
  <1>3. Running \in Contexts /\ Working(Running)
    BY <1>1, <1>2 DEF Working, Interrupts, Contexts
  <1>4. /\ s_output_active /\ s_dp + s_remaining = s_trace_size /\ Len(out) = s_dp
        /\ \A d \in Contexts : d # Running => ~Working(d)
    BY <1>2, <1>3, OneWorker
  <1>5. /\ s_dp \in Nat /\ s_remaining \in Nat /\ n \in [Contexts -> Nat]
        /\ out \in Seq(Nat) /\ \A i \in 1 .. Len(out) : out[i] = i - 1
    BY DEF OutInv
  <1>6. k \in 1 .. ChunkBytes /\ k <= s_remaining /\ k \in Nat
    BY <1>2, <1>5, ChunkAssumption
  <1> HIDE DEF k
  <1>7. /\ out' \in Seq(Nat) /\ Len(out') = Len(out) + k
        /\ \A i \in 1 .. Len(out') : out'[i] = i - 1
        /\ out' = [i \in 1 .. Len(out) + k |-> i - 1]
    <2>1. out' = out \o [i \in 1 .. k |-> Len(out) + i - 1]
      BY <1>2, <1>4
    <2> QED
      BY <1>5, <1>6, <2>1, ChunkAppended
  <1>8. Len(out') = s_dp + k /\ Len(out) + k <= s_trace_size
    BY <1>4, <1>5, <1>6, <1>7
  <1>9. n' \in [Contexts -> Nat] /\ n'[Running] = k
    BY <1>2, <1>3, <1>5, <1>6
  <1>10. /\ pc'[Running] = "account"
         /\ \A c \in Contexts : c # Running => pc'[c] \notin {"chunk", "account"} /\ pc'[c] = pc[c]
    BY <1>1, <1>4 DEF Moved, Working
  <1>11. pc'["trigger"] \in {"disable", "stopped", "load"} => ~s_output_active
    BY <1>10 DEF OutInv, Contexts
  <1>12. \A c \in Contexts : pc'[c] = "account" =>
           n'[c] <= s_remaining /\ Len(out') = s_dp + n'[c]
    BY <1>6, <1>8, <1>9, <1>10
  <1>13. OutInv'
    BY <1>1, <1>2, <1>3, <1>4, <1>5, <1>7, <1>9, <1>10, <1>11, <1>12 DEF OutInv, Working
  <1> QED
    BY <1>2, <1>4, <1>6, <1>7, <1>8, <1>13

LEMMA AccountOut ==
  ASSUME OutInv, Account
  PROVE  OutInv' /\ UNCHANGED <<s_trace_size, s_output_active, out>>
  <1>1. StackInv /\ StackInv' /\ Moved(Running, "idle") /\ Running \in Interrupts
    BY StepShape DEF OutInv
  <1>2. /\ pc[Running] = "account"
        /\ s_dp' = (s_dp + n[Running]) % Modulus
        /\ s_remaining' = (s_remaining + Modulus - n[Running]) % Modulus
        /\ n' = [n EXCEPT ![Running] = 0]
        /\ UNCHANGED <<s_trace_size, s_tx_fn, s_output_active, out>>
    BY DEF Account, At, traceVars
  <1>3. Running \in Contexts /\ Working(Running)
    BY <1>1, <1>2 DEF Working, Interrupts, Contexts
  <1>4. /\ s_output_active /\ s_dp + s_remaining = s_trace_size
        /\ \A d \in Contexts : d # Running => ~Working(d)
    BY <1>3, OneWorker
  <1>5. /\ s_dp \in Nat /\ s_remaining \in Nat /\ n \in [Contexts -> Nat]
        /\ s_trace_size \in Nat /\ s_trace_size < Modulus
        /\ n[Running] <= s_remaining /\ Len(out) = s_dp + n[Running]
    BY <1>2, <1>3 DEF OutInv
  <1>6. n[Running] \in Nat
    BY <1>3, <1>5
  <1>7. s_dp' = s_dp + n[Running] /\ s_remaining' = s_remaining - n[Running]
    <2>1. s_dp + s_remaining < Modulus
      BY <1>4, <1>5
    <2>2. /\ (s_dp + n[Running]) % Modulus = s_dp + n[Running]
          /\ (s_remaining + Modulus - n[Running]) % Modulus = s_remaining - n[Running]
      BY <1>5, <1>6, <2>1, NoWrap
    <2> QED
      BY <1>2, <2>2
  <1>8. /\ s_dp' \in Nat /\ s_remaining' \in Nat /\ s_dp' + s_remaining' = s_trace_size
        /\ Len(out) = s_dp'
    <2>1. ASSUME NEW k \in Nat, k <= s_remaining
          PROVE  /\ s_dp + k \in Nat /\ s_remaining - k \in Nat
                 /\ (s_dp + k) + (s_remaining - k) = s_trace_size
      BY <1>4, <1>5, <2>1
    <2> QED
      BY <1>5, <1>6, <1>7, <2>1
  <1>9. n' \in [Contexts -> Nat]
    BY <1>2, <1>5
  <1>10. /\ pc'[Running] = "idle"
         /\ \A c \in Contexts : c # Running => pc'[c] \notin {"chunk", "account"} /\ pc'[c] = pc[c]
    BY <1>1, <1>4 DEF Moved, Working
  <1>11. \A c \in Contexts : pc'[c] \notin {"chunk", "account"}
    BY <1>10
  <1>12. /\ pc'["trigger"] \in {"disable", "stopped", "load"} => ~s_output_active
         /\ s_tx_fn
    BY <1>4, <1>10 DEF OutInv, Contexts
  <1>13. OutInv'
    BY <1>1, <1>2, <1>4, <1>5, <1>8, <1>9, <1>11, <1>12 DEF OutInv, Working
  <1> QED
    BY <1>2, <1>13

LEMMA FinishOut ==
  ASSUME OutInv, Finish
  PROVE  /\ OutInv' /\ s_output_active /\ ~s_output_active' /\ Len(out) = s_trace_size
         /\ UNCHANGED <<s_trace_size, out>>
  <1>1. StackInv /\ StackInv' /\ Moved(Running, "restart") /\ Running \in Interrupts
    BY StepShape DEF OutInv
  <1>2. /\ pc[Running] = "chunk" /\ s_remaining = 0 /\ s_output_active' = FALSE
        /\ UNCHANGED <<s_trace_size, s_tx_fn, s_dp, s_remaining, out, n>>
    BY DEF Finish, At, traceVars
  <1>3. Running \in Contexts /\ Working(Running)
    BY <1>1, <1>2 DEF Working, Interrupts, Contexts
  <1>4. /\ s_output_active /\ s_dp + s_remaining = s_trace_size /\ Len(out) = s_dp
        /\ \A d \in Contexts : d # Running => ~Working(d)
    BY <1>2, <1>3, OneWorker
  <1>5. Len(out) = s_trace_size
    BY <1>2, <1>4 DEF OutInv
  <1>6. \A c \in Contexts : pc'[c] \notin {"chunk", "account"}
    BY <1>1, <1>4 DEF Moved, Working
  <1>7. s_tx_fn
    BY <1>4 DEF OutInv
  <1>8. OutInv'
    BY <1>1, <1>2, <1>6, <1>7 DEF OutInv, Working
  <1> QED
    BY <1>2, <1>4, <1>5, <1>8

(* Every other step leaves what has been handed out, and the workers.      *)
LEMMA OtherOut ==
  ASSUME OutInv, StackInv',
         UNCHANGED <<s_trace_size, s_tx_fn, s_output_active, s_dp, s_remaining, out, n>>,
         \A c \in Contexts : pc'[c] \in {"chunk", "account"} => pc'[c] = pc[c],
         \A c \in Contexts : pc[c] = "account" => pc'[c] = pc[c],
         pc'["trigger"] # "idle" => s_tx_fn,
         pc'["trigger"] \in {"disable", "stopped", "load"} => ~s_output_active
  PROVE  OutInv'
  <1>1. \A c \in Contexts : Working(c)' => Working(c)
    BY DEF Working
  <1>2. \A c \in Contexts : pc'[c] = "account" <=> pc[c] = "account"
    OBVIOUS
  <1> QED
    BY <1>1, <1>2 DEF OutInv, Working

LEMMA ThreadCallOut ==
  ASSUME OutInv, tracex_init \/ traceout_init
  PROVE  /\ OutInv'
         /\ tracex_init => ~s_output_active /\ s_trace_size = 0 /\ s_trace_size' \in Sizes
         /\ traceout_init => UNCHANGED s_trace_size
         /\ UNCHANGED <<s_output_active, out>>
  <1>1. StackInv'
    BY StackStep DEF Next, Call, OutInv
  <1>2. CASE tracex_init
    <2>1. /\ s_trace_size = 0 /\ s_trace_size' \in Sizes
          /\ UNCHANGED <<s_tx_fn, s_output_active, s_dp, s_remaining, out, n, pc>>
      BY <1>2 DEF tracex_init, outVars
    <2>2. ~s_tx_fn /\ ~s_output_active
      BY <2>1 DEF OutInv
    <2>3. s_trace_size' \in Nat /\ s_trace_size' < Modulus
      BY <2>1, SizesAssumption
    <2>4. OutInv'
      BY <1>1, <2>1, <2>2, <2>3 DEF OutInv, Working
    <2> QED
      BY <2>1, <2>2, <2>4, <1>2 DEF tracex_init, traceout_init
  <1>3. CASE traceout_init
    <2>1. /\ s_trace_size # 0 /\ s_tx_fn' = TRUE
          /\ UNCHANGED <<s_trace_size, s_output_active, s_dp, s_remaining, out, n, pc>>
      BY <1>3 DEF traceout_init, traceVars
    <2>2. OutInv'
      BY <1>1, <2>1 DEF OutInv, Working
    <2> QED
      BY <2>1, <2>2, <1>3 DEF tracex_init, traceout_init
  <1> QED
    BY <1>2, <1>3

LEMMA InterruptOut ==
  ASSUME HigherPriority # "complete", OutInv, Trigger \/ TxComplete
  PROVE  OutInv' /\ UNCHANGED <<s_trace_size, s_output_active, out>>
  <1>1. StackInv /\ StackInv'
    BY StackStep DEF Next, OutInv
  <1>2. UNCHANGED <<s_trace_size, s_tx_fn, s_output_active, s_dp, s_remaining, out, n>>
    BY DEF Trigger, TxComplete, traceVars, outVars
  <1>3. CASE Trigger
    <2>1. s_tx_fn /\ ~s_output_active
      BY <1>3 DEF Trigger
    <2>2. Moved("trigger", IF s_tracex_started THEN "disable" ELSE "load")
          /\ pc["trigger"] = "idle"
      BY <1>1, <1>3, InterruptShape
    <2>3. pc'["trigger"] \notin {"chunk", "account"}
      BY <2>2 DEF Moved
    <2> QED
      BY <1>1, <1>2, <2>1, <2>2, <2>3, OtherOut DEF Moved, Contexts
  <1>4. CASE TxComplete /\ ~s_output_active
    <2>1. pc' = pc
      BY <1>4 DEF TxComplete
    <2>2. pc["trigger"] # "idle" => s_tx_fn
      BY DEF OutInv
    <2> QED
      BY <1>1, <1>2, <1>4, <2>1, <2>2, OtherOut
  <1>5. CASE TxComplete /\ s_output_active
    <2>1. Moved("complete", "chunk") /\ Running = "thread"
      BY <1>1, <1>5, InterruptShape
    <2>2. \A c \in Interrupts : pc[c] = "idle"
      BY <1>1, <2>1, RunningContext
    <2>3. /\ pc'["complete"] = "chunk" /\ pc'["trigger"] = "idle"
          /\ pc'["thread"] = pc["thread"] /\ pc["thread"] \in ThreadLabels
          /\ pc["complete"] = "idle" /\ pc["trigger"] = "idle"
      BY <1>1, <2>1, <2>2 DEF StackInv, Moved, Contexts, Interrupts
    <2>4. /\ \A c \in Contexts : pc[c] # "account" /\ pc'[c] # "account"
          /\ \A c \in Contexts : pc'[c] \in {"chunk", "account"} => c = "complete"
      BY <2>3 DEF Contexts, ThreadLabels
    <2>5. Len(out) = s_dp
      BY <1>5, <2>4 DEF OutInv
    <2>6. OutInv'
      BY <1>1, <1>2, <1>5, <2>3, <2>4, <2>5 DEF OutInv, Working
    <2> QED
      BY <1>2, <2>6
  <1> QED
    BY <1>3, <1>4, <1>5

(* The steps that switch recording on or off.                              *)
LEMMA RecordingOut ==
  ASSUME OutInv,
         Enable \/ Started \/ Disable \/ Stopped \/ Restart \/ ThreadStart \/ ThreadStop
  PROVE  OutInv' /\ UNCHANGED <<s_trace_size, s_output_active, out>>
  <1>1. StackInv /\ StackInv' /\ Running \in Contexts
    BY StackStep, RunningContext DEF Next, Step, Call, OutInv
  <1>2. UNCHANGED <<s_trace_size, s_tx_fn, s_output_active, s_dp, s_remaining, out, n>>
    BY DEF Enable, Started, Disable, Stopped, Restart, ThreadStart, ThreadStop, traceVars, outVars
  <1>3. PICK label \in {"enable", "started", "disable", "stopped", "load", "idle"} :
          Moved(Running, label)
    BY <1>1, StepShape DEF StartLabel
  <1>4. pc[Running] \notin {"chunk", "account"}
    BY <1>1, RunningContext
      DEF StackInv, ThreadLabels, Enable, Started, Disable, Stopped, Restart, ThreadStart,
          ThreadStop, ThreadIdle, At
  <1>5. /\ \A c \in Contexts : pc'[c] \in {"chunk", "account"} => pc'[c] = pc[c]
        /\ \A c \in Contexts : pc[c] = "account" => pc'[c] = pc[c]
    BY <1>3, <1>4 DEF Moved
  <1>6. pc'["trigger"] # "idle" => pc["trigger"] # "idle"
    BY <1>1, <1>3, RunningContext DEF Moved, Contexts
  <1>7. pc'["trigger"] \in {"disable", "stopped", "load"} => ~s_output_active
    <2>1. CASE Running = "trigger" /\ (Disable \/ Stopped)
      BY <2>1 DEF OutInv, Disable, Stopped, At
    <2>2. CASE Running = "trigger" /\ ~(Disable \/ Stopped)
      <3>1. pc'["trigger"] \in {"started", "idle", "enable"}
        BY <1>1, <2>2, StepShape DEF Moved, StartLabel
      <3> QED
        BY <3>1
    <2>3. CASE Running # "trigger"
      <3>1. pc'["trigger"] = pc["trigger"]
        BY <1>3, <2>3 DEF Moved, Contexts
      <3> QED
        BY <3>1 DEF OutInv
    <2> QED
      BY <2>1, <2>2, <2>3
  <1> QED
    BY <1>1, <1>2, <1>5, <1>6, <1>7, OtherOut DEF OutInv

(* Every step keeps the invariant and is a step of the dump or none of its.*)
LEMMA DumpStep ==
  ASSUME HigherPriority # "complete"
  PROVE  OutInv /\ [Next]_vars =>
           OutInv' /\ [Dump!Next]_<<s_trace_size, s_output_active, out>>
  <1> SUFFICES ASSUME OutInv, [Next]_vars
               PROVE  OutInv' /\ [Dump!Next]_<<s_trace_size, s_output_active, out>>
    OBVIOUS
  <1>1. CASE tracex_init \/ traceout_init
    BY <1>1, ThreadCallOut DEF Dump!Next, Dump!Provide
  <1>2. CASE Load
    BY <1>2, LoadOut DEF Dump!Next, Dump!Begin, OutInv
  <1>3. CASE Transmit
    BY <1>3, TransmitOut DEF Dump!Next, Dump!SendChunk
  <1>4. CASE Account
    BY <1>4, AccountOut
  <1>5. CASE Finish
    BY <1>5, FinishOut DEF Dump!Next, Dump!End, OutInv
  <1>6. CASE Trigger \/ TxComplete
    BY <1>6, InterruptOut
  <1>7. CASE Enable \/ Started \/ Disable \/ Stopped \/ Restart \/ ThreadStart \/ ThreadStop
    BY <1>7, RecordingOut
  <1>8. CASE UNCHANGED vars
    <2>1. StackInv'
      BY StackStep DEF OutInv
    <2>2. UNCHANGED <<s_trace_size, s_tx_fn, s_output_active, s_dp, s_remaining, out, n, pc>>
      BY <1>8 DEF vars, traceVars, outVars
    <2>3. OutInv'
      BY <2>1, <2>2, OtherOut DEF OutInv
    <2> QED
      BY <2>2, <2>3
  <1> QED
    BY <1>1, <1>2, <1>3, <1>4, <1>5, <1>6, <1>7, <1>8 DEF Next, Step, Call

(* Whatever interrupts what, and whatever threads call meanwhile, the      *)
(* chunks start_next_chunk hands out are the trace buffer, byte for byte,  *)
(* and the dump ends only with the last one, if the completion interrupt   *)
(* does not preempt the request.                                           *)
THEOREM BufferIsDumped == HigherPriority # "complete" => (Spec => DumpsBuffer)
  <1> SUFFICES ASSUME HigherPriority # "complete"
               PROVE  Spec => DumpsBuffer
    OBVIOUS
  <1>1. Init => Dump!Init
    BY DEF Init, Dump!Init
  <1>2. /\ OutInv /\ [Next]_vars => OutInv'
        /\ OutInv /\ [Next]_vars => [Dump!Next]_<<s_trace_size, s_output_active, out>>
    BY DumpStep
  <1>3. Spec => Dump!Init /\ [][Dump!Next]_<<s_trace_size, s_output_active, out>>
    BY <1>1, <1>2, OutInit, PTL DEF Spec
  <1> QED
    BY <1>3 DEF DumpsBuffer, Dump!Spec

================================================================================
