---------------------------- MODULE SessionProofs ----------------------------
(***************************************************************************)
(* The main window's safety properties hold for any number of operations,  *)
(* images, devices and device events, in any order.                        *)
(*                                                                         *)
(* The argument: an operation is one token that moves from the boot check  *)
(* through messages, the warning and the thread to the report; nothing     *)
(* makes a second one while the controls are disabled, and they are until  *)
(* the token is gone or on its way as UM_FORMAT_COMPLETED (Alone). So what *)
(* is shared, ErrorStatus (Reported), the selection and zero_drive         *)
(* (Chosen), is this operation's own while it lasts. Tokens are counted in *)
(* the message queue and in the stack of boxes, and each stands for        *)
(* something the user did (Budget), which bounds the threads.              *)
(***************************************************************************)
EXTENDS Session, FiniteSetTheorems, SequenceTheorems, TLAPS

Boxes == {"cancel", "cancel_no", "confirm", "notify"}

\* The queue of messages and the stack of boxes are sequences.
Queues == posted \in Seq(Messages) /\ boxes \in Seq(Boxes)

\* Each operation and each image comes from something the user did.
Budget ==
    /\ Operations + Posted("IDC_START") <= operations
    /\ scans_starting + scans + Posted("UM_SELECT_ISO") + Posted("WM_DROPFILES")
           + (IF download = "running" THEN 1 ELSE 0) <= images
    /\ Posted("IDC_START") <= 1

\* What keeps an operation alone: whoever could start another finds the controls
\* disabled, or messages or boxes ahead of him.
Alone ==
    /\ ~ SideBySide
    /\ Operations <= 1
    /\ (Operations > 0 /\ Posted("COMPLETED") = 0) => op_in_progress
    /\ closed => Operations = 0
    /\ Posted("IDC_START") > 0 => Operations = 0
    /\ download # "none" => op_in_progress
    /\ (download # "none" \/ Posted("UM_SELECT_ISO") > 0) =>
           Operations = 0 /\ Posted("IDC_START") = 0
    /\ format_thread # "null" => Working + Reports > 0
    /\ Working > 0 => format_thread # "null"
    /\ Count("notify") > 0 => Operations = 0 /\ Posted("IDC_START") = 0

\* What ErrorStatus says is what the thread of this operation left, that the user has
\* cancelled, or what a background check wrote during it.
Reported ==
    /\ told = "ready" => verdict = "none" \/ "none" \in meddled
    /\ told = "cancelled" => user_cancelled \/ "cancelled" \in meddled
    /\ told = "error" => verdict = "error" \/ "error" \in meddled
    /\ Operations > 0 => told = "nothing"
    /\ (Operations > 0 /\ ErrorStatus = "cancelled") =>
           user_cancelled \/ "cancelled" \in meddled
    /\ (Reports > 0 /\ ErrorStatus # "cancelled") =>
           verdict = ErrorStatus \/ ErrorStatus \in meddled
    /\ (Reports > 0 /\ format_thread = "null") => verdict = "error"

\* The selection and zero_drive are those of the operation.
Chosen ==
    /\ format_thread = "format" =>
           target = confirmed /\ target # NoDevice /\ zero_drive = asked_zero
    /\ Starting > 0 => selected # NoDevice /\ zero_drive = asked_zero
    /\ Count("confirm") > 0 => confirmed = selected
    /\ Posted("IDC_START") > 0 => zero_drive
    /\ (Operations = 0 /\ Posted("IDC_START") = 0) => ~ zero_drive

\* The inductive invariant.
IInv ==
    /\ TypeOK /\ Queues /\ Budget
    /\ ~ overlap => Alone /\ Reported /\ Chosen

-----------------------------------------------------------------------------
\* How often x is in the sequence s.
Num(s, x) == Cardinality({j \in DOMAIN s : s[j] = x})

\* It is a number, and 0 if x is not there.
LEMMA NumType ==
    ASSUME NEW S, NEW s \in Seq(S), NEW x
    PROVE  /\ IsFiniteSet({j \in 1..Len(s) : s[j] = x})
           /\ Num(s, x) = Cardinality({j \in 1..Len(s) : s[j] = x})
           /\ Num(s, x) \in Nat
           /\ (\A j \in 1..Len(s) : s[j] # x) => Num(s, x) = 0
           /\ (\E j \in 1..Len(s) : s[j] = x) => Num(s, x) >= 1
<1> DEFINE P == {j \in 1..Len(s) : s[j] = x}
<1>1. Len(s) \in Nat /\ DOMAIN s = 1..Len(s)
  BY LenProperties
<1>2. IsFiniteSet(1..Len(s))
  BY <1>1, FS_Interval
<1>3. IsFiniteSet(P)
  BY <1>2, FS_Subset
<1>4. Num(s, x) = Cardinality(P)
  BY <1>1 DEF Num
<1>5. Cardinality(P) \in Nat
  BY <1>3, FS_CardinalityType
<1>6. Cardinality(P) = 0 <=> P = {}
  BY <1>3, FS_EmptySet
<1>7. (\A j \in 1..Len(s) : s[j] # x) => P = {}
  OBVIOUS
<1>8. (\E j \in 1..Len(s) : s[j] = x) => P # {}
  OBVIOUS
<1>. QED
  BY <1>3, <1>4, <1>5, <1>6, <1>7, <1>8

\* Nothing is in the empty sequence.
LEMMA NumEmpty == \A x : Num(<<>>, x) = 0
<1> SUFFICES ASSUME NEW x PROVE Num(<<>>, x) = 0
  OBVIOUS
<1>1. <<>> \in Seq({}) /\ Len(<<>>) = 0
  BY EmptySeq
<1>2. \A j \in 1..Len(<<>>) : <<>>[j] # x
  BY <1>1
<1>. QED
  BY <1>1, <1>2, NumType

\* One more at the end.
LEMMA NumAppend ==
    ASSUME NEW S, NEW s \in Seq(S), NEW e \in S, NEW x
    PROVE  Num(Append(s, e), x) = Num(s, x) + (IF x = e THEN 1 ELSE 0)
<1> DEFINE t == Append(s, e)
           P == {j \in 1..Len(s) : s[j] = x}
           Q == {j \in 1..Len(t) : t[j] = x}
<1>1. /\ t \in Seq(S) /\ Len(t) = Len(s) + 1 /\ Len(s) \in Nat
      /\ \A j \in 1..Len(s) : t[j] = s[j]
      /\ t[Len(s) + 1] = e
  BY AppendProperties, LenProperties
<1> HIDE DEF t
<1>2. /\ Num(s, x) = Cardinality(P) /\ Num(t, x) = Cardinality(Q)
      /\ IsFiniteSet(P) /\ Num(s, x) \in Nat
  BY <1>1, NumType
<1>3. CASE x = e
  <2>1. Q = P \cup {Len(s) + 1}
    BY <1>1, <1>3
  <2>2. Len(s) + 1 \notin P
    BY <1>1
  <2> HIDE DEF P, Q
  <2>3. Cardinality(Q) = Cardinality(P) + 1
    BY <1>2, <2>1, <2>2, FS_AddElement
  <2>. QED
    BY <1>2, <1>3, <2>3 DEF t
<1>4. CASE x # e
  <2>1. Q = P
    BY <1>1, <1>4
  <2> HIDE DEF P, Q
  <2>2. Cardinality(Q) = Cardinality(P)
    BY <2>1
  <2>. QED
    BY <1>2, <1>4, <2>2 DEF t
<1>. QED
  BY <1>3, <1>4

\* One less at the front.
LEMMA NumTail ==
    ASSUME NEW S, NEW s \in Seq(S), s # <<>>, NEW x
    PROVE  /\ Num(s, x) = Num(Tail(s), x) + (IF x = Head(s) THEN 1 ELSE 0)
           /\ Tail(s) \in Seq(S)
<1> DEFINE t == Tail(s)
           Q == {j \in 1..Len(t) : t[j] = x}
           R == {j \in 2..Len(s) : s[j] = x}
           P == {j \in 1..Len(s) : s[j] = x}
<1>1. /\ t \in Seq(S) /\ Len(t) = Len(s) - 1
      /\ Len(s) \in Nat \ {0}
      /\ \A j \in 1..Len(t) : t[j] = s[j + 1]
  BY HeadTailProperties, EmptySeq
<1>2. Head(s) = s[1]
  OBVIOUS
<1> HIDE DEF t
<1>3. /\ Num(s, x) = Cardinality(P) /\ Num(t, x) = Cardinality(Q)
      /\ IsFiniteSet(Q) /\ Num(t, x) \in Nat
  BY <1>1, NumType
<1>4. IsFiniteSet(R) /\ Cardinality(R) = Cardinality(Q)
  <2> DEFINE f == [j \in Q |-> j + 1]
  <2>1. f \in [Q -> R]
    BY <1>1
  <2>2. \A j, k \in Q : f[j] = f[k] => j = k
    BY <1>1
  <2>3. \A k \in R : \E j \in Q : f[j] = k
    <3>1. SUFFICES ASSUME NEW k \in R PROVE k - 1 \in Q /\ f[k - 1] = k
      OBVIOUS
    <3>2. k - 1 \in Q
      BY <1>1
    <3>. QED
      BY <3>2, <1>1
  <2> HIDE DEF f, Q, R
  <2>4. f \in Bijection(Q, R)
    BY <2>1, <2>2, <2>3 DEF Bijection, Injection, Surjection, IsInjective
  <2>. QED
    BY <1>3, <2>4, FS_Bijection DEF ExistsBijection
<1>5. CASE x = Head(s)
  <2>1. P = R \cup {1} /\ 1 \notin R
    BY <1>1, <1>2, <1>5
  <2> HIDE DEF P, Q, R
  <2>2. Cardinality(P) = Cardinality(R) + 1
    BY <1>4, <2>1, FS_AddElement
  <2>. QED
    BY <1>1, <1>3, <1>4, <1>5, <2>2 DEF t
<1>6. CASE x # Head(s)
  <2>1. P = R
    BY <1>1, <1>2, <1>6
  <2> HIDE DEF P, Q, R
  <2>2. Cardinality(P) = Cardinality(R)
    BY <2>1
  <2>. QED
    BY <1>1, <1>3, <1>4, <1>6, <2>2 DEF t
<1>. QED
  BY <1>5, <1>6

\* One less at the end.
LEMMA NumFront ==
    ASSUME NEW S, NEW s \in Seq(S), s # <<>>, NEW x
    PROVE  /\ Num(s, x) = Num(SubSeq(s, 1, Len(s) - 1), x)
                          + (IF x = s[Len(s)] THEN 1 ELSE 0)
           /\ SubSeq(s, 1, Len(s) - 1) \in Seq(S)
<1>1. PICK r \in Seq(S), e \in S : s = Append(r, e)
  BY SequenceEmptyOrAppend
<1>2. Len(s) = Len(r) + 1 /\ s[Len(s)] = e /\ Len(r) \in Nat
      /\ \A j \in 1..Len(r) : s[j] = r[j]
  BY <1>1, AppendProperties, LenProperties
<1>3. SubSeq(s, 1, Len(s) - 1) = r
  <2> DEFINE q == SubSeq(s, 1, Len(r))
  <2>1. \A j \in 1..Len(r) : s[j] \in S
    BY <1>2, ElementOfSeq
  <2>2. q \in Seq(S) /\ Len(q) = Len(r) /\ \A j \in 1..Len(r) : q[j] = s[j]
    BY <1>2, <2>1, SubSeqProperties
  <2>3. q = r
    BY <1>2, <2>2, SeqEqual
  <2>. QED
    BY <1>2, <2>3
<1>4. Num(Append(r, e), x) = Num(r, x) + (IF x = e THEN 1 ELSE 0)
  BY NumAppend
<1>. QED
  BY <1>1, <1>2, <1>3, <1>4

-----------------------------------------------------------------------------
\* A step takes the message m from the queue and posts n (Nothing is neither).
Nothing == "nothing"
Moves(m, n) ==
    \A x \in Messages :
        Posted(x)' = Posted(x) - (IF x = m THEN 1 ELSE 0) + (IF x = n THEN 1 ELSE 0)

\* The same for the boxes: b is closed, c is opened.
Boxed(b, c) ==
    \A x \in {"confirm", "notify"} :
        Count(x)' = Count(x) - (IF x = b THEN 1 ELSE 0) + (IF x = c THEN 1 ELSE 0)

\* Messages and boxes are counted with numbers.
LEMMA CountTypes ==
    Queues => /\ \A x : Posted(x) \in Nat
              /\ \A x : Count(x) \in Nat
              /\ posted = <<>> => \A x : Posted(x) = 0
              /\ boxes = <<>> => \A x : Count(x) = 0
<1> SUFFICES ASSUME Queues
             PROVE  /\ \A x : Posted(x) \in Nat
                    /\ \A x : Count(x) \in Nat
                    /\ posted = <<>> => \A x : Posted(x) = 0
                    /\ boxes = <<>> => \A x : Count(x) = 0
  OBVIOUS
<1>1. \A x : Posted(x) = Num(posted, x) /\ Count(x) = Num(boxes, x)
  BY DEF Posted, Count, Num
<1>. QED
  BY <1>1, NumType, NumEmpty DEF Queues

\* A thread or the window posts a message (PostMessage).
LEMMA Posts ==
    ASSUME Queues, NEW m \in Messages, Post(m)
    PROVE  Moves(Nothing, m) /\ posted' \in Seq(Messages)
<1>1. posted' \in Seq(Messages)
  BY AppendProperties DEF Post, Queues
<1>2. ASSUME NEW x PROVE Posted(x)' = Posted(x) + (IF x = m THEN 1 ELSE 0)
  <2>1. Posted(x)' = Num(posted', x) /\ Posted(x) = Num(posted, x)
    BY DEF Posted, Num
  <2>2. Num(Append(posted, m), x) = Num(posted, x) + (IF x = m THEN 1 ELSE 0)
    BY NumAppend DEF Queues
  <2>. QED
    BY <2>1, <2>2 DEF Post
<1>3. \A x \in Messages : x # Nothing
  BY DEF Messages, Nothing
<1>4. \A x : Posted(x) \in Nat
  BY CountTypes
<1>. QED
  BY <1>1, <1>2, <1>3, <1>4 DEF Moves

\* The window takes a message from its queue (GetMessage).
LEMMA Takes ==
    ASSUME Queues, NEW m \in Messages, Message(m), posted' = Tail(posted)
    PROVE  Moves(m, Nothing) /\ posted' \in Seq(Messages) /\ Posted(m) >= 1
<1>1. posted \in Seq(Messages) /\ posted # <<>> /\ Head(posted) = m
  BY DEF Queues, Message
<1>2. ASSUME NEW x PROVE Posted(x) = Posted(x)' + (IF x = m THEN 1 ELSE 0)
  <2>1. Posted(x)' = Num(posted', x) /\ Posted(x) = Num(posted, x)
    BY DEF Posted, Num
  <2>2. Num(posted, x) = Num(Tail(posted), x) + (IF x = Head(posted) THEN 1 ELSE 0)
    BY <1>1, NumTail
  <2>. QED
    BY <1>1, <2>1, <2>2
<1>3. posted' \in Seq(Messages)
  BY <1>1, NumTail
<1>4. \A x : Posted(x)' \in Nat
  <2>1. ASSUME NEW x PROVE Posted(x)' \in Nat
    <3>1. Posted(x)' = Num(posted', x)
      BY DEF Posted, Num
    <3>. QED
      BY <1>3, <3>1, NumType
  <2>. QED
    BY <2>1
<1>5. \A x \in Messages : x # Nothing
  BY DEF Messages, Nothing
<1>. QED
  BY <1>2, <1>3, <1>4, <1>5 DEF Moves

\* The window takes a message and posts another.
LEMMA TakesAndPosts ==
    ASSUME Queues, NEW m \in Messages, NEW n \in Messages, Message(m),
           posted' = Append(Tail(posted), n)
    PROVE  Moves(m, n) /\ posted' \in Seq(Messages) /\ Posted(m) >= 1
<1> DEFINE rest == Tail(posted)
<1>1. posted \in Seq(Messages) /\ posted # <<>> /\ Head(posted) = m
  BY DEF Queues, Message
<1>2. rest \in Seq(Messages) /\ posted' = Append(rest, n)
  BY <1>1, HeadTailProperties
<1> HIDE DEF rest
<1>3. posted' \in Seq(Messages)
  <2>1. Append(rest, n) \in Seq(Messages)
    BY <1>2, AppendProperties
  <2>. QED
    BY <1>2, <2>1
<1>4. ASSUME NEW x
      PROVE  /\ Posted(x)' = Posted(x) - (IF x = m THEN 1 ELSE 0) + (IF x = n THEN 1 ELSE 0)
             /\ x = m => Posted(x) >= 1
  <2>1. Posted(x)' = Num(posted', x) /\ Posted(x) = Num(posted, x)
    BY DEF Posted, Num
  <2>2. Num(posted, x) = Num(rest, x) + (IF x = m THEN 1 ELSE 0)
    BY <1>1, NumTail DEF rest
  <2>3. Num(Append(rest, n), x) = Num(rest, x) + (IF x = n THEN 1 ELSE 0)
    BY <1>2, NumAppend
  <2>4. Num(rest, x) \in Nat
    BY <1>2, NumType
  <2>. QED
    BY <1>2, <2>1, <2>2, <2>3, <2>4
<1>. QED
  BY <1>3, <1>4 DEF Moves

\* A queue that is left alone.
LEMMA QueueKept ==
    ASSUME Queues, UNCHANGED posted
    PROVE  Moves(Nothing, Nothing) /\ posted' \in Seq(Messages)
<1>1. \A x : Posted(x)' = Posted(x) /\ Posted(x) \in Nat
  BY CountTypes DEF Posted
<1>. QED
  BY <1>1 DEF Moves, Queues

\* A box is opened.
LEMMA Opens ==
    ASSUME Queues, NEW b \in Boxes, Push(b)
    PROVE  Boxed(Nothing, b) /\ boxes' \in Seq(Boxes)
<1>1. boxes' \in Seq(Boxes)
  BY AppendProperties DEF Push, Queues
<1>2. ASSUME NEW x PROVE Count(x)' = Count(x) + (IF x = b THEN 1 ELSE 0)
  <2>1. Count(x)' = Num(boxes', x) /\ Count(x) = Num(boxes, x)
    BY DEF Count, Num
  <2>2. Num(Append(boxes, b), x) = Num(boxes, x) + (IF x = b THEN 1 ELSE 0)
    BY NumAppend DEF Queues
  <2>. QED
    BY <2>1, <2>2 DEF Push
<1>3. \A x : Count(x) \in Nat
  BY CountTypes
<1>. QED
  BY <1>1, <1>2, <1>3 DEF Boxed, Nothing

\* The box on top is closed.
LEMMA Closes ==
    ASSUME Queues, NEW b \in Boxes, BoxOnTop(b), Pop
    PROVE  Boxed(b, Nothing) /\ boxes' \in Seq(Boxes) /\ Count(b) >= 1
<1>1. boxes \in Seq(Boxes) /\ boxes # <<>> /\ boxes[Len(boxes)] = b
  BY DEF Queues, BoxOnTop
<1>2. ASSUME NEW x PROVE Count(x) = Count(x)' + (IF x = b THEN 1 ELSE 0)
  <2>1. Count(x)' = Num(boxes', x) /\ Count(x) = Num(boxes, x)
    BY DEF Count, Num
  <2>2. Num(boxes, x) = Num(SubSeq(boxes, 1, Len(boxes) - 1), x)
                        + (IF x = boxes[Len(boxes)] THEN 1 ELSE 0)
    BY <1>1, NumFront
  <2>. QED
    BY <1>1, <2>1, <2>2 DEF Pop
<1>3. boxes' \in Seq(Boxes)
  BY <1>1, NumFront DEF Pop
<1>4. \A x : Count(x)' \in Nat
  <2>1. ASSUME NEW x PROVE Count(x)' \in Nat
    <3>1. Count(x)' = Num(boxes', x)
      BY DEF Count, Num
    <3>. QED
      BY <1>3, <3>1, NumType
  <2>. QED
    BY <2>1
<1>. QED
  BY <1>2, <1>3, <1>4 DEF Boxed, Nothing

\* Boxes that are left alone.
LEMMA BoxesKept ==
    ASSUME Queues, UNCHANGED boxes
    PROVE  Boxed(Nothing, Nothing) /\ boxes' \in Seq(Boxes)
<1>1. \A x : Count(x)' = Count(x) /\ Count(x) \in Nat
  BY CountTypes DEF Count
<1>. QED
  BY <1>1 DEF Boxed, Queues, Nothing

\* UM_FORMAT_COMPLETED answers open cancel boxes with No, and may open one to notify.
LEMMA BoxesCompleted ==
    ASSUME Queues, NEW status, NEW refresh, Completed(status, refresh)
    PROVE  /\ boxes' \in Seq(Boxes)
           /\ Boxed(Nothing, IF status = "none" THEN Nothing ELSE "notify")
<1> DEFINE under == [i \in DOMAIN boxes |->
                        IF boxes[i] = "cancel" THEN "cancel_no" ELSE boxes[i]]
<1>1. boxes' = IF status = "none" THEN under ELSE Append(under, "notify")
  BY DEF Completed
<1>2. boxes \in [1..Len(boxes) -> Boxes] /\ Len(boxes) \in Nat
      /\ DOMAIN boxes = 1..Len(boxes)
  BY LenProperties DEF Queues
<1>3. under \in [1..Len(boxes) -> Boxes]
  BY <1>2 DEF Boxes
<1>4. under \in Seq(Boxes)
  BY <1>2, <1>3, SeqDef
<1>5. ASSUME NEW x \in {"confirm", "notify"} PROVE Num(under, x) = Count(x) /\ Count(x) \in Nat
  <2>1. {j \in DOMAIN under : under[j] = x} = {j \in DOMAIN boxes : boxes[j] = x}
    OBVIOUS
  <2> HIDE DEF under
  <2>. QED
    BY <2>1, CountTypes DEF Num, Count
<1>6. "notify" \in Boxes
  BY DEF Boxes
<1> HIDE DEF under
<1>7. ASSUME NEW x \in {"confirm", "notify"}
      PROVE  Num(Append(under, "notify"), x) = Count(x) + (IF x = "notify" THEN 1 ELSE 0)
  <2>1. Num(Append(under, "notify"), x) = Num(under, x) + (IF x = "notify" THEN 1 ELSE 0)
    BY <1>4, <1>6, NumAppend
  <2>. QED
    BY <2>1, <1>5
<1>8. \A x : Count(x)' = Num(boxes', x)
  BY DEF Count, Num
<1>9. boxes' \in Seq(Boxes)
  BY <1>1, <1>4, <1>6, AppendProperties
<1>10. CASE status = "none"
  BY <1>1, <1>5, <1>8, <1>9, <1>10 DEF Boxed, Nothing
<1>11. CASE status # "none"
  BY <1>1, <1>5, <1>7, <1>8, <1>9, <1>11 DEF Boxed, Nothing
<1>. QED
  BY <1>10, <1>11

-----------------------------------------------------------------------------
\* The flags among the variables.
Flags ==
    /\ op_in_progress \in BOOLEAN /\ zero_drive \in BOOLEAN /\ image_path \in BOOLEAN
    /\ no_confirmation_on_cancel \in BOOLEAN /\ cancel_enabled \in BOOLEAN
    /\ queued_hotplug_event \in BOOLEAN /\ refresh_timer \in BOOLEAN
    /\ closed \in BOOLEAN /\ asked_zero \in BOOLEAN /\ user_cancelled \in BOOLEAN
    /\ overlap \in BOOLEAN

\* Those with values of other kinds.
Values ==
    /\ format_thread \in Kinds \cup {"null"} /\ ErrorStatus \in Statuses
    /\ list \subseteq Devices /\ connected \subseteq Devices
    /\ selected \in list \cup {NoDevice}
    /\ download \in {"none", "running", "ending"}
    /\ {confirmed, target} \subseteq Devices \cup {NoDevice}
    /\ verdict \in Statuses \cup {"open"}
    /\ told \in {"nothing", "ready", "cancelled", "error"}
    /\ meddled \subseteq Statuses

\* The counters, without the bounds that come from Budget.
Numbers ==
    /\ boot_checks \in Nat /\ scans_starting \in Nat /\ scans \in Nat
    /\ workers \in [Kinds -> Nat]
    /\ operations \in 0..MaxOps /\ images \in 0..MaxScans /\ events \in 0..MaxEvents

\* What is counted is a number.
LEMMA Counted ==
    Queues /\ Numbers =>
        /\ Posted("IDC_START") \in Nat /\ Posted("START_PROCEED") \in Nat
        /\ Posted("START_CANCEL") \in Nat /\ Posted("START_ERROR") \in Nat
        /\ Posted("COMPLETED") \in Nat /\ Posted("COMPLETED_REFRESH") \in Nat
        /\ Posted("UM_SELECT_ISO") \in Nat /\ Posted("WM_DROPFILES") \in Nat
        /\ Count("confirm") \in Nat /\ Count("notify") \in Nat
        /\ workers["format"] \in Nat /\ workers["hash"] \in Nat /\ workers["save"] \in Nat
        /\ boot_checks \in Nat /\ scans_starting \in Nat /\ scans \in Nat
        /\ operations \in Nat /\ images \in Nat
<1> SUFFICES ASSUME Queues, Numbers
             PROVE  /\ workers["format"] \in Nat /\ workers["hash"] \in Nat
                    /\ workers["save"] \in Nat
                    /\ operations \in Nat /\ images \in Nat
  BY CountTypes DEF Numbers
<1>. QED
  BY SessionAssumption DEF Numbers, Kinds

\* The type invariant is the sum of these: nothing that the user did not ask for runs.
LEMMA TypeParts ==
    ASSUME Queues, Budget
    PROVE  TypeOK <=> Flags /\ Values /\ Numbers
<1>1. ASSUME TypeOK PROVE Flags /\ Values /\ Numbers
  <2>1. Flags
    BY <1>1, Zenon DEF TypeOK, Flags
  <2>2. Values
    BY <1>1, Zenon DEF TypeOK, Values
  <2>3. Numbers
    BY <1>1, SessionAssumption DEF TypeOK, Numbers
  <2>. QED
    BY <2>1, <2>2, <2>3
<1>2. ASSUME Flags, Values, Numbers PROVE TypeOK
  <2>1. /\ boot_checks \in 0..MaxOps
        /\ scans_starting \in 0..MaxScans /\ scans \in 0..MaxScans
        /\ workers["format"] \in 0..MaxOps /\ workers["hash"] \in 0..MaxOps
        /\ workers["save"] \in 0..MaxOps
    BY <1>2, Counted, SessionAssumption
    DEF Budget, Operations, Starting, Failed, Working, Reports,
       Numbers
  <2>2. workers \in [Kinds -> 0..MaxOps]
    BY <1>2, <2>1 DEF Numbers, Kinds
  <2>3. /\ \A i \in DOMAIN posted : posted[i] \in Messages
        /\ \A i \in DOMAIN boxes : boxes[i] \in Boxes
    BY LenProperties, ElementOfSeq DEF Queues
  <2>. QED
    BY <1>2, <2>1, <2>2, <2>3, Zenon DEF TypeOK, Flags, Values, Numbers, Boxes
<1>. QED
  BY <1>1, <1>2

-----------------------------------------------------------------------------
\* The steps of the session (win_rufus.c), one by one.
LEMMA Steps ==
    [Next]_vars =>
        \/ ClickStart
        \/ PressAltZ
        \/ (\E k \in {"hash", "save"} : StartWorker(k))
        \/ ClickSelect
        \/ DropFile
        \/ ClickDownload
        \/ ClickCancel
        \/ CloseWindow
        \/ SelectDevice
        \/ BootCheckThread
        \/ (\E k \in Kinds : WorkerEnds(k))
        \/ ScanBegins
        \/ ScanEnds
        \/ DownloadDone
        \/ DownloadEnds
        \/ HandleStart
        \/ AskToProceed
        \/ StartCancelled
        \/ StartFailed
        \/ ConfirmAnswered
        \/ HandleCompleted
        \/ NotifyClosed
        \/ HandleSelect
        \/ CancelAnswered
        \/ RefreshTimer
        \/ HotPlug
        \/ BackgroundCheck
        \/ UNCHANGED vars
  BY DEF Next, Noted, User, Threads, MainThread, ThreadStep, MainStep, Closed

\* Two things side by side are noted, and nothing happens in a closed window.
LEMMA Noting ==
    [Next]_vars => \/ overlap' = (overlap \/ SideBySide') /\ ~ closed
                   \/ UNCHANGED vars
  BY DEF Next, Noted, User, ThreadStep, MainStep, Closed, HotPlug, BackgroundCheck, Input, ClickStart,
        PressAltZ, StartWorker, ClickSelect, DropFile, ClickDownload, ClickCancel,
        CloseWindow, SelectDevice

\* Flags stay flags: each is set from another or from a comparison.
LEMMA FlagsStep == Flags /\ [Next]_vars => Flags'
<1> SUFFICES ASSUME Flags, [Next]_vars PROVE Flags'
  OBVIOUS
<1>0. overlap' \in BOOLEAN
  <2>1. CASE overlap' = (overlap \/ SideBySide')
    BY <2>1, Zenon
  <2>2. CASE UNCHANGED vars
    BY <2>2, Zenon DEF vars, Flags
  <2>. QED
    BY <2>1, <2>2, Noting
<1>1. CASE ClickStart
  BY <1>1, <1>0, Zenon DEF Flags, ClickStart, NewOperation, StartBootCheck,
        Enabled, controls, deviceVars, threadVars, countVars, opHistory
<1>2. CASE PressAltZ
  BY <1>2, <1>0, Zenon DEF Flags, PressAltZ, Post, controls, deviceVars,
        threadVars, countVars, opHistory
<1>3. CASE \E k \in {"hash", "save"} : StartWorker(k)
  BY <1>3, <1>0, Zenon DEF Flags, StartWorker, NewOperation, Enabled, Post,
        controls, deviceVars, threadVars, countVars, opHistory
<1>4. CASE ClickSelect
  BY <1>4, <1>0, Zenon DEF Flags, ClickSelect, StartScan, controls, deviceVars,
        threadVars, countVars, opHistory
<1>5. CASE DropFile
  BY <1>5, <1>0, Zenon DEF Flags, DropFile, controls, deviceVars, threadVars,
        countVars, opHistory
<1>6. CASE ClickDownload
  BY <1>6, <1>0, Zenon DEF Flags, ClickDownload, Enabled, controls, deviceVars,
        threadVars, countVars, opHistory
<1>7. CASE ClickCancel
  BY <1>7, <1>0, Zenon DEF Flags, ClickCancel, Push, controls, deviceVars,
        threadVars, countVars, opHistory
<1>8. CASE CloseWindow
  BY <1>8, <1>0, Zenon DEF Flags, CloseWindow, controls, deviceVars, threadVars,
        countVars, opHistory
<1>9. CASE SelectDevice
  BY <1>9, <1>0, Zenon DEF Flags, SelectDevice, controls, deviceVars, threadVars,
        countVars, opHistory
<1>10. CASE BootCheckThread
  BY <1>10, <1>0, Zenon DEF Flags, BootCheckThread, controls, deviceVars,
        threadVars, countVars, opHistory
<1>11. CASE \E k \in Kinds : WorkerEnds(k)
  BY <1>11, <1>0, Zenon DEF Flags, WorkerEnds, controls, deviceVars, threadVars,
        countVars, opHistory
<1>12. CASE ScanBegins
  BY <1>12, <1>0, Zenon DEF Flags, ScanBegins, Enabled, controls, deviceVars,
        threadVars, countVars, opHistory
<1>13. CASE ScanEnds
  BY <1>13, <1>0, Zenon DEF Flags, ScanEnds, Enabled, controls, deviceVars,
        threadVars, countVars, opHistory
<1>14. CASE DownloadDone
  BY <1>14, <1>0, Zenon DEF Flags, DownloadDone, controls, deviceVars, threadVars,
        countVars, opHistory
<1>15. CASE DownloadEnds
  BY <1>15, <1>0, Zenon DEF Flags, DownloadEnds, Enabled, controls, deviceVars,
        threadVars, countVars, opHistory
<1>16. CASE HandleStart
  BY <1>16, <1>0, Zenon DEF Flags, HandleStart, NewOperation, StartBootCheck,
        Enabled, controls, deviceVars, threadVars, countVars, opHistory
<1>17. CASE AskToProceed
  BY <1>17, <1>0, Zenon DEF Flags, AskToProceed, controls, deviceVars, threadVars,
        countVars, opHistory
<1>18. CASE StartCancelled
  BY <1>18, <1>0, Zenon DEF Flags, StartCancelled, AbortedStart, MediaChange,
        GetDevices, Enabled, controls, deviceVars, threadVars, countVars,
        opHistory
<1>19. CASE StartFailed
  BY <1>19, <1>0, Zenon DEF Flags, StartFailed, Completed, GetDevices, Enabled,
        controls, deviceVars, threadVars, countVars, opHistory
<1>20. CASE ConfirmAnswered
  BY <1>20, <1>0, Zenon DEF Flags, ConfirmAnswered, AbortedStart, MediaChange,
        GetDevices, Enabled, controls, deviceVars, threadVars, countVars,
        opHistory
<1>21. CASE HandleCompleted
  BY <1>21, <1>0, Zenon DEF Flags, HandleCompleted, Completed, GetDevices,
        Enabled, controls, deviceVars, threadVars, countVars, opHistory
<1>22. CASE NotifyClosed
  BY <1>22, <1>0, Zenon DEF Flags, NotifyClosed, controls, deviceVars, threadVars,
        countVars, opHistory
<1>23. CASE HandleSelect
  BY <1>23, <1>0, Zenon DEF Flags, HandleSelect, StartScan, controls, deviceVars,
        threadVars, countVars, opHistory
<1>24. CASE CancelAnswered
  BY <1>24, <1>0, Zenon DEF Flags, CancelAnswered, controls, deviceVars,
        threadVars, countVars, opHistory
<1>25. CASE RefreshTimer
  BY <1>25, <1>0, Zenon DEF Flags, RefreshTimer, MediaChange, GetDevices,
        controls, deviceVars, threadVars, countVars, opHistory
<1>26. CASE HotPlug
  BY <1>26, <1>0, Zenon DEF Flags, HotPlug, MediaChange, GetDevices, controls,
        deviceVars, threadVars, countVars, opHistory
<1>28. CASE BackgroundCheck
  BY <1>28, <1>0, Zenon DEF Flags, BackgroundCheck, controls, deviceVars, threadVars
<1>27. CASE UNCHANGED vars
  BY <1>27, <1>0, Zenon DEF Flags, vars, controls, deviceVars, threadVars,
        countVars, opHistory
<1>. QED
  BY <1>1, <1>2, <1>3, <1>4, <1>5, <1>6, <1>7, <1>8, <1>9, <1>10, <1>11, <1>12,
        <1>13, <1>14, <1>15, <1>16, <1>17, <1>18, <1>19, <1>20, <1>21, <1>22,
        <1>23, <1>24, <1>25, <1>26, <1>27, <1>28, Steps

\* The other values stay in their sets: in particular what is selected is in the list.
LEMMA ValuesStep == Values /\ [Next]_vars => Values'
<1> SUFFICES ASSUME Values, [Next]_vars PROVE Values'
  OBVIOUS
<1>1. CASE ClickStart
  BY <1>1 DEF Values, Kinds, Statuses, ClickStart, NewOperation, StartBootCheck,
        Enabled, controls, deviceVars, threadVars, countVars, opHistory
<1>2. CASE PressAltZ
  BY <1>2 DEF Values, Kinds, Statuses, PressAltZ, Post, controls, deviceVars,
        threadVars, countVars, opHistory
<1>3. CASE \E k \in {"hash", "save"} : StartWorker(k)
  BY <1>3 DEF Values, Kinds, Statuses, StartWorker, NewOperation, Enabled, Post,
        controls, deviceVars, threadVars, countVars, opHistory
<1>4. CASE ClickSelect
  BY <1>4 DEF Values, Kinds, Statuses, ClickSelect, StartScan, controls,
        deviceVars, threadVars, countVars, opHistory
<1>5. CASE DropFile
  BY <1>5 DEF Values, Kinds, Statuses, DropFile, controls, deviceVars, threadVars,
        countVars, opHistory
<1>6. CASE ClickDownload
  BY <1>6 DEF Values, Kinds, Statuses, ClickDownload, Enabled, controls,
        deviceVars, threadVars, countVars, opHistory
<1>7. CASE ClickCancel
  BY <1>7 DEF Values, Kinds, Statuses, ClickCancel, Push, controls, deviceVars,
        threadVars, countVars, opHistory
<1>8. CASE CloseWindow
  BY <1>8 DEF Values, Kinds, Statuses, CloseWindow, controls, deviceVars,
        threadVars, countVars, opHistory
<1>9. CASE SelectDevice
  BY <1>9 DEF Values, Kinds, Statuses, SelectDevice, controls, deviceVars,
        threadVars, countVars, opHistory
<1>10. CASE BootCheckThread
  BY <1>10 DEF Values, Kinds, Statuses, BootCheckThread, controls, deviceVars,
        threadVars, countVars, opHistory
<1>11. CASE \E k \in Kinds : WorkerEnds(k)
  BY <1>11 DEF Values, Kinds, Statuses, WorkerEnds, controls, deviceVars,
        threadVars, countVars, opHistory
<1>12. CASE ScanBegins
  BY <1>12 DEF Values, Kinds, Statuses, ScanBegins, Enabled, controls, deviceVars,
        threadVars, countVars, opHistory
<1>13. CASE ScanEnds
  BY <1>13 DEF Values, Kinds, Statuses, ScanEnds, Enabled, controls, deviceVars,
        threadVars, countVars, opHistory
<1>14. CASE DownloadDone
  BY <1>14 DEF Values, Kinds, Statuses, DownloadDone, controls, deviceVars,
        threadVars, countVars, opHistory
<1>15. CASE DownloadEnds
  BY <1>15 DEF Values, Kinds, Statuses, DownloadEnds, Enabled, controls,
        deviceVars, threadVars, countVars, opHistory
<1>16. CASE HandleStart
  BY <1>16 DEF Values, Kinds, Statuses, HandleStart, NewOperation, StartBootCheck,
        Enabled, controls, deviceVars, threadVars, countVars, opHistory
<1>17. CASE AskToProceed
  BY <1>17 DEF Values, Kinds, Statuses, AskToProceed, controls, deviceVars,
        threadVars, countVars, opHistory
<1>18. CASE StartCancelled
  BY <1>18 DEF Values, Kinds, Statuses, StartCancelled, AbortedStart, MediaChange,
        GetDevices, Enabled, controls, deviceVars, threadVars, countVars,
        opHistory
<1>19. CASE StartFailed
  BY <1>19 DEF Values, Kinds, Statuses, StartFailed, Completed, GetDevices,
        Enabled, controls, deviceVars, threadVars, countVars, opHistory
<1>20. CASE ConfirmAnswered
  BY <1>20 DEF Values, Kinds, Statuses, ConfirmAnswered, AbortedStart,
        MediaChange, GetDevices, Enabled, controls, deviceVars, threadVars,
        countVars, opHistory
<1>21. CASE HandleCompleted
  BY <1>21 DEF Values, Kinds, Statuses, HandleCompleted, Completed, GetDevices,
        Enabled, controls, deviceVars, threadVars, countVars, opHistory
<1>22. CASE NotifyClosed
  BY <1>22 DEF Values, Kinds, Statuses, NotifyClosed, controls, deviceVars,
        threadVars, countVars, opHistory
<1>23. CASE HandleSelect
  BY <1>23 DEF Values, Kinds, Statuses, HandleSelect, StartScan, controls,
        deviceVars, threadVars, countVars, opHistory
<1>24. CASE CancelAnswered
  BY <1>24 DEF Values, Kinds, Statuses, CancelAnswered, controls, deviceVars,
        threadVars, countVars, opHistory
<1>25. CASE RefreshTimer
  BY <1>25 DEF Values, Kinds, Statuses, RefreshTimer, MediaChange, GetDevices,
        controls, deviceVars, threadVars, countVars, opHistory
<1>26. CASE HotPlug
  BY <1>26 DEF Values, Kinds, Statuses, HotPlug, MediaChange, GetDevices,
        controls, deviceVars, threadVars, countVars, opHistory
<1>28. CASE BackgroundCheck
  BY <1>28 DEF Values, Statuses, BackgroundCheck, controls, deviceVars, threadVars
<1>27. CASE UNCHANGED vars
  BY <1>27 DEF Values, Kinds, Statuses, vars, controls, deviceVars, threadVars,
        countVars, opHistory
<1>. QED
  BY <1>1, <1>2, <1>3, <1>4, <1>5, <1>6, <1>7, <1>8, <1>9, <1>10, <1>11, <1>12,
        <1>13, <1>14, <1>15, <1>16, <1>17, <1>18, <1>19, <1>20, <1>21, <1>22,
        <1>23, <1>24, <1>25, <1>26, <1>27, <1>28, Steps

-----------------------------------------------------------------------------
\* What holds of a session in which nothing ran side by side.
Sound == Alone /\ Reported /\ Chosen

\* Operations are where their tokens are.
LEMMA Sums ==
    Queues /\ Numbers =>
        /\ Operations \in Nat /\ Starting \in Nat /\ Failed \in Nat /\ Working \in Nat
        /\ Reports \in Nat /\ ImageThreads \in Nat
        /\ Operations = Starting + Failed + Working + Reports
        /\ Posted("COMPLETED") <= Reports /\ Count("confirm") <= Starting
        /\ boot_checks <= Starting /\ Posted("START_PROCEED") <= Starting
<1> SUFFICES ASSUME Queues, Numbers
             PROVE  /\ Operations \in Nat /\ Starting \in Nat /\ Failed \in Nat
                    /\ Working \in Nat /\ Reports \in Nat /\ ImageThreads \in Nat
                    /\ Operations = Starting + Failed + Working + Reports
                    /\ Posted("COMPLETED") <= Reports /\ Count("confirm") <= Starting
                    /\ boot_checks <= Starting /\ Posted("START_PROCEED") <= Starting
  OBVIOUS
<1>. QED
  BY Counted DEF Operations, Starting, Failed, Working, Reports, ImageThreads

\* The tokens of operations stay where they are.
OpsKept ==
    /\ Operations' = Operations /\ Starting' = Starting /\ Working' = Working
    /\ Reports' = Reports /\ Posted("COMPLETED")' = Posted("COMPLETED")
    /\ Count("confirm")' = Count("confirm")

\* So it is in a step that moves other messages and boxes only.
LEMMA Keeping ==
    ASSUME Queues, Numbers, NEW m, NEW n, NEW b, NEW c, Moves(m, n), Boxed(b, c),
           m \in {"IDC_START", "UM_SELECT_ISO", "WM_DROPFILES", Nothing},
           n \in {"IDC_START", "UM_SELECT_ISO", "WM_DROPFILES", Nothing},
           b # "confirm", c # "confirm", UNCHANGED <<boot_checks, workers>>
    PROVE  OpsKept
<1>1. /\ Posted("START_PROCEED")' = Posted("START_PROCEED")
      /\ Posted("START_CANCEL")' = Posted("START_CANCEL")
      /\ Posted("START_ERROR")' = Posted("START_ERROR")
      /\ Posted("COMPLETED")' = Posted("COMPLETED")
      /\ Posted("COMPLETED_REFRESH")' = Posted("COMPLETED_REFRESH")
  BY Counted DEF Moves, Messages, Nothing
<1>2. Count("confirm")' = Count("confirm")
  BY Counted DEF Boxed
<1>. QED
  BY <1>1, <1>2 DEF OpsKept, Operations, Starting, Failed, Working, Reports

\* Messages and boxes that no step of this kind touches.
LEMMA AllKept ==
    ASSUME Queues, Numbers, UNCHANGED <<posted, boxes, boot_checks, workers>>
    PROVE  /\ OpsKept /\ Queues'
           /\ Posted("IDC_START")' = Posted("IDC_START")
           /\ Posted("UM_SELECT_ISO")' = Posted("UM_SELECT_ISO")
           /\ Posted("WM_DROPFILES")' = Posted("WM_DROPFILES")
           /\ Count("notify")' = Count("notify")
<1>1. \A x : Posted(x)' = Posted(x) /\ Count(x)' = Count(x)
  BY DEF Posted, Count
<1>. QED
  BY <1>1 DEF OpsKept, Operations, Starting, Failed, Working, Reports, Queues

\* When the window takes clicks and its controls are enabled, nothing is going on.
LEMMA InputIsIdle ==
    ASSUME Queues, Numbers, Sound, Input, ~ op_in_progress
    PROVE  /\ Operations = 0 /\ Starting = 0 /\ Working = 0 /\ Reports = 0
           /\ download = "none" /\ format_thread = "null" /\ ~ zero_drive
           /\ Posted("IDC_START") = 0 /\ Posted("UM_SELECT_ISO") = 0
           /\ Posted("COMPLETED") = 0 /\ Posted("COMPLETED_REFRESH") = 0
           /\ Count("notify") = 0 /\ Count("confirm") = 0
<1>1. \A x : Posted(x) = 0 /\ Count(x) = 0
  BY CountTypes DEF Input
<1>2. Operations = 0
  BY <1>1, Sums DEF Sound, Alone
<1>. QED
  BY <1>1, <1>2, Sums, Counted DEF Sound, Alone, Chosen

\* The invariant but for the types of the values.
Good == Queues /\ Numbers /\ Budget /\ (~ overlap => Sound)

-----------------------------------------------------------------------------
\* Alt-Z posts a click on Start; nothing else is going on.
LEMMA PressAltZKeeps ==
    ASSUME Good, PressAltZ, overlap' = (overlap \/ SideBySide')
    PROVE  Good'
<1> USE DEF Good
<1>0. /\ Post("IDC_START") /\ UNCHANGED <<boxes, boot_checks, workers, scans_starting, scans,
             download, images, op_in_progress, closed, format_thread, opHistory,
             ErrorStatus, selected, events>>
      /\ operations < MaxOps /\ operations' = operations + 1 /\ zero_drive' = TRUE
      /\ Input /\ ~ op_in_progress
  BY DEF PressAltZ, controls, threadVars, deviceVars
<1>1. Moves(Nothing, "IDC_START") /\ posted' \in Seq(Messages)
  BY <1>0, Posts DEF Messages
<1>2. Boxed(Nothing, Nothing) /\ boxes' \in Seq(Boxes)
  BY <1>0, BoxesKept
<1>3. OpsKept
  BY <1>0, <1>1, <1>2, Keeping DEF Nothing
<1>4. /\ Posted("IDC_START")' = Posted("IDC_START") + 1
      /\ Posted("UM_SELECT_ISO")' = Posted("UM_SELECT_ISO")
      /\ Posted("WM_DROPFILES")' = Posted("WM_DROPFILES")
      /\ Count("notify")' = Count("notify")
  BY <1>1, <1>2, Counted DEF Moves, Boxed, Messages, Nothing
<1>5. Numbers'
  BY <1>0, SessionAssumption DEF Numbers
<1>6. \A x : Posted(x) = 0
  BY <1>0, CountTypes DEF Input
<1>7. Budget'
  BY <1>0, <1>3, <1>4, <1>6, Counted, Sums DEF Budget, OpsKept
<1>8. ASSUME ~ overlap' PROVE Sound'
  <2>1. /\ Operations = 0 /\ Starting = 0 /\ Working = 0 /\ Reports = 0
        /\ download = "none" /\ format_thread = "null" /\ Posted("UM_SELECT_ISO") = 0
        /\ Count("notify") = 0 /\ Count("confirm") = 0
    BY <1>0, <1>8, InputIsIdle
  <2>2. Alone'
    BY <1>0, <1>3, <1>4, <1>8, <2>1 DEF Sound, Alone, OpsKept
  <2>3. Reported'
    BY <1>0, <1>3, <1>8, <2>1 DEF Sound, Reported, OpsKept, opHistory
  <2>4. Chosen'
    BY <1>0, <1>3, <1>4, <1>8, <2>1, <1>6 DEF Sound, Chosen, OpsKept
  <2>. QED
    BY <2>2, <2>3, <2>4 DEF Sound
<1>. QED
  BY <1>1, <1>2, <1>5, <1>7, <1>8 DEF Queues

\* An image is selected while nothing is going on.
LEMMA ClickSelectKeeps ==
    ASSUME Good, ClickSelect, overlap' = (overlap \/ SideBySide')
    PROVE  Good'
<1> USE DEF Good
<1>0. /\ UNCHANGED <<posted, boxes, boot_checks, workers, operations, events, scans, download,
            op_in_progress, closed, format_thread, zero_drive, selected,
            asked_zero, user_cancelled, confirmed, target, verdict, told, meddled>>
      /\ images < MaxScans /\ images' = images + 1
      /\ scans_starting' \in {scans_starting, scans_starting + 1}
      /\ Input /\ ~ op_in_progress
  BY DEF ClickSelect, StartScan, controls, deviceVars, threadVars, countVars,
        opHistory
<1>1. /\ OpsKept /\ Queues'
      /\ Posted("IDC_START")' = Posted("IDC_START")
      /\ Posted("UM_SELECT_ISO")' = Posted("UM_SELECT_ISO")
      /\ Posted("WM_DROPFILES")' = Posted("WM_DROPFILES")
      /\ Count("notify")' = Count("notify")
  BY <1>0, AllKept
<1>2. Numbers'
  BY <1>0, SessionAssumption DEF Numbers
<1>3. Budget'
  BY <1>0, <1>1, <1>2, Counted, Sums DEF Budget, OpsKept, Numbers
<1>4. ASSUME ~ overlap' PROVE Sound'
  <2>0. Sound /\ ~ SideBySide'
    BY <1>4
  <2>1. /\ Operations = 0 /\ Starting = 0 /\ Working = 0 /\ Reports = 0
        /\ download = "none" /\ format_thread = "null"
        /\ Posted("IDC_START") = 0 /\ Posted("UM_SELECT_ISO") = 0
        /\ Count("confirm") = 0
    BY <1>0, <2>0, InputIsIdle
  <2>2. Alone'
    BY <1>0, <1>1, <2>0, <2>1 DEF Sound, Alone, OpsKept
  <2>3. Reported'
    BY <1>0, <1>1, <2>0, <2>1 DEF Sound, Reported, OpsKept
  <2>4. Chosen'
    BY <1>0, <1>1, <2>0, <2>1 DEF Sound, Chosen, OpsKept, Alone
  <2>. QED
    BY <2>2, <2>3, <2>4 DEF Sound
<1>. QED
  BY <1>1, <1>2, <1>3, <1>4

\* A download is started while nothing is going on, and disables the controls.
LEMMA ClickDownloadKeeps ==
    ASSUME Good, ClickDownload, overlap' = (overlap \/ SideBySide')
    PROVE  Good'
<1> USE DEF Good
<1>0. /\ UNCHANGED <<posted, boxes, boot_checks, workers, operations, events, scans,
            scans_starting, closed, format_thread, zero_drive, selected,
            asked_zero, user_cancelled, confirmed, target, verdict, told, meddled>>
      /\ images < MaxScans /\ images' = images + 1
      /\ \/ download' = "running" /\ op_in_progress' = TRUE
         \/ download' = download /\ op_in_progress' = FALSE
      /\ Input /\ ~ op_in_progress /\ download = "none"
  BY DEF ClickDownload, Enabled, controls, deviceVars, threadVars, countVars,
        opHistory
<1>1. /\ OpsKept /\ Queues'
      /\ Posted("IDC_START")' = Posted("IDC_START")
      /\ Posted("UM_SELECT_ISO")' = Posted("UM_SELECT_ISO")
      /\ Posted("WM_DROPFILES")' = Posted("WM_DROPFILES")
      /\ Count("notify")' = Count("notify")
  BY <1>0, AllKept
<1>2. Numbers'
  BY <1>0, SessionAssumption DEF Numbers
<1>3. Budget'
  BY <1>0, <1>1, <1>2, Counted, Sums DEF Budget, OpsKept, Numbers
<1>4. ASSUME ~ overlap' PROVE Sound'
  <2>0. Sound /\ ~ SideBySide'
    BY <1>4
  <2>1. /\ Operations = 0 /\ Starting = 0 /\ Working = 0 /\ Reports = 0
        /\ download = "none" /\ format_thread = "null"
        /\ Posted("IDC_START") = 0 /\ Posted("UM_SELECT_ISO") = 0
        /\ Count("confirm") = 0
    BY <1>0, <2>0, InputIsIdle
  <2>2. Alone'
    BY <1>0, <1>1, <2>0, <2>1 DEF Sound, Alone, OpsKept
  <2>3. Reported'
    BY <1>0, <1>1, <2>0, <2>1 DEF Sound, Reported, OpsKept
  <2>4. Chosen'
    BY <1>0, <1>1, <2>0, <2>1 DEF Sound, Chosen, OpsKept, Alone
  <2>. QED
    BY <2>2, <2>3, <2>4 DEF Sound
<1>. QED
  BY <1>1, <1>2, <1>3, <1>4

\* The window is closed when nothing is going on.
LEMMA CloseWindowKeeps ==
    ASSUME Good, CloseWindow, overlap' = (overlap \/ SideBySide')
    PROVE  Good'
<1> USE DEF Good
<1>0. /\ UNCHANGED <<posted, boxes, boot_checks, workers, operations, images, events, scans,
            scans_starting, download, op_in_progress, format_thread, zero_drive,
            selected, ErrorStatus, asked_zero, user_cancelled, confirmed, target,
            verdict, told, meddled>>
      /\ Input /\ ~ op_in_progress
  BY DEF CloseWindow, controls, deviceVars, threadVars, countVars, opHistory
<1>1. /\ OpsKept /\ Queues'
      /\ Posted("IDC_START")' = Posted("IDC_START")
      /\ Posted("UM_SELECT_ISO")' = Posted("UM_SELECT_ISO")
      /\ Posted("WM_DROPFILES")' = Posted("WM_DROPFILES")
      /\ Count("notify")' = Count("notify")
  BY <1>0, AllKept
<1>2. Numbers'
  BY <1>0, SessionAssumption DEF Numbers
<1>3. Budget'
  BY <1>0, <1>1, <1>2, Counted, Sums DEF Budget, OpsKept, Numbers
<1>4. ASSUME ~ overlap' PROVE Sound'
  <2>0. Sound /\ ~ SideBySide'
    BY <1>4
  <2>1. /\ Operations = 0 /\ Starting = 0 /\ Working = 0 /\ Reports = 0
        /\ download = "none" /\ format_thread = "null"
        /\ Posted("IDC_START") = 0 /\ Posted("UM_SELECT_ISO") = 0
        /\ Count("confirm") = 0
    BY <1>0, <2>0, InputIsIdle
  <2>2. Alone'
    BY <1>0, <1>1, <2>0, <2>1 DEF Sound, Alone, OpsKept
  <2>3. Reported'
    BY <1>0, <1>1, <2>0, <2>1 DEF Sound, Reported, OpsKept
  <2>4. Chosen'
    BY <1>0, <1>1, <2>0, <2>1 DEF Sound, Chosen, OpsKept, Alone
  <2>. QED
    BY <2>2, <2>3, <2>4 DEF Sound
<1>. QED
  BY <1>1, <1>2, <1>3, <1>4

\* Another drive is selected when nothing is going on.
LEMMA SelectDeviceKeeps ==
    ASSUME Good, SelectDevice, overlap' = (overlap \/ SideBySide')
    PROVE  Good'
<1> USE DEF Good
<1>0. /\ UNCHANGED <<posted, boxes, boot_checks, workers, operations, images, events, scans,
            scans_starting, download, closed, op_in_progress, format_thread,
            zero_drive, ErrorStatus, asked_zero, user_cancelled, confirmed,
            target, verdict, told, meddled>>
      /\ Input /\ ~ op_in_progress
  BY DEF SelectDevice, controls, deviceVars, threadVars, countVars, opHistory
<1>1. /\ OpsKept /\ Queues'
      /\ Posted("IDC_START")' = Posted("IDC_START")
      /\ Posted("UM_SELECT_ISO")' = Posted("UM_SELECT_ISO")
      /\ Posted("WM_DROPFILES")' = Posted("WM_DROPFILES")
      /\ Count("notify")' = Count("notify")
  BY <1>0, AllKept
<1>2. Numbers'
  BY <1>0, SessionAssumption DEF Numbers
<1>3. Budget'
  BY <1>0, <1>1, <1>2, Counted, Sums DEF Budget, OpsKept, Numbers
<1>4. ASSUME ~ overlap' PROVE Sound'
  <2>0. Sound /\ ~ SideBySide'
    BY <1>4
  <2>1. /\ Operations = 0 /\ Starting = 0 /\ Working = 0 /\ Reports = 0
        /\ download = "none" /\ format_thread = "null"
        /\ Posted("IDC_START") = 0 /\ Posted("UM_SELECT_ISO") = 0
        /\ Count("confirm") = 0
    BY <1>0, <2>0, InputIsIdle
  <2>2. Alone'
    BY <1>0, <1>1, <2>0, <2>1 DEF Sound, Alone, OpsKept
  <2>3. Reported'
    BY <1>0, <1>1, <2>0, <2>1 DEF Sound, Reported, OpsKept
  <2>4. Chosen'
    BY <1>0, <1>1, <2>0, <2>1 DEF Sound, Chosen, OpsKept, Alone
  <2>. QED
    BY <2>2, <2>3, <2>4 DEF Sound
<1>. QED
  BY <1>1, <1>2, <1>3, <1>4

\* A scan begins, and disables the controls.
LEMMA ScanBeginsKeeps ==
    ASSUME Good, ScanBegins, overlap' = (overlap \/ SideBySide')
    PROVE  Good'
<1> USE DEF Good
<1>0. /\ UNCHANGED <<posted, boxes, boot_checks, workers, operations, images, events,
            download, closed, format_thread, zero_drive, selected, ErrorStatus,
            asked_zero, user_cancelled, confirmed, target, verdict, told, meddled>>
      /\ scans_starting > 0 /\ scans_starting' = scans_starting - 1
      /\ \/ scans' = scans + 1 /\ op_in_progress' = TRUE
         \/ scans' = scans /\ op_in_progress' = op_in_progress
  BY DEF ScanBegins, Enabled, controls, deviceVars, threadVars, countVars,
        opHistory
<1>1. /\ OpsKept /\ Queues'
      /\ Posted("IDC_START")' = Posted("IDC_START")
      /\ Posted("UM_SELECT_ISO")' = Posted("UM_SELECT_ISO")
      /\ Posted("WM_DROPFILES")' = Posted("WM_DROPFILES")
      /\ Count("notify")' = Count("notify")
  BY <1>0, AllKept
<1>2. Numbers'
  BY <1>0, SessionAssumption DEF Numbers
<1>3. Budget'
  BY <1>0, <1>1, <1>2, Counted, Sums DEF Budget, OpsKept, Numbers
<1>4. ASSUME ~ overlap' PROVE Sound'
  <2>0. Sound /\ ~ SideBySide'
    BY <1>4
  <2>1. /\ Operations \in Nat /\ Starting \in Nat /\ Working \in Nat /\ Reports \in Nat
        /\ Operations >= Starting + Reports /\ Posted("COMPLETED") <= Reports
        /\ Posted("IDC_START") \in Nat /\ Count("confirm") <= Starting
    BY Sums, Counted
  <2>2. Alone'
    BY <1>0, <1>1, <2>0, <2>1 DEF Sound, Alone, OpsKept
  <2>3. Reported'
    BY <1>0, <1>1, <2>0, <2>1 DEF Sound, Reported, OpsKept
  <2>4. Chosen'
    BY <1>0, <1>1, <2>0, <2>1 DEF Sound, Chosen, OpsKept, Alone
  <2>. QED
    BY <2>2, <2>3, <2>4 DEF Sound
<1>. QED
  BY <1>1, <1>2, <1>3, <1>4

\* A scan ends, and enables the controls: it was not beside an operation.
LEMMA ScanEndsKeeps ==
    ASSUME Good, ScanEnds, overlap' = (overlap \/ SideBySide')
    PROVE  Good'
<1> USE DEF Good
<1>0. /\ UNCHANGED <<posted, boxes, boot_checks, workers, operations, images, events,
            scans_starting, download, closed, format_thread, zero_drive, selected,
            asked_zero, user_cancelled, confirmed, target, verdict,
            told, meddled>>
      /\ scans > 0 /\ scans' = scans - 1 /\ op_in_progress' = FALSE
  BY DEF ScanEnds, Enabled, controls, deviceVars, threadVars, countVars,
        opHistory
<1>1. /\ OpsKept /\ Queues'
      /\ Posted("IDC_START")' = Posted("IDC_START")
      /\ Posted("UM_SELECT_ISO")' = Posted("UM_SELECT_ISO")
      /\ Posted("WM_DROPFILES")' = Posted("WM_DROPFILES")
      /\ Count("notify")' = Count("notify")
  BY <1>0, AllKept
<1>2. Numbers'
  BY <1>0, SessionAssumption DEF Numbers
<1>3. Budget'
  BY <1>0, <1>1, <1>2, Counted, Sums DEF Budget, OpsKept, Numbers
<1>4. ASSUME ~ overlap' PROVE Sound'
  <2>0. Sound /\ ~ SideBySide'
    BY <1>4
  <2>1. Operations = 0 /\ Starting = 0 /\ Working = 0 /\ Reports = 0 /\ download = "none"
    <3>1. ~ SideBySide
      BY <2>0 DEF Sound, Alone
    <3>2. Operations \in Nat /\ scans \in Nat /\ scans_starting \in Nat
      BY Sums, Counted
    <3>3. Operations = 0 /\ download = "none"
      BY <1>0, <3>1, <3>2 DEF SideBySide, ImageThreads
    <3>. QED
      BY <3>3, Sums
  <2>2. Alone'
    BY <1>0, <1>1, <2>0, <2>1 DEF Sound, Alone, OpsKept
  <2>3. Reported'
    BY <1>0, <1>1, <2>0, <2>1 DEF Sound, Reported, OpsKept
  <2>4. Chosen'
    BY <1>0, <1>1, <2>0, <2>1 DEF Sound, Chosen, OpsKept, Alone
  <2>. QED
    BY <2>2, <2>3, <2>4 DEF Sound
<1>. QED
  BY <1>1, <1>2, <1>3, <1>4

\* A download ends, and enables the controls: it was not beside an operation.
LEMMA DownloadEndsKeeps ==
    ASSUME Good, DownloadEnds, overlap' = (overlap \/ SideBySide')
    PROVE  Good'
<1> USE DEF Good
<1>0. /\ UNCHANGED <<posted, boxes, boot_checks, workers, operations, images, events,
            scans_starting, scans, closed, format_thread, zero_drive, selected,
            ErrorStatus, asked_zero, user_cancelled, confirmed, target, verdict,
            told, meddled>>
      /\ download = "ending" /\ download' = "none" /\ op_in_progress' = FALSE
  BY DEF DownloadEnds, Enabled, controls, deviceVars, threadVars, countVars,
        opHistory
<1>1. /\ OpsKept /\ Queues'
      /\ Posted("IDC_START")' = Posted("IDC_START")
      /\ Posted("UM_SELECT_ISO")' = Posted("UM_SELECT_ISO")
      /\ Posted("WM_DROPFILES")' = Posted("WM_DROPFILES")
      /\ Count("notify")' = Count("notify")
  BY <1>0, AllKept
<1>2. Numbers'
  BY <1>0, SessionAssumption DEF Numbers
<1>3. Budget'
  BY <1>0, <1>1, <1>2, Counted, Sums DEF Budget, OpsKept, Numbers
<1>4. ASSUME ~ overlap' PROVE Sound'
  <2>0. Sound /\ ~ SideBySide'
    BY <1>4
  <2>1. Operations = 0 /\ Starting = 0 /\ Working = 0 /\ Reports = 0 /\ Posted("IDC_START") = 0
    <3>1. Operations = 0 /\ Posted("IDC_START") = 0
      BY <1>0, <2>0, Sums, Counted DEF Sound, Alone, SideBySide, ImageThreads
    <3>. QED
      BY <3>1, Sums
  <2>2. Alone'
    BY <1>0, <1>1, <2>0, <2>1 DEF Sound, Alone, OpsKept
  <2>3. Reported'
    BY <1>0, <1>1, <2>0, <2>1 DEF Sound, Reported, OpsKept
  <2>4. Chosen'
    BY <1>0, <1>1, <2>0, <2>1 DEF Sound, Chosen, OpsKept, Alone
  <2>. QED
    BY <2>2, <2>3, <2>4 DEF Sound
<1>. QED
  BY <1>1, <1>2, <1>3, <1>4

\* A device comes or goes: the list does not change under an operation.
LEMMA HotPlugKeeps ==
    ASSUME Good, HotPlug, overlap' = (overlap \/ SideBySide')
    PROVE  Good'
<1> USE DEF Good
<1>0. /\ UNCHANGED <<posted, boxes, boot_checks, workers, operations, images,
            scans_starting, scans, download, closed, op_in_progress, format_thread,
            zero_drive, ErrorStatus, asked_zero, user_cancelled, confirmed, target,
            verdict, told, meddled>>
      /\ events < MaxEvents /\ events' = events + 1
      /\ op_in_progress => selected' = selected
  BY DEF HotPlug, MediaChange, GetDevices, controls, deviceVars, threadVars,
        countVars, opHistory
<1>1. /\ OpsKept /\ Queues'
      /\ Posted("IDC_START")' = Posted("IDC_START")
      /\ Posted("UM_SELECT_ISO")' = Posted("UM_SELECT_ISO")
      /\ Posted("WM_DROPFILES")' = Posted("WM_DROPFILES")
      /\ Count("notify")' = Count("notify")
  BY <1>0, AllKept
<1>2. Numbers'
  BY <1>0, SessionAssumption DEF Numbers
<1>3. Budget'
  BY <1>0, <1>1, <1>2, Counted, Sums DEF Budget, OpsKept, Numbers
<1>4. ASSUME ~ overlap' PROVE Sound'
  <2>0. Sound /\ ~ SideBySide'
    BY <1>4
  <2>1. /\ Operations \in Nat /\ Starting \in Nat /\ Reports \in Nat
        /\ Count("confirm") \in Nat /\ Count("confirm") <= Starting
        /\ Starting > 0 => op_in_progress
    BY <2>0, Sums, Counted DEF Sound, Alone
  <2>2. Alone'
    BY <1>0, <1>1, <2>0, <2>1 DEF Sound, Alone, OpsKept
  <2>3. Reported'
    BY <1>0, <1>1, <2>0, <2>1 DEF Sound, Reported, OpsKept
  <2>4. Chosen'
    BY <1>0, <1>1, <2>0, <2>1 DEF Sound, Chosen, OpsKept, Alone
  <2>. QED
    BY <2>2, <2>3, <2>4 DEF Sound
<1>. QED
  BY <1>1, <1>2, <1>3, <1>4

\* A background check writes to ErrorStatus, which is noted.
LEMMA BackgroundCheckKeeps ==
    ASSUME Good, BackgroundCheck, overlap' = (overlap \/ SideBySide')
    PROVE  Good'
<1> USE DEF Good
<1>0. /\ UNCHANGED <<posted, boxes, boot_checks, workers, operations, images,
            scans_starting, scans, download, closed, op_in_progress, format_thread,
            zero_drive, selected, asked_zero, user_cancelled, confirmed, target,
            verdict, told>>
      /\ events < MaxEvents /\ events' = events + 1
      /\ meddled' = meddled \cup {ErrorStatus'}
  BY DEF BackgroundCheck, controls, deviceVars, threadVars
<1>1. /\ OpsKept /\ Queues'
      /\ Posted("IDC_START")' = Posted("IDC_START")
      /\ Posted("UM_SELECT_ISO")' = Posted("UM_SELECT_ISO")
      /\ Posted("WM_DROPFILES")' = Posted("WM_DROPFILES")
      /\ Count("notify")' = Count("notify")
  BY <1>0, AllKept
<1>2. Numbers'
  BY <1>0, SessionAssumption DEF Numbers
<1>3. Budget'
  BY <1>0, <1>1, <1>2, Counted, Sums DEF Budget, OpsKept, Numbers
<1>4. ASSUME ~ overlap' PROVE Sound'
  <2>0. Sound /\ ~ SideBySide'
    BY <1>4
  <2>2. Alone'
    BY <1>0, <1>1, <2>0 DEF Sound, Alone, OpsKept
  <2>3. Reported'
    BY <1>0, <1>1, <2>0 DEF Sound, Reported, OpsKept
  <2>4. Chosen'
    BY <1>0, <1>1, <2>0 DEF Sound, Chosen, OpsKept
  <2>. QED
    BY <2>2, <2>3, <2>4 DEF Sound
<1>. QED
  BY <1>1, <1>2, <1>3, <1>4

\* The timer of the device list: it does not change under an operation either.
LEMMA RefreshTimerKeeps ==
    ASSUME Good, RefreshTimer, overlap' = (overlap \/ SideBySide')
    PROVE  Good'
<1> USE DEF Good
<1>0. /\ UNCHANGED <<posted, boxes, boot_checks, workers, operations, images,
            scans_starting, scans, download, closed, op_in_progress, format_thread,
            zero_drive, ErrorStatus, asked_zero, user_cancelled, confirmed, target,
            verdict, told, meddled>>
      /\ events' = events
      /\ op_in_progress => selected' = selected
  BY DEF RefreshTimer, MediaChange, GetDevices, controls, deviceVars, threadVars,
        countVars, opHistory
<1>1. /\ OpsKept /\ Queues'
      /\ Posted("IDC_START")' = Posted("IDC_START")
      /\ Posted("UM_SELECT_ISO")' = Posted("UM_SELECT_ISO")
      /\ Posted("WM_DROPFILES")' = Posted("WM_DROPFILES")
      /\ Count("notify")' = Count("notify")
  BY <1>0, AllKept
<1>2. Numbers'
  BY <1>0, SessionAssumption DEF Numbers
<1>3. Budget'
  BY <1>0, <1>1, <1>2, Counted, Sums DEF Budget, OpsKept, Numbers
<1>4. ASSUME ~ overlap' PROVE Sound'
  <2>0. Sound /\ ~ SideBySide'
    BY <1>4
  <2>1. /\ Operations \in Nat /\ Starting \in Nat /\ Reports \in Nat
        /\ Count("confirm") \in Nat /\ Count("confirm") <= Starting
        /\ Starting > 0 => op_in_progress
    BY <2>0, Sums, Counted DEF Sound, Alone
  <2>2. Alone'
    BY <1>0, <1>1, <2>0, <2>1 DEF Sound, Alone, OpsKept
  <2>3. Reported'
    BY <1>0, <1>1, <2>0, <2>1 DEF Sound, Reported, OpsKept
  <2>4. Chosen'
    BY <1>0, <1>1, <2>0, <2>1 DEF Sound, Chosen, OpsKept, Alone
  <2>. QED
    BY <2>2, <2>3, <2>4 DEF Sound
<1>. QED
  BY <1>1, <1>2, <1>3, <1>4

\* A cancellation is an ErrorStatus of its own, whenever it comes.
LEMMA ClickCancelKeeps ==
    ASSUME Good, ClickCancel, overlap' = (overlap \/ SideBySide')
    PROVE  Good'
<1> USE DEF Good
<1>0. /\ UNCHANGED <<posted, boot_checks, workers, operations, images, events,
            scans_starting, scans, download, op_in_progress, format_thread, zero_drive,
            selected, asked_zero, confirmed, target, verdict, told, meddled>>
      /\ Push("cancel") \/ UNCHANGED boxes
      /\ \/ ErrorStatus' = "cancelled" /\ user_cancelled' = TRUE
         \/ UNCHANGED <<ErrorStatus, user_cancelled>>
      /\ closed' = closed \/ ~ op_in_progress
      /\ Input
  BY DEF ClickCancel, deviceVars, threadVars, countVars
<1>1. Moves(Nothing, Nothing) /\ posted' \in Seq(Messages)
  BY <1>0, QueueKept
<1>2. PICK c \in {"cancel", Nothing} : Boxed(Nothing, c) /\ boxes' \in Seq(Boxes)
  BY <1>0, Opens, BoxesKept DEF Boxes
<1>3. OpsKept
  BY <1>0, <1>1, <1>2, Keeping DEF Nothing
<1>4. /\ Posted("IDC_START")' = Posted("IDC_START")
      /\ Posted("UM_SELECT_ISO")' = Posted("UM_SELECT_ISO")
      /\ Posted("WM_DROPFILES")' = Posted("WM_DROPFILES")
      /\ Count("notify")' = Count("notify")
  BY <1>1, <1>2, Counted DEF Moves, Boxed, Messages, Nothing
<1>5. Numbers'
  BY <1>0 DEF Numbers
<1>6. Budget'
  BY <1>0, <1>3, <1>4 DEF Budget, OpsKept
<1>7. ASSUME ~ overlap' PROVE Sound'
  <2>0. Sound /\ ~ SideBySide'
    BY <1>7
  <2>1. Posted("COMPLETED") = 0 /\ Posted("COMPLETED_REFRESH") = 0
    BY <1>0, CountTypes DEF Input
  <2>2. Reports = 0 /\ Operations \in Nat
    BY <2>1, Sums DEF Reports
  <2>3. Alone'
    BY <1>0, <1>3, <1>4, <2>0, <2>1, <2>2 DEF Sound, Alone, OpsKept
  <2>4. Reported'
    BY <1>0, <1>3, <2>0, <2>2 DEF Sound, Reported, OpsKept
  <2>5. Chosen'
    BY <1>0, <1>3, <1>4, <2>0 DEF Sound, Chosen, OpsKept
  <2>. QED
    BY <2>3, <2>4, <2>5 DEF Sound
<1>. QED
  BY <1>1, <1>2, <1>5, <1>6, <1>7 DEF Queues

\* A cancel box is answered, also long after the operation has ended: what it sets in
\* ErrorStatus is then a cancellation by the user.
LEMMA CancelAnsweredKeeps ==
    ASSUME Good, CancelAnswered, overlap' = (overlap \/ SideBySide')
    PROVE  Good'
<1> USE DEF Good
<1>0. /\ UNCHANGED <<posted, boot_checks, workers, operations, images, events,
            scans_starting, scans, download, op_in_progress, format_thread, zero_drive,
            selected, closed, asked_zero, confirmed, target, verdict, told, meddled>>
      /\ BoxOnTop("cancel") \/ BoxOnTop("cancel_no")
      /\ Pop
      /\ \/ ErrorStatus' = "cancelled" /\ user_cancelled' = TRUE
         \/ UNCHANGED <<ErrorStatus, user_cancelled>>
  BY DEF CancelAnswered, deviceVars, threadVars, countVars
<1>1. Moves(Nothing, Nothing) /\ posted' \in Seq(Messages)
  BY <1>0, QueueKept
<1>2. PICK b \in {"cancel", "cancel_no"} : Boxed(b, Nothing) /\ boxes' \in Seq(Boxes)
  BY <1>0, Closes DEF Boxes
<1>3. OpsKept
  BY <1>0, <1>1, <1>2, Keeping DEF Nothing
<1>4. /\ Posted("IDC_START")' = Posted("IDC_START")
      /\ Posted("UM_SELECT_ISO")' = Posted("UM_SELECT_ISO")
      /\ Posted("WM_DROPFILES")' = Posted("WM_DROPFILES")
      /\ Count("notify")' = Count("notify")
  BY <1>1, <1>2, Counted DEF Moves, Boxed, Messages, Nothing
<1>5. Numbers'
  BY <1>0 DEF Numbers
<1>6. Budget'
  BY <1>0, <1>3, <1>4 DEF Budget, OpsKept
<1>7. ASSUME ~ overlap' PROVE Sound'
  <2>0. Sound /\ ~ SideBySide'
    BY <1>7
  <2>1. Alone'
    BY <1>0, <1>3, <1>4, <2>0 DEF Sound, Alone, OpsKept
  <2>2. Reported'
    BY <1>0, <1>3, <2>0 DEF Sound, Reported, OpsKept
  <2>3. Chosen'
    BY <1>0, <1>3, <1>4, <2>0 DEF Sound, Chosen, OpsKept
  <2>. QED
    BY <2>1, <2>2, <2>3 DEF Sound
<1>. QED
  BY <1>1, <1>2, <1>5, <1>6, <1>7 DEF Queues

\* The box that told of an operation is closed, and ErrorStatus cleared: no operation
\* has started under the box.
LEMMA NotifyClosedKeeps ==
    ASSUME Good, NotifyClosed, overlap' = (overlap \/ SideBySide')
    PROVE  Good'
<1> USE DEF Good
<1>0. /\ UNCHANGED <<posted, boot_checks, workers, operations, images, events,
            scans_starting, scans, download, op_in_progress, format_thread, zero_drive,
            selected, closed, asked_zero, user_cancelled, confirmed, target, verdict,
            told, meddled>>
      /\ BoxOnTop("notify") /\ Pop
  BY DEF NotifyClosed, controls, deviceVars, threadVars, countVars, opHistory
<1>1. Moves(Nothing, Nothing) /\ posted' \in Seq(Messages)
  BY <1>0, QueueKept
<1>2. Boxed("notify", Nothing) /\ boxes' \in Seq(Boxes) /\ Count("notify") >= 1
  BY <1>0, Closes DEF Boxes
<1>3. OpsKept
  BY <1>0, <1>1, <1>2, Keeping DEF Nothing
<1>4. /\ Posted("IDC_START")' = Posted("IDC_START")
      /\ Posted("UM_SELECT_ISO")' = Posted("UM_SELECT_ISO")
      /\ Posted("WM_DROPFILES")' = Posted("WM_DROPFILES")
      /\ Count("notify")' = Count("notify") - 1
  BY <1>1, <1>2, Counted DEF Moves, Boxed, Messages, Nothing
<1>5. Numbers'
  BY <1>0 DEF Numbers
<1>6. Budget'
  BY <1>0, <1>3, <1>4 DEF Budget, OpsKept
<1>7. ASSUME ~ overlap' PROVE Sound'
  <2>0. Sound /\ ~ SideBySide'
    BY <1>7
  <2>1. Operations = 0 /\ Posted("IDC_START") = 0
    BY <1>2, <2>0, Counted DEF Sound, Alone
  <2>2. Reports = 0
    BY <2>1, Sums
  <2>3. Alone'
    BY <1>0, <1>3, <1>4, <2>0, <2>1 DEF Sound, Alone, OpsKept
  <2>4. Reported'
    BY <1>0, <1>3, <2>0, <2>1, <2>2 DEF Sound, Reported, OpsKept
  <2>5. Chosen'
    BY <1>0, <1>3, <1>4, <2>0 DEF Sound, Chosen, OpsKept
  <2>. QED
    BY <2>3, <2>4, <2>5 DEF Sound
<1>. QED
  BY <1>1, <1>2, <1>5, <1>6, <1>7 DEF Queues

\* A file is dropped; what comes of it is seen when the message is handled.
LEMMA DropFileKeeps ==
    ASSUME Good, DropFile, overlap' = (overlap \/ SideBySide')
    PROVE  Good'
<1> USE DEF Good
<1>0. /\ UNCHANGED <<boxes, boot_checks, workers, operations, events, scans_starting, scans,
            download, op_in_progress, format_thread, zero_drive, selected, closed,
            ErrorStatus, asked_zero, user_cancelled, confirmed, target, verdict, told, meddled>>
      /\ images < MaxScans /\ images' = images + 1
      /\ Post("WM_DROPFILES")
  BY DEF DropFile, controls, deviceVars, threadVars, opHistory
<1>1. Moves(Nothing, "WM_DROPFILES") /\ posted' \in Seq(Messages)
  BY <1>0, Posts DEF Messages
<1>2. Boxed(Nothing, Nothing) /\ boxes' \in Seq(Boxes)
  BY <1>0, BoxesKept
<1>3. OpsKept
  BY <1>0, <1>1, <1>2, Keeping DEF Nothing
<1>4. /\ Posted("IDC_START")' = Posted("IDC_START")
      /\ Posted("UM_SELECT_ISO")' = Posted("UM_SELECT_ISO")
      /\ Posted("WM_DROPFILES")' = Posted("WM_DROPFILES") + 1
      /\ Count("notify")' = Count("notify")
  BY <1>1, <1>2, Counted DEF Moves, Boxed, Messages, Nothing
<1>5. Numbers'
  BY <1>0, SessionAssumption DEF Numbers
<1>6. Budget'
  BY <1>0, <1>3, <1>4, Counted DEF Budget, OpsKept
<1>7. ASSUME ~ overlap' PROVE Sound'
  <2>0. Sound /\ ~ SideBySide'
    BY <1>7
  <2>1. Alone'
    BY <1>0, <1>3, <1>4, <2>0 DEF Sound, Alone, OpsKept
  <2>2. Reported'
    BY <1>0, <1>3, <2>0 DEF Sound, Reported, OpsKept
  <2>3. Chosen'
    BY <1>0, <1>3, <1>4, <2>0 DEF Sound, Chosen, OpsKept
  <2>. QED
    BY <2>1, <2>2, <2>3 DEF Sound
<1>. QED
  BY <1>1, <1>2, <1>5, <1>6, <1>7 DEF Queues

\* A download has its image, or has failed: no operation is going on.
LEMMA DownloadDoneKeeps ==
    ASSUME Good, DownloadDone, overlap' = (overlap \/ SideBySide')
    PROVE  Good'
<1> USE DEF Good
<1>0. /\ UNCHANGED <<boxes, boot_checks, workers, operations, images, events,
            scans_starting, scans, op_in_progress, format_thread, zero_drive, selected,
            closed, asked_zero, user_cancelled, confirmed, target, verdict, told, meddled>>
      /\ download = "running" /\ download' = "ending"
      /\ Post("UM_SELECT_ISO") \/ UNCHANGED posted
  BY DEF DownloadDone, controls, deviceVars, countVars, opHistory
<1>1. PICK n \in {"UM_SELECT_ISO", Nothing} :
          Moves(Nothing, n) /\ posted' \in Seq(Messages)
  BY <1>0, Posts, QueueKept DEF Messages
<1>2. Boxed(Nothing, Nothing) /\ boxes' \in Seq(Boxes)
  BY <1>0, BoxesKept
<1>3. OpsKept
  BY <1>0, <1>1, <1>2, Keeping DEF Nothing
<1>4. /\ Posted("IDC_START")' = Posted("IDC_START")
      /\ Posted("UM_SELECT_ISO")' \in {Posted("UM_SELECT_ISO"), Posted("UM_SELECT_ISO") + 1}
      /\ Posted("WM_DROPFILES")' = Posted("WM_DROPFILES")
      /\ Count("notify")' = Count("notify")
  BY <1>1, <1>2, Counted DEF Moves, Boxed, Messages, Nothing
<1>5. Numbers'
  BY <1>0 DEF Numbers
<1>6. Budget'
  BY <1>0, <1>3, <1>4, Counted DEF Budget, OpsKept
<1>7. ASSUME ~ overlap' PROVE Sound'
  <2>0. Sound /\ ~ SideBySide'
    BY <1>7
  <2>1. Operations = 0 /\ Posted("IDC_START") = 0
    BY <1>0, <2>0 DEF Sound, Alone
  <2>2. Reports = 0
    BY <2>1, Sums
  <2>3. Alone'
    BY <1>0, <1>3, <1>4, <2>0, <2>1 DEF Sound, Alone, OpsKept
  <2>4. Reported'
    BY <1>0, <1>3, <2>0, <2>1, <2>2 DEF Sound, Reported, OpsKept
  <2>5. Chosen'
    BY <1>0, <1>3, <1>4, <2>0 DEF Sound, Chosen, OpsKept
  <2>. QED
    BY <2>3, <2>4, <2>5 DEF Sound
<1>. QED
  BY <1>1, <1>2, <1>5, <1>6, <1>7 DEF Queues

\* A message with an image: a scan that starts beside an operation is noted; one that
\* cannot start leaves an error, but not over the report of a thread.
LEMMA HandleSelectKeeps ==
    ASSUME Good, HandleSelect, overlap' = (overlap \/ SideBySide')
    PROVE  Good'
<1> USE DEF Good
<1>0. /\ UNCHANGED <<boxes, boot_checks, workers, operations, images, events, scans,
            download, op_in_progress, format_thread, zero_drive, selected, closed,
            asked_zero, user_cancelled, confirmed, target, verdict, told, meddled>>
      /\ posted' = Tail(posted)
      /\ \/ /\ Message("UM_SELECT_ISO")
            /\ scans_starting' \in {scans_starting, scans_starting + 1}
         \/ /\ Message("WM_DROPFILES")
            /\ \/ UNCHANGED <<scans_starting, ErrorStatus>>
               \/ scans_starting' = scans_starting + 1
               \/ /\ format_thread = "null" /\ ErrorStatus' = "error"
                  /\ scans_starting' = scans_starting
  BY DEF HandleSelect, StartScan, controls, deviceVars, countVars, opHistory
<1>1. PICK m \in {"UM_SELECT_ISO", "WM_DROPFILES"} :
          /\ Message(m) /\ Moves(m, Nothing) /\ posted' \in Seq(Messages) /\ Posted(m) >= 1
  BY <1>0, Takes DEF Messages
<1>2. Boxed(Nothing, Nothing) /\ boxes' \in Seq(Boxes)
  BY <1>0, BoxesKept
<1>3. OpsKept
  BY <1>0, <1>1, <1>2, Keeping DEF Nothing
<1>4. /\ Posted("IDC_START")' = Posted("IDC_START")
      /\ Count("notify")' = Count("notify")
      /\ Posted("UM_SELECT_ISO")' = Posted("UM_SELECT_ISO")
             - (IF m = "UM_SELECT_ISO" THEN 1 ELSE 0)
      /\ Posted("WM_DROPFILES")' = Posted("WM_DROPFILES")
             - (IF m = "WM_DROPFILES" THEN 1 ELSE 0)
      /\ m = "UM_SELECT_ISO" => Posted("UM_SELECT_ISO") >= 1
      /\ m = "WM_DROPFILES" => Posted("WM_DROPFILES") >= 1
  <2>1. CASE m = "UM_SELECT_ISO"
    BY <1>1, <1>2, <2>1, Counted DEF Moves, Boxed, Messages, Nothing
  <2>2. CASE m = "WM_DROPFILES"
    BY <1>1, <1>2, <2>2, Counted DEF Moves, Boxed, Messages, Nothing
  <2>. QED
    BY <1>1, <2>1, <2>2
<1>5. scans_starting' \in {scans_starting, scans_starting + 1}
  BY <1>0
<1>6. Numbers'
  BY <1>0, <1>5 DEF Numbers
<1>7. Budget'
  <2>1. Operations' + Posted("IDC_START")' <= operations' /\ Posted("IDC_START")' <= 1
    BY <1>0, <1>3, <1>4 DEF Budget, OpsKept
  <2>2. scans_starting' + Posted("UM_SELECT_ISO")' + Posted("WM_DROPFILES")'
            <= scans_starting + Posted("UM_SELECT_ISO") + Posted("WM_DROPFILES")
    <3>1. CASE m = "UM_SELECT_ISO"
      BY <1>4, <1>5, <3>1, Counted
    <3>2. CASE m = "WM_DROPFILES"
      BY <1>4, <1>5, <3>2, Counted
    <3>. QED
      BY <1>1, <3>1, <3>2
  <2>3. /\ Posted("UM_SELECT_ISO")' \in Int /\ Posted("WM_DROPFILES")' \in Int
        /\ scans_starting' \in Int
    BY <1>4, <1>5, Counted
  <2> DEFINE running == IF download = "running" THEN 1 ELSE 0
  <2>4. /\ scans_starting + scans + Posted("UM_SELECT_ISO") + Posted("WM_DROPFILES")
                + running <= images
        /\ running \in Nat
    BY DEF Budget
  <2>5. (IF download' = "running" THEN 1 ELSE 0) = running
    BY <1>0
  <2> HIDE DEF running
  <2>6. scans' = scans /\ images' = images
    BY <1>0
  <2>7. /\ scans_starting \in Nat /\ scans \in Nat /\ images \in Nat
        /\ Posted("UM_SELECT_ISO") \in Nat /\ Posted("WM_DROPFILES") \in Nat
    BY Counted
  <2>8. scans_starting' + scans' + Posted("UM_SELECT_ISO")' + Posted("WM_DROPFILES")'
                + running <= images'
    BY <2>2, <2>3, <2>4, <2>6, <2>7
  <2>. QED
    BY <2>1, <2>5, <2>8 DEF Budget
<1>8. ASSUME ~ overlap' PROVE Sound'
  <2>0. Sound /\ ~ SideBySide'
    BY <1>8
  <2>1. scans_starting' = scans_starting + 1 => Operations = 0
    <3>1. ImageThreads' \in Nat /\ (scans_starting' = scans_starting + 1 => ImageThreads' >= 1)
      <4>1. scans_starting \in Nat /\ scans \in Nat
        BY Counted
      <4>2. PICK more \in {0, 1} : scans_starting' = scans_starting + more /\ scans' = scans
        BY <1>0, <1>5, <4>1
      <4>3. PICK loading \in {0, 1} : ImageThreads' = scans_starting + more + scans + loading
        BY <4>2 DEF ImageThreads
      <4>. QED
        BY <4>1, <4>2, <4>3
    <3>. QED
      BY <1>3, <2>0, <3>1, Sums DEF SideBySide, OpsKept
  <2>2. m = "UM_SELECT_ISO" => Operations = 0
    BY <1>4, <2>0, Counted DEF Sound, Alone
  <2>3. Operations = 0 => Reports = 0
    BY Sums
  <2>4. Alone'
    BY <1>0, <1>3, <1>4, <2>0, Counted DEF Sound, Alone, OpsKept
  <2>5. \/ Operations = 0
        \/ UNCHANGED ErrorStatus
        \/ format_thread = "null" /\ ErrorStatus' = "error"
    <3>1. Message("UM_SELECT_ISO") => m = "UM_SELECT_ISO"
      BY <1>1 DEF Message
    <3>. QED
      BY <1>0, <2>1, <2>2, <3>1
  <2>6. Reported'
    BY <1>0, <1>3, <2>0, <2>3, <2>5, Sums DEF Sound, Reported, OpsKept
  <2>7. Chosen'
    BY <1>0, <1>3, <1>4, <2>0 DEF Sound, Chosen, OpsKept
  <2>. QED
    BY <2>4, <2>6, <2>7 DEF Sound
<1>. QED
  BY <1>1, <1>2, <1>6, <1>7, <1>8 DEF Queues

-----------------------------------------------------------------------------
\* What a step adds to the queue: clicks on Start, boot checks that let it proceed,
\* starts that are given up, reports that ask for no refresh, and reports. Messages
\* about images are left alone.
Account(i, p, f, c, r) ==
    /\ Posted("IDC_START")' = Posted("IDC_START") + i
    /\ Posted("START_PROCEED")' = Posted("START_PROCEED") + p
    /\ Failed' = Failed + f
    /\ Posted("COMPLETED")' = Posted("COMPLETED") + c
    /\ Reports' = Reports + r
    /\ Posted("UM_SELECT_ISO")' = Posted("UM_SELECT_ISO")
    /\ Posted("WM_DROPFILES")' = Posted("WM_DROPFILES")

\* The account of each message that is taken or posted.
LEMMA Accounts ==
    Queues /\ Numbers =>
        /\ Moves(Nothing, Nothing) => Account(0, 0, 0, 0, 0)
        /\ Moves(Nothing, "START_PROCEED") => Account(0, 1, 0, 0, 0)
        /\ Moves(Nothing, "START_CANCEL") => Account(0, 0, 1, 0, 0)
        /\ Moves(Nothing, "START_ERROR") => Account(0, 0, 1, 0, 0)
        /\ Moves(Nothing, "COMPLETED") => Account(0, 0, 0, 1, 1)
        /\ Moves(Nothing, "COMPLETED_REFRESH") => Account(0, 0, 0, 0, 1)
        /\ Moves("IDC_START", Nothing) => Account(-1, 0, 0, 0, 0)
        /\ Moves("IDC_START", "START_CANCEL") => Account(-1, 0, 1, 0, 0)
        /\ Moves("IDC_START", "COMPLETED") => Account(-1, 0, 0, 1, 1)
        /\ Moves("START_PROCEED", Nothing) => Account(0, -1, 0, 0, 0)
        /\ Moves("START_CANCEL", Nothing) => Account(0, 0, -1, 0, 0)
        /\ Moves("START_ERROR", Nothing) => Account(0, 0, -1, 0, 0)
        /\ Moves("COMPLETED", Nothing) => Account(0, 0, 0, -1, -1)
        /\ Moves("COMPLETED_REFRESH", Nothing) => Account(0, 0, 0, 0, -1)
<1> SUFFICES ASSUME Queues, Numbers
             PROVE  /\ Moves(Nothing, Nothing) => Account(0, 0, 0, 0, 0)
                    /\ Moves(Nothing, "START_PROCEED") => Account(0, 1, 0, 0, 0)
                    /\ Moves(Nothing, "START_CANCEL") => Account(0, 0, 1, 0, 0)
                    /\ Moves(Nothing, "START_ERROR") => Account(0, 0, 1, 0, 0)
                    /\ Moves(Nothing, "COMPLETED") => Account(0, 0, 0, 1, 1)
                    /\ Moves(Nothing, "COMPLETED_REFRESH") => Account(0, 0, 0, 0, 1)
                    /\ Moves("IDC_START", Nothing) => Account(-1, 0, 0, 0, 0)
                    /\ Moves("IDC_START", "START_CANCEL") => Account(-1, 0, 1, 0, 0)
                    /\ Moves("IDC_START", "COMPLETED") => Account(-1, 0, 0, 1, 1)
                    /\ Moves("START_PROCEED", Nothing) => Account(0, -1, 0, 0, 0)
                    /\ Moves("START_CANCEL", Nothing) => Account(0, 0, -1, 0, 0)
                    /\ Moves("START_ERROR", Nothing) => Account(0, 0, -1, 0, 0)
                    /\ Moves("COMPLETED", Nothing) => Account(0, 0, 0, -1, -1)
                    /\ Moves("COMPLETED_REFRESH", Nothing) => Account(0, 0, 0, 0, -1)
  OBVIOUS
<1>1. Moves(Nothing, Nothing) => Account(0, 0, 0, 0, 0)
  BY Counted DEF Moves, Messages, Nothing, Account, Failed, Reports
<1>2. Moves(Nothing, "START_PROCEED") => Account(0, 1, 0, 0, 0)
  BY Counted DEF Moves, Messages, Nothing, Account, Failed, Reports
<1>3. Moves(Nothing, "START_CANCEL") => Account(0, 0, 1, 0, 0)
  BY Counted DEF Moves, Messages, Nothing, Account, Failed, Reports
<1>4. Moves(Nothing, "START_ERROR") => Account(0, 0, 1, 0, 0)
  BY Counted DEF Moves, Messages, Nothing, Account, Failed, Reports
<1>5. Moves(Nothing, "COMPLETED") => Account(0, 0, 0, 1, 1)
  BY Counted DEF Moves, Messages, Nothing, Account, Failed, Reports
<1>6. Moves(Nothing, "COMPLETED_REFRESH") => Account(0, 0, 0, 0, 1)
  BY Counted DEF Moves, Messages, Nothing, Account, Failed, Reports
<1>7. Moves("IDC_START", Nothing) => Account(-1, 0, 0, 0, 0)
  BY Counted DEF Moves, Messages, Nothing, Account, Failed, Reports
<1>8. Moves("IDC_START", "START_CANCEL") => Account(-1, 0, 1, 0, 0)
  BY Counted DEF Moves, Messages, Nothing, Account, Failed, Reports
<1>9. Moves("IDC_START", "COMPLETED") => Account(-1, 0, 0, 1, 1)
  BY Counted DEF Moves, Messages, Nothing, Account, Failed, Reports
<1>10. Moves("START_PROCEED", Nothing) => Account(0, -1, 0, 0, 0)
  BY Counted DEF Moves, Messages, Nothing, Account, Failed, Reports
<1>11. Moves("START_CANCEL", Nothing) => Account(0, 0, -1, 0, 0)
  BY Counted DEF Moves, Messages, Nothing, Account, Failed, Reports
<1>12. Moves("START_ERROR", Nothing) => Account(0, 0, -1, 0, 0)
  BY Counted DEF Moves, Messages, Nothing, Account, Failed, Reports
<1>13. Moves("COMPLETED", Nothing) => Account(0, 0, 0, -1, -1)
  BY Counted DEF Moves, Messages, Nothing, Account, Failed, Reports
<1>14. Moves("COMPLETED_REFRESH", Nothing) => Account(0, 0, 0, 0, -1)
  BY Counted DEF Moves, Messages, Nothing, Account, Failed, Reports
<1>. QED
  BY <1>1, <1>2, <1>3, <1>4, <1>5, <1>6, <1>7, <1>8, <1>9, <1>10, <1>11, <1>12, <1>13, <1>14

\* What a step adds to the places where an operation can be.
Shift(s, f, w, r) ==
    /\ Starting' = Starting + s /\ Failed' = Failed + f
    /\ Working' = Working + w /\ Reports' = Reports + r
    /\ Operations' = Operations + (s + f + w + r)

\* They are added up, from what happens to the queue, the boot checks, the warning
\* and the threads.
LEMMA Shifts ==
    ASSUME Queues, Numbers, NEW i \in Int, NEW p \in Int, NEW f \in Int, NEW c \in Int,
           NEW r \in Int, Account(i, p, f, c, r),
           NEW b \in Int, boot_checks' = boot_checks + b,
           NEW o \in Int, Count("confirm")' = Count("confirm") + o,
           NEW w \in Int, Working' = Working + w
    PROVE  Shift(b + p + o, f, w, r)
<1>1. Starting' = Starting + (b + p + o)
  BY Counted DEF Starting, Account
<1>2. Failed' = Failed + f /\ Reports' = Reports + r
  BY DEF Account
<1>. QED
  BY <1>1, <1>2, Sums DEF Shift, Operations

\* Threads, boot checks and boxes that are left alone add nothing.
LEMMA AddNothing ==
    ASSUME Queues, Numbers
    PROVE  /\ UNCHANGED workers => Working' = Working + 0
           /\ UNCHANGED boot_checks => boot_checks' = boot_checks + 0
           /\ UNCHANGED boxes => /\ Count("confirm")' = Count("confirm") + 0
                                 /\ Count("notify")' = Count("notify") + 0
<1>1. UNCHANGED workers => Working' = Working
  BY DEF Working
<1>2. UNCHANGED boxes => Count("confirm")' = Count("confirm")
                         /\ Count("notify")' = Count("notify")
  BY DEF Count
<1>. QED
  BY <1>1, <1>2, Counted, Sums

\* A thread more or less is one operation more or less.
LEMMA WorkersCount ==
    ASSUME Numbers, NEW k \in Kinds, NEW d \in {1, -1}, workers[k] + d \in Nat,
           workers' = [workers EXCEPT ![k] = @ + d]
    PROVE  Working' = Working + d /\ workers' \in [Kinds -> Nat]
<1>1. workers["format"] \in Nat /\ workers["hash"] \in Nat /\ workers["save"] \in Nat
  BY DEF Numbers, Kinds
<1>2. workers' \in [Kinds -> Nat]
  BY DEF Numbers
<1>3. CASE k = "format"
  <2>1. /\ workers'["format"] = workers["format"] + d /\ workers'["hash"] = workers["hash"]
        /\ workers'["save"] = workers["save"]
    BY <1>3 DEF Numbers, Kinds
  <2>. QED
    BY <1>1, <1>2, <2>1 DEF Working
<1>4. CASE k = "hash"
  <2>1. /\ workers'["format"] = workers["format"] /\ workers'["hash"] = workers["hash"] + d
        /\ workers'["save"] = workers["save"]
    BY <1>4 DEF Numbers, Kinds
  <2>. QED
    BY <1>1, <1>2, <2>1 DEF Working
<1>5. CASE k = "save"
  <2>1. /\ workers'["format"] = workers["format"] /\ workers'["hash"] = workers["hash"]
        /\ workers'["save"] = workers["save"] + d
    BY <1>5 DEF Numbers, Kinds
  <2>. QED
    BY <1>1, <1>2, <2>1 DEF Working
<1>. QED
  BY <1>3, <1>4, <1>5 DEF Kinds


\* The budget is not exceeded by d operations more, i clicks on Start and o new ones.
LEMMA BudgetKept ==
    ASSUME Queues, Numbers, Budget, NEW d \in {-1, 0, 1}, NEW i \in {-1, 0},
           NEW o \in {0, 1}, Operations' = Operations + d,
           Posted("IDC_START")' = Posted("IDC_START") + i,
           operations' = operations + o, d + i <= o,
           Posted("UM_SELECT_ISO")' = Posted("UM_SELECT_ISO"),
           Posted("WM_DROPFILES")' = Posted("WM_DROPFILES"),
           UNCHANGED <<scans_starting, scans, download, images>>
    PROVE  Budget'
  BY Counted, Sums DEF Budget

\* An operation is in one place.
LEMMA OnePlace ==
    ASSUME Queues, Numbers, Alone
    PROVE  /\ Operations \in {0, 1}
           /\ Operations = 0 => Starting = 0 /\ Failed = 0 /\ Working = 0 /\ Reports = 0
           /\ Starting > 0 => Starting = 1 /\ Failed = 0 /\ Working = 0 /\ Reports = 0
           /\ Failed > 0 => Starting = 0 /\ Failed = 1 /\ Working = 0 /\ Reports = 0
           /\ Working > 0 => Starting = 0 /\ Failed = 0 /\ Working = 1 /\ Reports = 0
           /\ Reports > 0 => Starting = 0 /\ Failed = 0 /\ Working = 0 /\ Reports = 1
           /\ Operations = 1 => Starting > 0 \/ Failed > 0 \/ Working > 0 \/ Reports > 0
  BY Sums DEF Alone

-----------------------------------------------------------------------------
\* Start is clicked when nothing is going on: a boot check, or an error to report.
LEMMA ClickStartKeeps ==
    ASSUME Good, Flags, ClickStart, overlap' = (overlap \/ SideBySide')
    PROVE  Good'
<1> USE DEF Good
<1>0. /\ UNCHANGED <<boxes, workers, scans_starting, scans, download, images, events, closed,
            format_thread, zero_drive, selected>>
      /\ operations < MaxOps /\ operations' = operations + 1
      /\ Input /\ ~ op_in_progress /\ op_in_progress' = TRUE
      /\ selected # NoDevice
      /\ asked_zero' = FALSE /\ user_cancelled' = FALSE /\ told' = "nothing"
      /\ \/ /\ boot_checks' = boot_checks + 1 /\ UNCHANGED posted
            /\ ErrorStatus' = "none" /\ verdict' = "open"
         \/ /\ Post("COMPLETED") /\ UNCHANGED boot_checks
            /\ ErrorStatus' = "error" /\ verdict' = "error"
  BY DEF ClickStart, NewOperation, StartBootCheck, Enabled, Post, deviceVars
<1>1. /\ boxes' \in Seq(Boxes) /\ Count("confirm")' = Count("confirm") + 0
      /\ Count("notify")' = Count("notify") + 0 /\ Working' = Working + 0
  BY <1>0, BoxesKept, AddNothing
<1>2. /\ posted' \in Seq(Messages) /\ boot_checks' \in Nat
      /\ \/ /\ Account(0, 0, 0, 0, 0) /\ Shift(1, 0, 0, 0)
            /\ ErrorStatus' = "none" /\ verdict' = "open"
         \/ /\ Account(0, 0, 0, 1, 1) /\ Shift(0, 0, 0, 1)
            /\ ErrorStatus' = "error" /\ verdict' = "error"
  <2>1. CASE boot_checks' = boot_checks + 1 /\ UNCHANGED posted /\ ErrorStatus' = "none"
             /\ verdict' = "open"
    <3>1. Account(0, 0, 0, 0, 0) /\ posted' \in Seq(Messages)
      BY <2>1, QueueKept, Accounts
    <3>2. Shift(1 + 0 + 0, 0, 0, 0)
      BY <1>1, <2>1, <3>1, Shifts
    <3>3. boot_checks' \in Nat
      BY <2>1, Counted
    <3>. QED
      BY <2>1, <3>1, <3>2, <3>3
  <2>2. CASE Post("COMPLETED") /\ UNCHANGED boot_checks /\ ErrorStatus' = "error"
             /\ verdict' = "error"
    <3>1. Account(0, 0, 0, 1, 1) /\ posted' \in Seq(Messages)
      BY <2>2, Posts, Accounts DEF Messages
    <3>2. boot_checks' = boot_checks + 0 /\ boot_checks' \in Nat
      BY <2>2, AddNothing, Counted
    <3>3. Shift(0 + 0 + 0, 0, 0, 1)
      BY <1>1, <3>1, <3>2, Shifts
    <3>. QED
      BY <2>2, <3>1, <3>2, <3>3
  <2>. QED
    BY <1>0, <2>1, <2>2
<1>3. Numbers'
  BY <1>0, <1>2, SessionAssumption DEF Numbers
<1>4. /\ Operations' = Operations + 1 /\ Posted("IDC_START")' = Posted("IDC_START") + 0
      /\ Posted("UM_SELECT_ISO")' = Posted("UM_SELECT_ISO")
      /\ Posted("WM_DROPFILES")' = Posted("WM_DROPFILES")
  BY <1>2 DEF Account, Shift
<1>5. Budget'
  BY <1>0, <1>4, BudgetKept
<1>6. ASSUME ~ overlap' PROVE Sound'
  <2>0. Sound /\ ~ SideBySide'
    BY <1>6
  <2>1. /\ Operations = 0 /\ Starting = 0 /\ Working = 0 /\ Reports = 0
        /\ download = "none" /\ format_thread = "null" /\ ~ zero_drive
        /\ Posted("IDC_START") = 0 /\ Posted("UM_SELECT_ISO") = 0
        /\ Posted("COMPLETED") = 0 /\ Count("notify") = 0 /\ Count("confirm") = 0
    BY <1>0, <2>0, InputIsIdle
  <2>2. zero_drive' = FALSE /\ asked_zero' = FALSE
    BY <1>0, <2>1, Zenon DEF Flags
  <2>3. ~ closed
    BY <1>0 DEF Input
  <2>4. Alone'
    BY <1>0, <1>1, <1>2, <2>0, <2>1, <2>3 DEF Alone, Account, Shift
  <2>5. Reported'
    BY <1>0, <1>2, <2>1 DEF Reported, Account, Shift
  <2>6. Chosen'
    <3>1. format_thread' = "null" /\ selected' # NoDevice /\ Count("confirm")' = 0
          /\ Posted("IDC_START")' = 0
      BY <1>0, <1>1, <1>4, <2>1
    <3>2. zero_drive' = asked_zero' /\ ~ zero_drive'
      BY <2>2
    <3>. QED
      BY <3>1, <3>2 DEF Chosen
  <2>. QED
    BY <2>4, <2>5, <2>6 DEF Sound
<1>. QED
  BY <1>1, <1>2, <1>3, <1>5, <1>6 DEF Queues

\* The click that Alt-Z has posted arrives: nothing else has begun since.
LEMMA HandleStartKeeps ==
    ASSUME Good, Flags, HandleStart, overlap' = (overlap \/ SideBySide')
    PROVE  Good'
<1> USE DEF Good
<1> DEFINE
      Ignored == /\ format_thread # "null" /\ posted' = Tail(posted) /\ UNCHANGED boot_checks
      Checked == /\ posted' = Tail(posted) /\ boot_checks' = boot_checks + 1
                 /\ ErrorStatus' = "none" /\ verdict' = "open" /\ selected # NoDevice
      GivenUp == /\ posted' = Append(Tail(posted), "START_CANCEL") /\ UNCHANGED boot_checks
                 /\ ErrorStatus' = "none" /\ verdict' = "open"
      NoThread == /\ posted' = Append(Tail(posted), "COMPLETED") /\ UNCHANGED boot_checks
                  /\ ErrorStatus' = "error" /\ verdict' = "error"
      Began == /\ format_thread = "null" /\ op_in_progress' = TRUE /\ told' = "nothing"
               /\ asked_zero' = TRUE /\ user_cancelled' = FALSE
<1>0. /\ UNCHANGED <<boxes, workers, scans_starting, scans, download, images, events, closed,
            format_thread, zero_drive, selected, operations>>
      /\ Message("IDC_START")
      /\ Ignored \/ (Began /\ (Checked \/ GivenUp \/ NoThread))
  BY DEF HandleStart, NewOperation, StartBootCheck, Enabled, deviceVars, countVars
<1>1. /\ boxes' \in Seq(Boxes) /\ Count("confirm")' = Count("confirm") + 0
      /\ Count("notify")' = Count("notify") + 0 /\ Working' = Working + 0
  BY <1>0, BoxesKept, AddNothing
<1>2. ASSUME Ignored
      PROVE  /\ Account(-1, 0, 0, 0, 0) /\ Shift(0, 0, 0, 0) /\ Posted("IDC_START") >= 1
             /\ posted' \in Seq(Messages) /\ boot_checks' \in Nat
  <2>1. Account(-1, 0, 0, 0, 0) /\ posted' \in Seq(Messages) /\ Posted("IDC_START") >= 1
    BY <1>0, <1>2, Takes, Accounts DEF Messages
  <2>2. boot_checks' = boot_checks + 0 /\ boot_checks' \in Nat
    BY <1>2, AddNothing, Counted
  <2>3. Shift(0 + 0 + 0, 0, 0, 0)
    BY <1>1, <2>1, <2>2, Shifts
  <2>. QED
    BY <2>1, <2>2, <2>3
<1>3. ASSUME Checked
      PROVE  /\ Account(-1, 0, 0, 0, 0) /\ Shift(1, 0, 0, 0) /\ Posted("IDC_START") >= 1
             /\ posted' \in Seq(Messages) /\ boot_checks' \in Nat
  <2>1. Account(-1, 0, 0, 0, 0) /\ posted' \in Seq(Messages) /\ Posted("IDC_START") >= 1
    BY <1>0, <1>3, Takes, Accounts DEF Messages
  <2>2. boot_checks' = boot_checks + 1 /\ boot_checks' \in Nat
    BY <1>3, Counted
  <2>3. Shift(1 + 0 + 0, 0, 0, 0)
    BY <1>1, <2>1, <2>2, Shifts
  <2>. QED
    BY <2>1, <2>2, <2>3
<1>4. ASSUME GivenUp
      PROVE  /\ Account(-1, 0, 1, 0, 0) /\ Shift(0, 1, 0, 0) /\ Posted("IDC_START") >= 1
             /\ posted' \in Seq(Messages) /\ boot_checks' \in Nat
  <2>1. Account(-1, 0, 1, 0, 0) /\ posted' \in Seq(Messages) /\ Posted("IDC_START") >= 1
    BY <1>0, <1>4, TakesAndPosts, Accounts DEF Messages
  <2>2. boot_checks' = boot_checks + 0 /\ boot_checks' \in Nat
    BY <1>4, AddNothing, Counted
  <2>3. Shift(0 + 0 + 0, 1, 0, 0)
    BY <1>1, <2>1, <2>2, Shifts
  <2>. QED
    BY <2>1, <2>2, <2>3
<1>5. ASSUME NoThread
      PROVE  /\ Account(-1, 0, 0, 1, 1) /\ Shift(0, 0, 0, 1) /\ Posted("IDC_START") >= 1
             /\ posted' \in Seq(Messages) /\ boot_checks' \in Nat
  <2>1. Account(-1, 0, 0, 1, 1) /\ posted' \in Seq(Messages) /\ Posted("IDC_START") >= 1
    BY <1>0, <1>5, TakesAndPosts, Accounts DEF Messages
  <2>2. boot_checks' = boot_checks + 0 /\ boot_checks' \in Nat
    BY <1>5, AddNothing, Counted
  <2>3. Shift(0 + 0 + 0, 0, 0, 1)
    BY <1>1, <2>1, <2>2, Shifts
  <2>. QED
    BY <2>1, <2>2, <2>3
<1>6. /\ posted' \in Seq(Messages) /\ boot_checks' \in Nat
      /\ \/ Operations' = Operations + 0
         \/ Operations' = Operations + 1
      /\ Posted("IDC_START") >= 1
      /\ Posted("IDC_START")' = Posted("IDC_START") + (-1)
      /\ Posted("UM_SELECT_ISO")' = Posted("UM_SELECT_ISO")
      /\ Posted("WM_DROPFILES")' = Posted("WM_DROPFILES")
  BY <1>0, <1>2, <1>3, <1>4, <1>5 DEF Account, Shift
<1>7. Numbers'
  BY <1>0, <1>6 DEF Numbers
<1>8. operations' = operations + 0
  BY <1>0, Counted
<1>9. Budget'
  BY <1>0, <1>6, <1>8, BudgetKept
<1>10. ASSUME ~ overlap' PROVE Sound'
  <2>0. Sound /\ ~ SideBySide'
    BY <1>10
  <2>1. Posted("IDC_START") = 1 /\ ~ closed
    BY <1>0, <1>6, Counted DEF Budget, Message
  <2>2. /\ Operations = 0 /\ download = "none" /\ Posted("UM_SELECT_ISO") = 0
        /\ Count("notify") = 0 /\ zero_drive
    BY <2>0, <2>1, Counted DEF Sound, Alone, Chosen
  <2>3. /\ Starting = 0 /\ Failed = 0 /\ Working = 0 /\ Reports = 0
        /\ Posted("COMPLETED") = 0 /\ Count("confirm") = 0
    <3>1. Starting = 0 /\ Failed = 0 /\ Working = 0 /\ Reports = 0
      BY <2>0, <2>2, OnePlace DEF Sound
    <3>. QED
      BY <3>1, Sums, Counted
  <2>4. format_thread = "null"
    BY <2>0, <2>3 DEF Sound, Alone
  <2>5. /\ Began
        /\ \/ Account(-1, 0, 0, 0, 0) /\ Shift(1, 0, 0, 0) /\ Checked
           \/ Account(-1, 0, 1, 0, 0) /\ Shift(0, 1, 0, 0) /\ GivenUp
           \/ Account(-1, 0, 0, 1, 1) /\ Shift(0, 0, 0, 1) /\ NoThread
    BY <1>0, <1>3, <1>4, <1>5, <2>4
  <2>6. zero_drive' = TRUE /\ asked_zero' = TRUE
    BY <1>0, <2>2, <2>5, Zenon DEF Flags
  <2>7. Alone'
    BY <1>0, <1>1, <2>0, <2>1, <2>2, <2>3, <2>4, <2>5 DEF Alone, Account, Shift
  <2>8. Reported'
    BY <2>2, <2>3, <2>5 DEF Reported, Account, Shift
  <2>9. Chosen'
    <3>1. /\ format_thread' = "null" /\ Count("confirm")' = 0 /\ Posted("IDC_START")' = 0
          /\ Operations' = 1 /\ (Starting' > 0 => selected' # NoDevice)
      BY <1>0, <1>1, <1>6, <2>1, <2>2, <2>3, <2>4, <2>5 DEF Shift
    <3>2. zero_drive' = asked_zero'
      BY <2>6
    <3>. QED
      BY <3>1, <3>2 DEF Chosen
  <2>. QED
    BY <2>7, <2>8, <2>9 DEF Sound
<1>. QED
  BY <1>1, <1>6, <1>7, <1>9, <1>10 DEF Queues

\* Hashing and saving begin when nothing is going on, or end in an error at once.
LEMMA StartWorkerKeeps ==
    ASSUME Good, Flags, NEW k \in {"hash", "save"}, StartWorker(k),
           overlap' = (overlap \/ SideBySide')
    PROVE  Good'
<1> USE DEF Good
<1> DEFINE
      Runs == /\ format_thread' = k /\ workers' = [workers EXCEPT ![k] = @ + 1]
              /\ ErrorStatus' = "none" /\ verdict' = "open" /\ UNCHANGED posted
      NoThread == /\ ErrorStatus' = "error" /\ verdict' = "error" /\ Post("COMPLETED")
                  /\ UNCHANGED <<format_thread, workers>>
<1>0. /\ UNCHANGED <<boxes, boot_checks, scans_starting, scans, download, images, events,
            closed, zero_drive, selected>>
      /\ operations < MaxOps /\ operations' = operations + 1
      /\ Input /\ ~ op_in_progress /\ op_in_progress' = TRUE
      /\ user_cancelled' = FALSE /\ told' = "nothing"
      /\ Runs \/ NoThread
  BY DEF StartWorker, NewOperation, Enabled, deviceVars
<1>1. /\ boxes' \in Seq(Boxes) /\ Count("confirm")' = Count("confirm") + 0
      /\ Count("notify")' = Count("notify") + 0 /\ boot_checks' = boot_checks + 0
  BY <1>0, BoxesKept, AddNothing
<1>2. ASSUME Runs
      PROVE  /\ Account(0, 0, 0, 0, 0) /\ Shift(0, 0, 1, 0)
             /\ posted' \in Seq(Messages) /\ workers' \in [Kinds -> Nat]
  <2>1. Account(0, 0, 0, 0, 0) /\ posted' \in Seq(Messages)
    BY <1>2, QueueKept, Accounts
  <2>2. workers[k] + 1 \in Nat /\ k \in Kinds
    BY DEF Numbers, Kinds
  <2>3. Working' = Working + 1 /\ workers' \in [Kinds -> Nat]
    BY <1>2, <2>2, WorkersCount
  <2>4. Shift(0 + 0 + 0, 0, 1, 0)
    BY <1>1, <2>1, <2>3, Shifts
  <2>. QED
    BY <2>1, <2>3, <2>4
<1>3. ASSUME NoThread
      PROVE  /\ Account(0, 0, 0, 1, 1) /\ Shift(0, 0, 0, 1)
             /\ posted' \in Seq(Messages) /\ workers' \in [Kinds -> Nat]
  <2>1. Account(0, 0, 0, 1, 1) /\ posted' \in Seq(Messages)
    BY <1>3, Posts, Accounts DEF Messages
  <2>2. Working' = Working + 0 /\ workers' \in [Kinds -> Nat]
    BY <1>3, AddNothing DEF Numbers
  <2>3. Shift(0 + 0 + 0, 0, 0, 1)
    BY <1>1, <2>1, <2>2, Shifts
  <2>. QED
    BY <2>1, <2>2, <2>3
<1>4. /\ posted' \in Seq(Messages) /\ workers' \in [Kinds -> Nat]
      /\ Operations' = Operations + 1 /\ Posted("IDC_START")' = Posted("IDC_START") + 0
      /\ Posted("UM_SELECT_ISO")' = Posted("UM_SELECT_ISO")
      /\ Posted("WM_DROPFILES")' = Posted("WM_DROPFILES")
  BY <1>0, <1>2, <1>3 DEF Account, Shift
<1>5. Numbers'
  BY <1>0, <1>4, SessionAssumption DEF Numbers
<1>6. Budget'
  BY <1>0, <1>4, BudgetKept
<1>7. ASSUME ~ overlap' PROVE Sound'
  <2>0. Sound /\ ~ SideBySide'
    BY <1>7
  <2>1. /\ Operations = 0 /\ Starting = 0 /\ Working = 0 /\ Reports = 0
        /\ download = "none" /\ format_thread = "null"
        /\ Posted("IDC_START") = 0 /\ Posted("UM_SELECT_ISO") = 0
        /\ Posted("COMPLETED") = 0 /\ Count("notify") = 0 /\ Count("confirm") = 0
    BY <1>0, <2>0, InputIsIdle
  <2>2. ~ closed
    BY <1>0 DEF Input
  <2>3. \/ Account(0, 0, 0, 0, 0) /\ Shift(0, 0, 1, 0) /\ Runs
        \/ Account(0, 0, 0, 1, 1) /\ Shift(0, 0, 0, 1) /\ NoThread
    BY <1>0, <1>2, <1>3
  <2>4. Alone'
    BY <1>0, <1>1, <2>0, <2>1, <2>2, <2>3 DEF Alone, Account, Shift
  <2>5. Reported'
    BY <1>0, <2>1, <2>3 DEF Reported, Account, Shift
  <2>6. Chosen'
    <3>1. /\ format_thread' # "format" /\ Count("confirm")' = 0 /\ Starting' = 0
          /\ Posted("IDC_START")' = 0 /\ Operations' = 1
      BY <1>1, <1>4, <2>1, <2>3 DEF Shift
    <3>. QED
      BY <3>1 DEF Chosen
  <2>. QED
    BY <2>4, <2>5, <2>6 DEF Sound
<1>. QED
  BY <1>1, <1>4, <1>5, <1>6, <1>7 DEF Queues

-----------------------------------------------------------------------------
\* The boot check ends with a message; the operation is still the only one.
LEMMA BootCheckThreadKeeps ==
    ASSUME Good, BootCheckThread, overlap' = (overlap \/ SideBySide')
    PROVE  Good'
<1> USE DEF Good
<1>0. /\ UNCHANGED <<boxes, workers, scans_starting, scans, download, images, events, closed,
            format_thread, zero_drive, selected, operations, op_in_progress,
            asked_zero, user_cancelled, confirmed, target, verdict, told, meddled>>
      /\ boot_checks > 0 /\ boot_checks' = boot_checks - 1
      /\ Post("START_PROCEED") \/ Post("START_CANCEL") \/ Post("START_ERROR")
      /\ ErrorStatus' \in {ErrorStatus, "none", "error"}
  BY DEF BootCheckThread, controls, deviceVars, countVars, opHistory
<1>1. /\ boxes' \in Seq(Boxes) /\ Count("confirm")' = Count("confirm") + 0
      /\ Count("notify")' = Count("notify") + 0 /\ Working' = Working + 0
  BY <1>0, BoxesKept, AddNothing
<1>2. boot_checks' = boot_checks + (-1) /\ boot_checks' \in Nat
  BY <1>0, Counted
<1>3. /\ posted' \in Seq(Messages)
      /\ \/ Account(0, 1, 0, 0, 0) /\ Shift(0, 0, 0, 0)
         \/ Account(0, 0, 1, 0, 0) /\ Shift(-1, 1, 0, 0)
  <2>1. CASE Post("START_PROCEED")
    <3>1. Account(0, 1, 0, 0, 0) /\ posted' \in Seq(Messages)
      BY <2>1, Posts, Accounts DEF Messages
    <3>2. Shift((-1) + 1 + 0, 0, 0, 0)
      BY <1>1, <1>2, <3>1, Shifts
    <3>. QED
      BY <3>1, <3>2
  <2>2. CASE Post("START_CANCEL") \/ Post("START_ERROR")
    <3>1. Account(0, 0, 1, 0, 0) /\ posted' \in Seq(Messages)
      BY <2>2, Posts, Accounts DEF Messages
    <3>2. Shift((-1) + 0 + 0, 1, 0, 0)
      BY <1>1, <1>2, <3>1, Shifts
    <3>. QED
      BY <3>1, <3>2
  <2>. QED
    BY <1>0, <2>1, <2>2
<1>4. Numbers'
  BY <1>0, <1>2 DEF Numbers
<1>5. /\ Operations' = Operations + 0 /\ Posted("IDC_START")' = Posted("IDC_START") + 0
      /\ Posted("UM_SELECT_ISO")' = Posted("UM_SELECT_ISO")
      /\ Posted("WM_DROPFILES")' = Posted("WM_DROPFILES")
      /\ operations' = operations + 0
  <2>1. operations' = operations + 0
    BY <1>0, Counted
  <2>2. /\ Operations' = Operations + 0 /\ Posted("IDC_START")' = Posted("IDC_START") + 0
        /\ Posted("UM_SELECT_ISO")' = Posted("UM_SELECT_ISO")
        /\ Posted("WM_DROPFILES")' = Posted("WM_DROPFILES")
    BY <1>3, Counted DEF Account, Shift
  <2>. QED
    BY <2>1, <2>2
<1>6. Budget'
  BY <1>0, <1>5, BudgetKept
<1>7. ASSUME ~ overlap' PROVE Sound'
  <2>0. Sound /\ ~ SideBySide'
    BY <1>7
  <2>1. Starting > 0
    BY <1>0, Sums, Counted
  <2>2. Starting = 1 /\ Failed = 0 /\ Working = 0 /\ Reports = 0 /\ Operations = 1
    BY <2>0, <2>1, OnePlace, Sums DEF Sound
  <2>3. Posted("COMPLETED") = 0 /\ Count("confirm") = 0 /\ Count("confirm")' = 0
    <3>1. Posted("COMPLETED") = 0
      BY <2>2, Sums, Counted
    <3>2. boot_checks > 0
      BY <1>0
    <3>3. Count("confirm") = 0
      BY <2>2, <3>2, Counted DEF Starting
    <3>. QED
      BY <1>1, <3>1, <3>3
  <2>4. /\ Operations' = 1 /\ Starting' \in {0, 1} /\ Working' = 0 /\ Reports' = 0
        /\ Posted("COMPLETED")' = 0 /\ Count("notify")' = Count("notify")
        /\ Posted("IDC_START")' = Posted("IDC_START")
    BY <1>1, <1>3, <2>2, <2>3, Counted DEF Account, Shift
  <2>5. Alone'
    BY <1>0, <1>5, <2>0, <2>2, <2>3, <2>4 DEF Sound, Alone
  <2>6. Reported'
    BY <1>0, <2>0, <2>2, <2>4 DEF Sound, Reported
  <2>7. Chosen'
    BY <1>0, <2>0, <2>2, <2>3, <2>4 DEF Sound, Chosen
  <2>. QED
    BY <2>5, <2>6, <2>7 DEF Sound
<1>. QED
  BY <1>1, <1>3, <1>4, <1>6, <1>7 DEF Queues

\* A thread ends: what it left in ErrorStatus is on its way to the user.
LEMMA WorkerEndsKeeps ==
    ASSUME Good, NEW k \in Kinds, WorkerEnds(k), overlap' = (overlap \/ SideBySide')
    PROVE  Good'
<1> USE DEF Good
<1>0. /\ UNCHANGED <<boxes, boot_checks, scans_starting, scans, download, images, events,
            closed, format_thread, zero_drive, selected, operations, op_in_progress,
            asked_zero, confirmed, target, told, meddled>>
      /\ workers[k] > 0 /\ workers' = [workers EXCEPT ![k] = @ - 1]
      /\ Post("COMPLETED") \/ Post("COMPLETED_REFRESH")
      /\ verdict' = ErrorStatus'
      /\ user_cancelled => user_cancelled'
      /\ (ErrorStatus' = "cancelled" /\ ErrorStatus # "cancelled") => user_cancelled'
  BY DEF WorkerEnds, controls, deviceVars, countVars
<1>1. /\ boxes' \in Seq(Boxes) /\ Count("confirm")' = Count("confirm") + 0
      /\ Count("notify")' = Count("notify") + 0 /\ boot_checks' = boot_checks + 0
  BY <1>0, BoxesKept, AddNothing
<1>2. Working' = Working + (-1) /\ workers' \in [Kinds -> Nat]
  <2>1. workers[k] \in Nat
    BY DEF Numbers
  <2>2. workers[k] + (-1) \in Nat /\ workers' = [workers EXCEPT ![k] = @ + (-1)]
    <3>1. workers[k] > 0 /\ workers' = [workers EXCEPT ![k] = workers[k] - 1]
      BY <1>0
    <3>2. workers[k] - 1 = workers[k] + (-1) /\ workers[k] - 1 \in Nat
      BY <2>1, <3>1
    <3>. QED
      BY <3>1, <3>2
  <2>. QED
    BY <2>2, WorkersCount
<1>3. /\ posted' \in Seq(Messages) /\ Shift(0, 0, -1, 1)
      /\ Account(0, 0, 0, 1, 1) \/ Account(0, 0, 0, 0, 1)
  <2>1. CASE Post("COMPLETED")
    <3>1. Account(0, 0, 0, 1, 1) /\ posted' \in Seq(Messages)
      BY <2>1, Posts, Accounts DEF Messages
    <3>2. Shift(0 + 0 + 0, 0, -1, 1)
      BY <1>1, <1>2, <3>1, Shifts
    <3>. QED
      BY <3>1, <3>2
  <2>2. CASE Post("COMPLETED_REFRESH")
    <3>1. Account(0, 0, 0, 0, 1) /\ posted' \in Seq(Messages)
      BY <2>2, Posts, Accounts DEF Messages
    <3>2. Shift(0 + 0 + 0, 0, -1, 1)
      BY <1>1, <1>2, <3>1, Shifts
    <3>. QED
      BY <3>1, <3>2
  <2>. QED
    BY <1>0, <2>1, <2>2
<1>4. Numbers'
  BY <1>0, <1>2 DEF Numbers
<1>5. /\ Operations' = Operations + 0 /\ Posted("IDC_START")' = Posted("IDC_START") + 0
      /\ Posted("UM_SELECT_ISO")' = Posted("UM_SELECT_ISO")
      /\ Posted("WM_DROPFILES")' = Posted("WM_DROPFILES")
      /\ operations' = operations + 0
  <2>1. operations' = operations + 0
    BY <1>0, Counted
  <2>2. /\ Operations' = Operations + 0 /\ Posted("IDC_START")' = Posted("IDC_START") + 0
        /\ Posted("UM_SELECT_ISO")' = Posted("UM_SELECT_ISO")
        /\ Posted("WM_DROPFILES")' = Posted("WM_DROPFILES")
    BY <1>3, Counted DEF Account, Shift
  <2>. QED
    BY <2>1, <2>2
<1>6. Budget'
  BY <1>0, <1>5, BudgetKept
<1>7. ASSUME ~ overlap' PROVE Sound'
  <2>0. Sound /\ ~ SideBySide'
    BY <1>7
  <2>1. Working > 0
    <3>1. workers["format"] \in Nat /\ workers["hash"] \in Nat /\ workers["save"] \in Nat
      BY DEF Numbers, Kinds
    <3>. QED
      BY <1>0, <3>1 DEF Working, Kinds
  <2>2. Starting = 0 /\ Failed = 0 /\ Working = 1 /\ Reports = 0 /\ Operations = 1
    BY <2>0, <2>1, OnePlace, Sums DEF Sound
  <2>3. Posted("COMPLETED") = 0 /\ Count("confirm") = 0 /\ Count("confirm")' = 0
    BY <1>1, <2>2, Sums, Counted
  <2>4. /\ Operations' = 1 /\ Starting' = 0 /\ Working' = 0 /\ Reports' = 1
        /\ Count("notify")' = Count("notify")
        /\ Posted("IDC_START")' = Posted("IDC_START")
    <3>1. Operations' = 1 /\ Starting' = 0 /\ Working' = 0 /\ Reports' = 1
      BY <1>3, <2>2 DEF Shift
    <3>. QED
      BY <1>1, <1>5, <3>1, Counted
  <2>5. format_thread # "null"
    BY <2>0, <2>1 DEF Sound, Alone
  <2>6. Alone'
    BY <1>0, <1>5, <2>0, <2>2, <2>3, <2>4 DEF Sound, Alone
  <2>7. Reported'
    BY <1>0, <2>0, <2>2, <2>4, <2>5 DEF Sound, Reported
  <2>8. Chosen'
    BY <1>0, <2>0, <2>2, <2>3, <2>4 DEF Sound, Chosen
  <2>. QED
    BY <2>6, <2>7, <2>8 DEF Sound
<1>. QED
  BY <1>1, <1>3, <1>4, <1>6, <1>7 DEF Queues

\* The warning names the drive that is selected.
LEMMA AskToProceedKeeps ==
    ASSUME Good, AskToProceed, overlap' = (overlap \/ SideBySide')
    PROVE  Good'
<1> USE DEF Good
<1>0. /\ UNCHANGED <<boot_checks, workers, scans_starting, scans, download, images, events,
            closed, format_thread, zero_drive, selected, operations, op_in_progress,
            ErrorStatus, asked_zero, user_cancelled, target, verdict, told, meddled>>
      /\ Message("START_PROCEED") /\ posted' = Tail(posted)
      /\ Push("confirm") /\ confirmed' = selected
  BY DEF AskToProceed, controls, deviceVars, threadVars, countVars
<1>1. /\ boxes' \in Seq(Boxes) /\ Count("confirm")' = Count("confirm") + 1
      /\ Count("notify")' = Count("notify")
  <2>1. Boxed(Nothing, "confirm") /\ boxes' \in Seq(Boxes)
    BY <1>0, Opens DEF Boxes
  <2>. QED
    BY <2>1, Counted DEF Boxed, Nothing
<1>2. Working' = Working + 0 /\ boot_checks' = boot_checks + 0
  BY <1>0, AddNothing
<1>3. Account(0, -1, 0, 0, 0) /\ posted' \in Seq(Messages) /\ Posted("START_PROCEED") >= 1
  BY <1>0, Takes, Accounts DEF Messages
<1>4. Shift(0 + (-1) + 1, 0, 0, 0)
  BY <1>1, <1>2, <1>3, Shifts
<1>5. Numbers'
  BY <1>0 DEF Numbers
<1>6. /\ Operations' = Operations + 0 /\ Posted("IDC_START")' = Posted("IDC_START") + 0
      /\ Posted("UM_SELECT_ISO")' = Posted("UM_SELECT_ISO")
      /\ Posted("WM_DROPFILES")' = Posted("WM_DROPFILES")
      /\ operations' = operations + 0
  <2>1. operations' = operations + 0
    BY <1>0, Counted
  <2>2. /\ Operations' = Operations + 0 /\ Posted("IDC_START")' = Posted("IDC_START") + 0
        /\ Posted("UM_SELECT_ISO")' = Posted("UM_SELECT_ISO")
        /\ Posted("WM_DROPFILES")' = Posted("WM_DROPFILES")
    BY <1>3, <1>4, Counted DEF Account, Shift
  <2>. QED
    BY <2>1, <2>2
<1>7. Budget'
  BY <1>0, <1>6, BudgetKept
<1>8. ASSUME ~ overlap' PROVE Sound'
  <2>0. Sound /\ ~ SideBySide'
    BY <1>8
  <2>1. Starting > 0
    <3>1. Posted("START_PROCEED") >= 1
      BY <1>3
    <3>. QED
      BY <3>1, Sums, Counted
  <2>2. Starting = 1 /\ Failed = 0 /\ Working = 0 /\ Reports = 0 /\ Operations = 1
    BY <2>0, <2>1, OnePlace, Sums DEF Sound
  <2>3. /\ Operations' = 1 /\ Starting' = 1 /\ Working' = 0 /\ Reports' = 0
        /\ Posted("COMPLETED")' = Posted("COMPLETED")
        /\ Posted("IDC_START")' = Posted("IDC_START")
    BY <1>3, <1>4, <2>2, Counted DEF Account, Shift
  <2>4. format_thread = "null"
    BY <2>0, <2>2 DEF Sound, Alone
  <2>5. Alone'
    BY <1>0, <1>1, <1>6, <2>0, <2>2, <2>3 DEF Sound, Alone
  <2>6. Reported'
    BY <1>0, <2>0, <2>2, <2>3 DEF Sound, Reported
  <2>7. Chosen'
    BY <1>0, <2>0, <2>2, <2>3, <2>4 DEF Sound, Chosen
  <2>. QED
    BY <2>5, <2>6, <2>7 DEF Sound
<1>. QED
  BY <1>1, <1>3, <1>5, <1>7, <1>8 DEF Queues

-----------------------------------------------------------------------------
\* The warning is answered: the start is given up, or format_thread gets the drive that
\* the warning named, or it cannot be created.
LEMMA ConfirmAnsweredKeeps ==
    ASSUME Good, Flags, ConfirmAnswered, overlap' = (overlap \/ SideBySide')
    PROVE  Good'
<1> USE DEF Good
<1> DEFINE
      Declined == /\ zero_drive' = FALSE /\ op_in_progress' = FALSE
                  /\ UNCHANGED <<format_thread, ErrorStatus, posted, workers, target, verdict>>
      Agreed == /\ format_thread' = "format" /\ target' = selected
                /\ workers' = [workers EXCEPT !["format"] = @ + 1]
                /\ UNCHANGED <<op_in_progress, zero_drive, ErrorStatus, posted, selected,
                               verdict>>
      NoThread == /\ format_thread' = "null" /\ ErrorStatus' = "error" /\ verdict' = "error"
                  /\ Post("COMPLETED") /\ zero_drive' = FALSE /\ op_in_progress' = FALSE
                  /\ UNCHANGED <<workers, target>>
<1>0. /\ UNCHANGED <<boot_checks, scans_starting, scans, download, images, events, closed,
            operations, asked_zero, user_cancelled, confirmed, told, meddled>>
      /\ BoxOnTop("confirm") /\ Pop
      /\ Declined \/ Agreed \/ NoThread
  BY DEF ConfirmAnswered, AbortedStart, Enabled, deviceVars, countVars
<1>1. /\ boxes' \in Seq(Boxes) /\ Count("confirm")' = Count("confirm") + (-1)
      /\ Count("notify")' = Count("notify") /\ Count("confirm") >= 1
  <2>1. Boxed("confirm", Nothing) /\ boxes' \in Seq(Boxes) /\ Count("confirm") >= 1
    BY <1>0, Closes DEF Boxes
  <2>. QED
    BY <2>1, Counted DEF Boxed, Nothing
<1>2. boot_checks' = boot_checks + 0
  BY <1>0, AddNothing
<1>3. ASSUME Declined
      PROVE  /\ Account(0, 0, 0, 0, 0) /\ Shift(-1, 0, 0, 0)
             /\ posted' \in Seq(Messages) /\ workers' \in [Kinds -> Nat]
  <2>1. Account(0, 0, 0, 0, 0) /\ posted' \in Seq(Messages)
    BY <1>3, QueueKept, Accounts
  <2>2. Working' = Working + 0 /\ workers' \in [Kinds -> Nat]
    BY <1>3, AddNothing DEF Numbers
  <2>3. Shift(0 + 0 + (-1), 0, 0, 0)
    BY <1>1, <1>2, <2>1, <2>2, Shifts
  <2>. QED
    BY <2>1, <2>2, <2>3
<1>4. ASSUME Agreed
      PROVE  /\ Account(0, 0, 0, 0, 0) /\ Shift(-1, 0, 1, 0)
             /\ posted' \in Seq(Messages) /\ workers' \in [Kinds -> Nat]
  <2>1. Account(0, 0, 0, 0, 0) /\ posted' \in Seq(Messages)
    BY <1>4, QueueKept, Accounts
  <2>2. workers["format"] + 1 \in Nat /\ "format" \in Kinds
    BY DEF Numbers, Kinds
  <2>3. Working' = Working + 1 /\ workers' \in [Kinds -> Nat]
    BY <1>4, <2>2, WorkersCount
  <2>4. Shift(0 + 0 + (-1), 0, 1, 0)
    BY <1>1, <1>2, <2>1, <2>3, Shifts
  <2>. QED
    BY <2>1, <2>3, <2>4
<1>5. ASSUME NoThread
      PROVE  /\ Account(0, 0, 0, 1, 1) /\ Shift(-1, 0, 0, 1)
             /\ posted' \in Seq(Messages) /\ workers' \in [Kinds -> Nat]
  <2>1. Account(0, 0, 0, 1, 1) /\ posted' \in Seq(Messages)
    BY <1>5, Posts, Accounts DEF Messages
  <2>2. Working' = Working + 0 /\ workers' \in [Kinds -> Nat]
    BY <1>5, AddNothing DEF Numbers
  <2>3. Shift(0 + 0 + (-1), 0, 0, 1)
    BY <1>1, <1>2, <2>1, <2>2, Shifts
  <2>. QED
    BY <2>1, <2>2, <2>3
<1> HIDE DEF Declined, Agreed, NoThread
<1>6. /\ posted' \in Seq(Messages) /\ workers' \in [Kinds -> Nat]
      /\ Operations' = Operations + 0 \/ Operations' = Operations + (-1)
      /\ Posted("IDC_START")' = Posted("IDC_START") + 0
      /\ Posted("UM_SELECT_ISO")' = Posted("UM_SELECT_ISO")
      /\ Posted("WM_DROPFILES")' = Posted("WM_DROPFILES")
  BY <1>0, <1>3, <1>4, <1>5 DEF Account, Shift
<1>7. Numbers'
  BY <1>0, <1>6 DEF Numbers
<1>8. operations' = operations + 0
  BY <1>0, Counted
<1>9. Budget'
  BY <1>0, <1>6, <1>8, BudgetKept
<1>10. ASSUME ~ overlap' PROVE Sound'
  <2>0. Sound /\ ~ SideBySide'
    BY <1>10
  <2>1. Starting > 0 /\ Count("confirm") > 0
    <3>1. Count("confirm") >= 1
      BY <1>1
    <3>. QED
      BY <3>1, Sums, Counted
  <2>2. Starting = 1 /\ Failed = 0 /\ Working = 0 /\ Reports = 0 /\ Operations = 1
    BY <2>0, <2>1, OnePlace, Sums DEF Sound
  <2>3. /\ Count("confirm") = 1 /\ Posted("COMPLETED") = 0
    BY <2>1, <2>2, Sums, Counted
  <2>4. /\ Posted("IDC_START") = 0 /\ Count("notify") = 0 /\ download = "none"
        /\ Posted("UM_SELECT_ISO") = 0 /\ format_thread = "null" /\ ~ closed /\ op_in_progress
        /\ told = "nothing"
    BY <2>0, <2>2, <2>3, Counted DEF Sound, Alone, Reported
  <2>5. confirmed = selected /\ selected # NoDevice /\ zero_drive = asked_zero
    BY <2>0, <2>1 DEF Sound, Chosen
  <2>6. /\ Count("confirm")' = 0 /\ Count("notify")' = 0 /\ Posted("IDC_START")' = 0
        /\ Posted("UM_SELECT_ISO")' = 0 /\ download' = "none" /\ ~ closed'
    BY <1>0, <1>1, <1>6, <2>3, <2>4
  <2>7. CASE Declined
    <3>1. Operations' = 0 /\ Starting' = 0 /\ Working' = 0 /\ Reports' = 0
      BY <1>3, <2>2, <2>7 DEF Shift
    <3>2. Alone'
      BY <2>0, <2>4, <2>6, <2>7, <3>1 DEF Alone, Declined
    <3>3. Reported'
      BY <1>0, <2>4, <2>7, <3>1 DEF Reported, Declined
    <3>4. Chosen'
      BY <2>4, <2>6, <2>7, <3>1 DEF Chosen, Declined
    <3>. QED
      BY <3>2, <3>3, <3>4 DEF Sound
  <2>8. CASE Agreed
    <3>1. Operations' = 1 /\ Starting' = 0 /\ Working' = 1 /\ Reports' = 0
      BY <1>4, <2>2, <2>8 DEF Shift
    <3>2. Alone'
      BY <2>0, <2>4, <2>6, <2>8, <3>1 DEF Alone, Agreed
    <3>3. Reported'
      BY <1>0, <2>0, <2>2, <2>4, <2>8, <3>1 DEF Reported, Sound, Agreed
    <3>4. Chosen'
      BY <1>0, <2>5, <2>6, <2>8, <3>1 DEF Chosen, Agreed
    <3>. QED
      BY <3>2, <3>3, <3>4 DEF Sound
  <2>9. CASE NoThread
    <3>1. Operations' = 1 /\ Starting' = 0 /\ Working' = 0 /\ Reports' = 1
      BY <1>5, <2>2, <2>9 DEF Shift
    <3>2. Posted("COMPLETED")' = 1
      BY <1>5, <2>3, <2>9 DEF Account
    <3>3. Alone'
      BY <2>0, <2>4, <2>6, <2>9, <3>1, <3>2 DEF Alone, NoThread
    <3>4. Reported'
      BY <1>0, <2>4, <2>9, <3>1 DEF Reported, NoThread
    <3>5. Chosen'
      BY <2>6, <2>9, <3>1 DEF Chosen, NoThread
    <3>. QED
      BY <3>3, <3>4, <3>5 DEF Sound
  <2>. QED
    BY <1>0, <2>7, <2>8, <2>9
<1>. QED
  BY <1>1, <1>6, <1>7, <1>9, <1>10 DEF Queues

\* A start that is given up leaves nothing behind.
LEMMA StartCancelledKeeps ==
    ASSUME Good, StartCancelled, overlap' = (overlap \/ SideBySide')
    PROVE  Good'
<1> USE DEF Good
<1>0. /\ UNCHANGED <<boxes, boot_checks, workers, scans_starting, scans, download, images,
            events, closed, format_thread, operations, ErrorStatus, asked_zero,
            user_cancelled, confirmed, target, verdict, told, meddled>>
      /\ Message("START_CANCEL") /\ posted' = Tail(posted)
      /\ zero_drive' = FALSE /\ op_in_progress' = FALSE
  BY DEF StartCancelled, AbortedStart, Enabled, threadVars, countVars, opHistory
<1>1. /\ boxes' \in Seq(Boxes) /\ Count("confirm")' = Count("confirm") + 0
      /\ Count("notify")' = Count("notify") + 0 /\ Working' = Working + 0
      /\ boot_checks' = boot_checks + 0
  BY <1>0, BoxesKept, AddNothing
<1>2. Account(0, 0, -1, 0, 0) /\ posted' \in Seq(Messages) /\ Posted("START_CANCEL") >= 1
  BY <1>0, Takes, Accounts DEF Messages
<1>3. Shift(0 + 0 + 0, -1, 0, 0)
  BY <1>1, <1>2, Shifts
<1>4. Numbers'
  BY <1>0 DEF Numbers
<1>5. /\ Operations' = Operations + (-1) /\ Posted("IDC_START")' = Posted("IDC_START") + 0
      /\ Posted("UM_SELECT_ISO")' = Posted("UM_SELECT_ISO")
      /\ Posted("WM_DROPFILES")' = Posted("WM_DROPFILES")
      /\ operations' = operations + 0
  <2>1. operations' = operations + 0
    BY <1>0, Counted
  <2>2. /\ Operations' = Operations + (-1) /\ Posted("IDC_START")' = Posted("IDC_START") + 0
        /\ Posted("UM_SELECT_ISO")' = Posted("UM_SELECT_ISO")
        /\ Posted("WM_DROPFILES")' = Posted("WM_DROPFILES")
    BY <1>2, <1>3, Counted DEF Account, Shift
  <2>. QED
    BY <2>1, <2>2
<1>6. Budget'
  BY <1>0, <1>5, BudgetKept
<1>7. ASSUME ~ overlap' PROVE Sound'
  <2>0. Sound /\ ~ SideBySide'
    BY <1>7
  <2>1. Failed > 0
    <3>1. Posted("START_CANCEL") >= 1
      BY <1>2
    <3>. QED
      BY <3>1, Counted DEF Failed
  <2>2. Starting = 0 /\ Failed = 1 /\ Working = 0 /\ Reports = 0 /\ Operations = 1
    BY <2>0, <2>1, OnePlace, Sums DEF Sound
  <2>3. Posted("COMPLETED") = 0 /\ Count("confirm") = 0
    BY <2>2, Sums, Counted
  <2>4. /\ Posted("IDC_START") = 0 /\ Count("notify") = 0 /\ download = "none"
        /\ Posted("UM_SELECT_ISO") = 0 /\ format_thread = "null" /\ told = "nothing"
    BY <2>0, <2>2, <2>3, Counted DEF Sound, Alone, Reported
  <2>5. /\ Operations' = 0 /\ Starting' = 0 /\ Working' = 0 /\ Reports' = 0
    BY <1>3, <2>2 DEF Shift
  <2>6. /\ Count("confirm")' = 0 /\ Count("notify")' = 0 /\ Posted("IDC_START")' = 0
        /\ Posted("UM_SELECT_ISO")' = 0
    BY <1>1, <1>5, <2>3, <2>4
  <2>7. Alone'
    BY <1>0, <2>0, <2>4, <2>5, <2>6 DEF Alone
  <2>8. Reported'
    BY <1>0, <2>4, <2>5 DEF Reported
  <2>9. Chosen'
    BY <1>0, <2>4, <2>5, <2>6 DEF Chosen
  <2>. QED
    BY <2>7, <2>8, <2>9 DEF Sound
<1>. QED
  BY <1>1, <1>2, <1>4, <1>6, <1>7 DEF Queues

\* The boot check failed: the user is told of an error, and it is one.
LEMMA StartFailedKeeps ==
    ASSUME Good, StartFailed, overlap' = (overlap \/ SideBySide')
    PROVE  Good'
<1> USE DEF Good
<1>0. /\ UNCHANGED <<boot_checks, workers, scans_starting, scans, download, images,
            events, closed, operations, asked_zero, user_cancelled, confirmed, target>>
      /\ Message("START_ERROR") /\ posted' = Tail(posted)
      /\ zero_drive' = FALSE /\ format_thread' = "null" /\ verdict' = "error"
      /\ told' = "error"
  BY DEF StartFailed, Completed, threadVars, countVars
<1>1. /\ boxes' \in Seq(Boxes) /\ Count("confirm")' = Count("confirm") + 0
  <2>1. Completed("error", TRUE)
    BY DEF StartFailed
  <2>2. /\ boxes' \in Seq(Boxes)
        /\ Boxed(Nothing, IF "error" = "none" THEN Nothing ELSE "notify")
    BY <2>1, BoxesCompleted
  <2>. QED
    BY <2>2, Counted DEF Boxed, Nothing
<1>2. Account(0, 0, -1, 0, 0) /\ posted' \in Seq(Messages) /\ Posted("START_ERROR") >= 1
  BY <1>0, Takes, Accounts DEF Messages
<1>3. Working' = Working + 0 /\ boot_checks' = boot_checks + 0
  BY <1>0, AddNothing
<1>4. Shift(0 + 0 + 0, -1, 0, 0)
  BY <1>1, <1>2, <1>3, Shifts
<1>5. Numbers'
  BY <1>0 DEF Numbers
<1>6. /\ Operations' = Operations + (-1) /\ Posted("IDC_START")' = Posted("IDC_START") + 0
      /\ Posted("UM_SELECT_ISO")' = Posted("UM_SELECT_ISO")
      /\ Posted("WM_DROPFILES")' = Posted("WM_DROPFILES")
      /\ operations' = operations + 0
  <2>1. operations' = operations + 0
    BY <1>0, Counted
  <2>2. /\ Operations' = Operations + (-1) /\ Posted("IDC_START")' = Posted("IDC_START") + 0
        /\ Posted("UM_SELECT_ISO")' = Posted("UM_SELECT_ISO")
        /\ Posted("WM_DROPFILES")' = Posted("WM_DROPFILES")
    BY <1>2, <1>4, Counted DEF Account, Shift
  <2>. QED
    BY <2>1, <2>2
<1>7. Budget'
  BY <1>0, <1>6, BudgetKept
<1>8. ASSUME ~ overlap' PROVE Sound'
  <2>0. Sound /\ ~ SideBySide'
    BY <1>8
  <2>1. Failed > 0
    <3>1. Posted("START_ERROR") >= 1
      BY <1>2
    <3>. QED
      BY <3>1, Counted DEF Failed
  <2>2. Starting = 0 /\ Failed = 1 /\ Working = 0 /\ Reports = 0 /\ Operations = 1
    BY <2>0, <2>1, OnePlace, Sums DEF Sound
  <2>3. Count("confirm") = 0
    BY <2>2, Sums, Counted
  <2>4. /\ Posted("IDC_START") = 0 /\ download = "none" /\ Posted("UM_SELECT_ISO") = 0
    BY <2>0, <2>2, Counted DEF Sound, Alone
  <2>5. /\ Operations' = 0 /\ Starting' = 0 /\ Working' = 0 /\ Reports' = 0
    BY <1>4, <2>2 DEF Shift
  <2>6. /\ Count("confirm")' = 0 /\ Posted("IDC_START")' = 0 /\ Posted("UM_SELECT_ISO")' = 0
    BY <1>1, <1>6, <2>3, <2>4
  <2>7. Alone'
    BY <1>0, <2>0, <2>4, <2>5, <2>6 DEF Alone
  <2>8. Reported'
    BY <1>0, <2>5 DEF Reported
  <2>9. Chosen'
    BY <1>0, <2>5, <2>6 DEF Chosen
  <2>. QED
    BY <2>7, <2>8, <2>9 DEF Sound
<1>. QED
  BY <1>1, <1>2, <1>5, <1>7, <1>8 DEF Queues

\* The report reaches the user: what he is told is what ErrorStatus says.
LEMMA HandleCompletedKeeps ==
    ASSUME Good, HandleCompleted, ErrorStatus \in Statuses,
           overlap' = (overlap \/ SideBySide')
    PROVE  Good'
<1> USE DEF Good
<1>0. /\ UNCHANGED <<boot_checks, workers, scans_starting, scans, download, images,
            events, closed, operations, asked_zero, user_cancelled, confirmed, target,
            verdict, meddled>>
      /\ Message("COMPLETED") \/ Message("COMPLETED_REFRESH")
      /\ posted' = Tail(posted)
      /\ zero_drive' = FALSE /\ format_thread' = "null"
      /\ told' = (IF ErrorStatus = "none" THEN "ready" ELSE ErrorStatus)
      /\ Completed(ErrorStatus, FALSE) \/ Completed(ErrorStatus, TRUE)
  BY DEF HandleCompleted, Completed, threadVars, countVars
<1>1. /\ boxes' \in Seq(Boxes) /\ Count("confirm")' = Count("confirm") + 0
  <2>1. PICK c \in {Nothing, "notify"} : Boxed(Nothing, c) /\ boxes' \in Seq(Boxes)
    BY <1>0, BoxesCompleted
  <2>. QED
    BY <2>1, Counted DEF Boxed, Nothing
<1>2. /\ Account(0, 0, 0, -1, -1) \/ Account(0, 0, 0, 0, -1)
      /\ posted' \in Seq(Messages) /\ Reports >= 1
  <2>1. CASE Message("COMPLETED")
    <3>1. Account(0, 0, 0, -1, -1) /\ posted' \in Seq(Messages) /\ Posted("COMPLETED") >= 1
      BY <1>0, <2>1, Takes, Accounts DEF Messages
    <3>2. Posted("COMPLETED") >= 1
      BY <3>1
    <3>3. Reports >= 1
      BY <3>2, Counted DEF Reports
    <3>. QED
      BY <3>1, <3>3
  <2>2. CASE Message("COMPLETED_REFRESH")
    <3>1. /\ Account(0, 0, 0, 0, -1) /\ posted' \in Seq(Messages)
          /\ Posted("COMPLETED_REFRESH") >= 1
      BY <1>0, <2>2, Takes, Accounts DEF Messages
    <3>2. Posted("COMPLETED_REFRESH") >= 1
      BY <3>1
    <3>3. Reports >= 1
      BY <3>2, Counted DEF Reports
    <3>. QED
      BY <3>1, <3>3
  <2>. QED
    BY <1>0, <2>1, <2>2
<1>3. Working' = Working + 0 /\ boot_checks' = boot_checks + 0
  BY <1>0, AddNothing
<1>4. Shift(0 + 0 + 0, 0, 0, -1)
  BY <1>1, <1>2, <1>3, Shifts
<1>5. Numbers'
  BY <1>0 DEF Numbers
<1>6. /\ Operations' = Operations + (-1) /\ Posted("IDC_START")' = Posted("IDC_START") + 0
      /\ Posted("UM_SELECT_ISO")' = Posted("UM_SELECT_ISO")
      /\ Posted("WM_DROPFILES")' = Posted("WM_DROPFILES")
      /\ operations' = operations + 0
  <2>1. operations' = operations + 0
    BY <1>0, Counted
  <2>2. /\ Operations' = Operations + (-1) /\ Posted("IDC_START")' = Posted("IDC_START") + 0
        /\ Posted("UM_SELECT_ISO")' = Posted("UM_SELECT_ISO")
        /\ Posted("WM_DROPFILES")' = Posted("WM_DROPFILES")
    BY <1>2, <1>4, Counted DEF Account, Shift
  <2>. QED
    BY <2>1, <2>2
<1>7. Budget'
  BY <1>0, <1>6, BudgetKept
<1>8. ASSUME ~ overlap' PROVE Sound'
  <2>0. Sound /\ ~ SideBySide'
    BY <1>8
  <2>1. Reports > 0
    BY <1>2, Sums
  <2>2. Starting = 0 /\ Failed = 0 /\ Working = 0 /\ Reports = 1 /\ Operations = 1
    BY <2>0, <2>1, OnePlace, Sums DEF Sound
  <2>3. Count("confirm") = 0
    BY <2>2, Sums, Counted
  <2>4. /\ Posted("IDC_START") = 0 /\ download = "none" /\ Posted("UM_SELECT_ISO") = 0
    BY <2>0, <2>2, Counted DEF Sound, Alone
  <2>5. /\ Operations' = 0 /\ Starting' = 0 /\ Working' = 0 /\ Reports' = 0
    BY <1>4, <2>2 DEF Shift
  <2>6. /\ Count("confirm")' = 0 /\ Posted("IDC_START")' = 0 /\ Posted("UM_SELECT_ISO")' = 0
    BY <1>1, <1>6, <2>3, <2>4
  <2>7. Alone'
    BY <1>0, <2>0, <2>4, <2>5, <2>6 DEF Alone
  <2>8. Reported'
    <3>1. /\ ErrorStatus = "cancelled" => user_cancelled \/ "cancelled" \in meddled
          /\ ErrorStatus # "cancelled" =>
                 verdict = ErrorStatus \/ ErrorStatus \in meddled
      BY <2>0, <2>2 DEF Sound, Reported
    <3>. QED
      BY <1>0, <2>5, <3>1 DEF Reported, Statuses
  <2>9. Chosen'
    BY <1>0, <2>5, <2>6 DEF Chosen
  <2>. QED
    BY <2>7, <2>8, <2>9 DEF Sound
<1>. QED
  BY <1>1, <1>2, <1>5, <1>7, <1>8 DEF Queues

-----------------------------------------------------------------------------
\* The whole of it, with the types of the flags and the other values.
Whole == Good /\ Flags /\ Values

\* It is the inductive invariant.
LEMMA WholeIsIInv == Whole => IInv
  BY TypeParts DEF Whole, Good, IInv, Sound

\* The window opens with an empty queue and nothing in progress.
LEMMA InitWhole == Init => Whole
<1> SUFFICES ASSUME Init PROVE Whole
  OBVIOUS
<1>1. Queues
  BY EmptySeq DEF Init, Queues
<1>2. Numbers
  BY SessionAssumption DEF Init, Numbers, Kinds
<1>3. \A x : Posted(x) = 0 /\ Count(x) = 0
  BY <1>1, CountTypes DEF Init
<1>4. /\ boot_checks = 0 /\ workers["format"] = 0 /\ workers["hash"] = 0
      /\ workers["save"] = 0
  BY DEF Init, Kinds
<1>5. Starting = 0 /\ Failed = 0 /\ Working = 0 /\ Reports = 0
  BY <1>3, <1>4 DEF Starting, Failed, Working, Reports
<1>6. Operations = 0 /\ ImageThreads = 0
  BY <1>5 DEF Operations, ImageThreads, Init
<1>7. Budget
  BY <1>3, <1>6 DEF Init, Budget
<1>8. Alone
  BY <1>3, <1>5, <1>6 DEF Init, Alone, SideBySide
<1>9. Reported
  BY <1>5, <1>6 DEF Init, Reported
<1>10. Chosen
  BY <1>3, <1>5, <1>6 DEF Init, Chosen
<1>11. Flags
  BY Zenon DEF Init, Flags
<1>12. Values
  BY DEF Init, Values, Kinds, Statuses
<1>. QED
  BY <1>1, <1>2, <1>7, <1>8, <1>9, <1>10, <1>11, <1>12 DEF Whole, Good, Sound

\* Every step of the window, of its threads and of its user preserves it.
LEMMA StepGood == Whole /\ [Next]_vars => Good'
<1> SUFFICES ASSUME Good, Flags, Values, [Next]_vars PROVE Good'
  BY DEF Whole
<1>0. CASE UNCHANGED vars
  <2>1. UNCHANGED <<posted, boxes, boot_checks, scans_starting, scans, download, workers,
            operations, images, events, op_in_progress, closed, format_thread, zero_drive,
            selected, ErrorStatus>>
    BY <1>0 DEF vars, controls, deviceVars, threadVars, countVars
  <2>2. UNCHANGED <<asked_zero, user_cancelled, confirmed, target, verdict, told, meddled,
            overlap>>
    BY <1>0 DEF vars, opHistory
  <2>3. /\ OpsKept /\ Queues'
        /\ Posted("IDC_START")' = Posted("IDC_START")
        /\ Posted("UM_SELECT_ISO")' = Posted("UM_SELECT_ISO")
        /\ Posted("WM_DROPFILES")' = Posted("WM_DROPFILES")
        /\ Count("notify")' = Count("notify")
    BY <2>1, AllKept DEF Good
  <2>4. Numbers' /\ Budget'
    BY <2>1, <2>3 DEF Good, Numbers, Budget, OpsKept
  <2>5. SideBySide' <=> SideBySide
    BY <2>1, <2>3 DEF SideBySide, ImageThreads, OpsKept
  <2>6. ASSUME ~ overlap' PROVE Sound'
    <3>1. Sound
      BY <2>2, <2>6 DEF Good
    <3>2. Alone'
      BY <2>1, <2>3, <2>5, <3>1 DEF Sound, Alone, OpsKept
    <3>3. Reported'
      BY <2>1, <2>2, <2>3, <3>1 DEF Sound, Reported, OpsKept
    <3>4. Chosen'
      BY <2>1, <2>2, <2>3, <3>1 DEF Sound, Chosen, OpsKept
    <3>. QED
      BY <3>2, <3>3, <3>4 DEF Sound
  <2>. QED
    BY <2>3, <2>4, <2>6 DEF Good
<1> SUFFICES ASSUME ~ UNCHANGED vars PROVE Good'
  BY <1>0
<1>n. overlap' = (overlap \/ SideBySide')
  BY Noting
<1>1. CASE ClickStart
  BY <1>n, <1>1, ClickStartKeeps
<1>2. CASE PressAltZ
  BY <1>n, <1>2, PressAltZKeeps
<1>3. CASE \E k \in {"hash", "save"} : StartWorker(k)
  BY <1>n, <1>3, StartWorkerKeeps
<1>4. CASE ClickSelect
  BY <1>n, <1>4, ClickSelectKeeps
<1>5. CASE DropFile
  BY <1>n, <1>5, DropFileKeeps
<1>6. CASE ClickDownload
  BY <1>n, <1>6, ClickDownloadKeeps
<1>7. CASE ClickCancel
  BY <1>n, <1>7, ClickCancelKeeps
<1>8. CASE CloseWindow
  BY <1>n, <1>8, CloseWindowKeeps
<1>9. CASE SelectDevice
  BY <1>n, <1>9, SelectDeviceKeeps
<1>10. CASE BootCheckThread
  BY <1>n, <1>10, BootCheckThreadKeeps
<1>11. CASE \E k \in Kinds : WorkerEnds(k)
  BY <1>n, <1>11, WorkerEndsKeeps
<1>12. CASE ScanBegins
  BY <1>n, <1>12, ScanBeginsKeeps
<1>13. CASE ScanEnds
  BY <1>n, <1>13, ScanEndsKeeps
<1>14. CASE DownloadDone
  BY <1>n, <1>14, DownloadDoneKeeps
<1>15. CASE DownloadEnds
  BY <1>n, <1>15, DownloadEndsKeeps
<1>16. CASE HandleStart
  BY <1>n, <1>16, HandleStartKeeps
<1>17. CASE AskToProceed
  BY <1>n, <1>17, AskToProceedKeeps
<1>18. CASE StartCancelled
  BY <1>n, <1>18, StartCancelledKeeps
<1>19. CASE StartFailed
  BY <1>n, <1>19, StartFailedKeeps
<1>20. CASE ConfirmAnswered
  BY <1>n, <1>20, ConfirmAnsweredKeeps
<1>21. CASE HandleCompleted
  BY <1>n, <1>21, HandleCompletedKeeps DEF Values
<1>22. CASE NotifyClosed
  BY <1>n, <1>22, NotifyClosedKeeps
<1>23. CASE HandleSelect
  BY <1>n, <1>23, HandleSelectKeeps
<1>24. CASE CancelAnswered
  BY <1>n, <1>24, CancelAnsweredKeeps
<1>25. CASE RefreshTimer
  BY <1>n, <1>25, RefreshTimerKeeps
<1>26. CASE HotPlug
  BY <1>n, <1>26, HotPlugKeeps
<1>27. CASE BackgroundCheck
  BY <1>n, <1>27, BackgroundCheckKeeps
<1>. QED
  BY <1>1, <1>2, <1>3, <1>4, <1>5, <1>6, <1>7, <1>8, <1>9, <1>10, <1>11, <1>12, <1>13, <1>14,
     <1>15, <1>16, <1>17, <1>18, <1>19, <1>20, <1>21, <1>22, <1>23, <1>24, <1>25, <1>26,
     <1>27, Steps

\* The invariant of the main window (MainCallback and the threads it starts), for every
\* number of operations, images, devices and device events.
THEOREM Invariance == Spec => []IInv
<1>1. Whole /\ [Next]_vars => Whole'
  BY StepGood, FlagsStep, ValuesStep DEF Whole
<1>. QED
  BY <1>1, InitWhole, WholeIsIInv, PTL DEF Spec

\* The window, its queue, its boxes and its threads have their types; in particular the
\* threads are never more than what the user asked for.
THEOREM TypeCorrect == Spec => []TypeOK
<1>1. IInv => TypeOK
  BY DEF IInv
<1>. QED
  BY <1>1, Invariance, PTL

\* Unless an image is scanned or downloaded beside it, an operation is alone from Start
\* to its report: EnableControls(FALSE) keeps every other start and WM_CLOSE out, also
\* while boxes run message loops of their own.
THEOREM OneOperation == Spec => []OperationIsAlone
<1>1. IInv => OperationIsAlone
  BY DEF IInv, Alone, OperationIsAlone
<1>. QED
  BY <1>1, Invariance, PTL

\* UM_FORMAT_COMPLETED tells the user what the thread of this operation came to,
\* however late a cancel box is answered and whatever an earlier operation left, unless
\* a background check wrote to ErrorStatus during it: then it may tell what that wrote.
THEOREM ReportIsTrue == Spec => []ToldWhatHappened
<1>1. IInv => ToldWhatHappened
  BY DEF IInv, Reported, ToldWhatHappened
<1>. QED
  BY <1>1, Invariance, PTL

\* FormatThread gets the drive that the warning named, and zeroes it only if that is
\* what the user asked for, whatever is plugged in or out meanwhile.
THEOREM ConfirmedDriveFormatted == Spec => []FormatsWhatWasConfirmed
<1>1. IInv => FormatsWhatWasConfirmed
  BY DEF IInv, Chosen, FormatsWhatWasConfirmed
<1>. QED
  BY <1>1, Invariance, PTL
=============================================================================
