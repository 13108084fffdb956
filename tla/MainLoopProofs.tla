---------------------------- MODULE MainLoopProofs ----------------------------
(***************************************************************************)
(* Theorems about the main loop, for any number of inputs: what is drawn   *)
(* is drawn on a canvas, and closing the window is clean.                  *)
(***************************************************************************)
EXTENDS MainLoop, SequenceTheorems, TLAPS

(* The window system is the last source: main attaches it last.            *)
GdkIsLast ==
    /\ \A k \in DOMAIN sources : sources[k] = "gdk" => k = Len(sources)
    /\ main = "starting" => sources = <<>>
    /\ main = "tracing" => \A k \in DOMAIN sources : sources[k] # "gdk"

(* Before the loop runs nothing is dispatched. *)
NothingRunsEarly ==
    main \in {"starting", "tracing", "ready", "exited"} =>
        pending = {} /\ reading = "none" /\ code = <<>>

(* An iteration that has come to the window system has no other source to  *)
(* dispatch, and none follows it once the window is going.  The input that *)
(* made the iteration collect the window system is still there.            *)
GdkEndsIteration ==
    /\ code # <<>> \/ window # "alive" => pending = {} /\ reading = "none"
    /\ "gdk" \in pending => gdk # <<>>

(* How far the window's end has come: the statements left to run, and what *)
(* they have done to the window and to the diagram.                        *)
stage(statements, w, d) == code = statements /\ window = w /\ diagram = d

Open ==
    \/ stage(<<>>, "none", "none") /\ ~stray /\ main \in {"starting", "tracing", "exited"}
    \/ stage(<<>>, "alive", "alive") /\ ~stray /\ main \in {"ready", "looping", "returned"}

(* After Quit: the handler, and the one that runs inside it. *)
quit1 == on_destroy_event
quit2 == <<"destroy_window", "destroy_diagram", "g_main_quit", "window_gone",
           "destroy_diagram", "g_main_quit">>
quit3 == <<"destroy_diagram", "g_main_quit", "window_gone", "destroy_diagram", "g_main_quit">>
quit4 == <<"g_main_quit", "window_gone", "destroy_diagram", "g_main_quit">>
quit5 == <<"window_gone", "destroy_diagram", "g_main_quit">>
quit6 == <<"destroy_diagram", "g_main_quit">>
quit7 == <<"g_main_quit">>

Quits ==
    /\ main = "looping" /\ asked = "quit"
    /\ \/ ~stray /\ stage(quit1, "alive", "alive")
       \/ ~stray /\ stage(quit2, "in_destruction", "alive")
       \/ ~stray /\ stage(quit3, "in_destruction", "alive")
       \/ ~stray /\ stage(quit4, "in_destruction", "gone")
       \/ ~stray /\ ~is_running /\ stage(quit5, "in_destruction", "gone")
       \/ ~is_running /\ stage(quit6, "gone", "gone")
       \/ ~is_running /\ stage(quit7, "gone", "gone")

(* After the close button: GTK's destruction, and the handler inside it. *)
close1 == delete_event
close2 == <<"destroy_window", "destroy_diagram", "g_main_quit", "window_gone">>
close3 == <<"destroy_diagram", "g_main_quit", "window_gone">>
close4 == <<"g_main_quit", "window_gone">>
close5 == <<"window_gone">>

Closes ==
    /\ main = "looping" /\ ~stray
    /\ \/ stage(close1, "alive", "alive")
       \/ stage(close2, "in_destruction", "alive")
       \/ stage(close3, "in_destruction", "alive")
       \/ stage(close4, "in_destruction", "gone")
       \/ ~is_running /\ stage(close5, "in_destruction", "gone")

Closed ==
    /\ main \in {"looping", "returned"} /\ ~is_running
    /\ stage(<<>>, "gone", "gone")
    /\ stray => asked = "quit"

Stages == Open \/ Quits \/ Closes \/ Closed

LoopInv ==
    /\ TypeOK
    /\ GdkIsLast
    /\ NothingRunsEarly
    /\ GdkEndsIteration
    /\ Stages

-----------------------------------------------------------------------------
(* Removing a watch from the list of sources keeps the others in order.    *)
LEMMA RemovalKeepsOrder ==
    ASSUME NEW S, NEW s \in Seq(S), NEW k \in DOMAIN s
    PROVE  /\ RemoveAt(s, k) \in Seq(S)
           /\ Len(RemoveAt(s, k)) = Len(s) - 1
           /\ \A l \in 1..(Len(s) - 1) :
                 RemoveAt(s, k)[l] = IF l < k THEN s[l] ELSE s[l + 1]
<1> DEFINE front == SubSeq(s, 1, k - 1)
           back  == SubSeq(s, k + 1, Len(s))
<1>1. k \in 1..Len(s) /\ Len(s) \in Nat
  BY LenProperties
<1>2. /\ front \in Seq(S) /\ Len(front) = k - 1
      /\ \A l \in 1..(k - 1) : front[l] = s[l]
  BY <1>1, SubSeqProperties
<1>3. /\ back \in Seq(S) /\ Len(back) = Len(s) - k
      /\ \A l \in 1..(Len(s) - k) : back[l] = s[k + l]
  BY <1>1, SubSeqProperties
<1> HIDE DEF front, back
<1>4. /\ front \o back \in Seq(S) /\ Len(front \o back) = Len(s) - 1
      /\ \A l \in 1..(Len(s) - 1) : (front \o back)[l] =
            IF l <= k - 1 THEN front[l] ELSE back[l - (k - 1)]
  BY <1>1, <1>2, <1>3, ConcatProperties
<1>5. ASSUME NEW l \in 1..(Len(s) - 1)
      PROVE  (front \o back)[l] = IF l < k THEN s[l] ELSE s[l + 1]
  <2>1. CASE l < k
    BY <1>1, <1>2, <1>4, <2>1
  <2>2. CASE ~(l < k)
    <3>1. l - (k - 1) \in 1..(Len(s) - k) /\ k + (l - (k - 1)) = l + 1 /\ ~(l <= k - 1)
      BY <1>1, <2>2
    <3>2. back[l - (k - 1)] = s[k + (l - (k - 1))]
      BY <1>3, <3>1
    <3>3. QED
      BY <1>4, <2>2, <3>1, <3>2
  <2>3. QED
    BY <2>1, <2>2
<1>6. QED
  BY <1>4, <1>5 DEF RemoveAt, front, back

LEMMA StagesStay ==
    ASSUME Stages, UNCHANGED <<main, is_running, asked, code, window, diagram, stray>>
    PROVE  Stages'
BY DEF Stages, Open, Quits, Closes, Closed, stage

(* The statements of the stages, and what each leaves to run. *)
Codes == {quit1, quit2, quit3, quit4, quit5, quit6, quit7,
          close1, close2, close3, close4, close5}

LEMMA CodesAreShort ==
    \A s \in Codes : s \in Seq(Statement) /\ Len(s) <= 6 /\ s # <<>>
<1>1. /\ quit1 \in Seq(Statement) /\ Len(quit1) <= 6 /\ quit1 # <<>>
      /\ quit2 \in Seq(Statement) /\ Len(quit2) <= 6 /\ quit2 # <<>>
      /\ quit3 \in Seq(Statement) /\ Len(quit3) <= 6 /\ quit3 # <<>>
  BY DEF Statement, quit1, quit2, quit3, on_destroy_event
<1>2. /\ quit4 \in Seq(Statement) /\ Len(quit4) <= 6 /\ quit4 # <<>>
      /\ quit5 \in Seq(Statement) /\ Len(quit5) <= 6 /\ quit5 # <<>>
      /\ quit6 \in Seq(Statement) /\ Len(quit6) <= 6 /\ quit6 # <<>>
      /\ quit7 \in Seq(Statement) /\ Len(quit7) <= 6 /\ quit7 # <<>>
  BY DEF Statement, quit4, quit5, quit6, quit7
<1>3. /\ close1 \in Seq(Statement) /\ Len(close1) <= 6 /\ close1 # <<>>
      /\ close2 \in Seq(Statement) /\ Len(close2) <= 6 /\ close2 # <<>>
      /\ close3 \in Seq(Statement) /\ Len(close3) <= 6 /\ close3 # <<>>
  BY DEF Statement, close1, close2, close3, delete_event
<1>4. /\ close4 \in Seq(Statement) /\ Len(close4) <= 6 /\ close4 # <<>>
      /\ close5 \in Seq(Statement) /\ Len(close5) <= 6 /\ close5 # <<>>
  BY DEF Statement, close4, close5
<1>5. QED
  BY <1>1, <1>2, <1>3, <1>4 DEF Codes

LEMMA CodeIsNotEmpty ==
    /\ quit1 # <<>> /\ quit2 # <<>> /\ quit3 # <<>> /\ quit4 # <<>>
    /\ quit5 # <<>> /\ quit6 # <<>> /\ quit7 # <<>>
    /\ close1 # <<>> /\ close2 # <<>> /\ close3 # <<>> /\ close4 # <<>>
    /\ close5 # <<>>
BY CodesAreShort DEF Codes

LEMMA FirstStatement ==
    /\ Head(quit1) = "destroy_window" /\ Head(quit2) = "destroy_window"
    /\ Head(quit3) = "destroy_diagram" /\ Head(quit4) = "g_main_quit"
    /\ Head(quit5) = "window_gone" /\ Head(quit6) = "destroy_diagram"
    /\ Head(quit7) = "g_main_quit"
    /\ Head(close1) = "destroy_window" /\ Head(close2) = "destroy_window"
    /\ Head(close3) = "destroy_diagram" /\ Head(close4) = "g_main_quit"
    /\ Head(close5) = "window_gone"
BY DEF quit1, quit2, quit3, quit4, quit5, quit6, quit7, close1, close2, close3,
   close4, close5, on_destroy_event, delete_event

LEMMA OtherStatements ==
    /\ Tail(quit1) = quit6 /\ Tail(quit2) = quit3 /\ Tail(quit3) = quit4
    /\ Tail(quit4) = quit5 /\ Tail(quit5) = quit6 /\ Tail(quit6) = quit7
    /\ Tail(quit7) = <<>>
    /\ Tail(close1) = <<>> /\ Tail(close2) = close3 /\ Tail(close3) = close4
    /\ Tail(close4) = close5 /\ Tail(close5) = <<>>
<1>1. Tail(quit1) = quit6 /\ Tail(quit2) = quit3 /\ Tail(quit3) = quit4
  BY DEF quit1, quit2, quit3, quit4, quit6, on_destroy_event
<1>2. Tail(quit4) = quit5 /\ Tail(quit5) = quit6 /\ Tail(quit6) = quit7
  BY DEF quit4, quit5, quit6, quit7
<1>3. Tail(quit7) = <<>> /\ Tail(close1) = <<>> /\ Tail(close5) = <<>>
  BY DEF quit7, close1, close5, delete_event
<1>4. Tail(close2) = close3 /\ Tail(close3) = close4 /\ Tail(close4) = close5
  BY DEF close2, close3, close4, close5
<1>5. QED
  BY <1>1, <1>2, <1>3, <1>4

(* The handler inside the destruction of the window. *)
LEMMA HandlerInside ==
    /\ on_destroy_event \o <<"window_gone">> \o Tail(quit1) = quit2
    /\ on_destroy_event \o <<"window_gone">> \o Tail(close1) = close2
<1> DEFINE inside == on_destroy_event \o <<"window_gone">>
<1>1. /\ inside \in Seq(Statement) /\ Len(inside) = 4
      /\ inside[1] = "destroy_window" /\ inside[2] = "destroy_diagram"
      /\ inside[3] = "g_main_quit" /\ inside[4] = "window_gone"
  BY DEF on_destroy_event, Statement
<1>2. /\ close2 \in Seq(Statement) /\ Len(close2) = 4
      /\ close2[1] = "destroy_window" /\ close2[2] = "destroy_diagram"
      /\ close2[3] = "g_main_quit" /\ close2[4] = "window_gone"
  BY DEF close2, Statement
<1>3. \A k \in 1..4 : k = 1 \/ k = 2 \/ k = 3 \/ k = 4
  OBVIOUS
<1>4. inside = close2
  <2>1. \A k \in 1..Len(inside) : inside[k] = close2[k]
    BY <1>1, <1>2, <1>3
  <2>2. QED
    BY <1>1, <1>2, <2>1, SeqEqual
<1>5. inside \o <<>> = close2
  BY <1>1, <1>4, ConcatEmptySeq
<1>6. inside \o quit6 = quit2
  <2>1. /\ quit6 \in Seq(Statement) /\ Len(quit6) = 2
        /\ quit6[1] = "destroy_diagram" /\ quit6[2] = "g_main_quit"
    BY DEF quit6, Statement
  <2>2. /\ quit2 \in Seq(Statement) /\ Len(quit2) = 6
        /\ quit2[1] = "destroy_window" /\ quit2[2] = "destroy_diagram"
        /\ quit2[3] = "g_main_quit" /\ quit2[4] = "window_gone"
        /\ quit2[5] = "destroy_diagram" /\ quit2[6] = "g_main_quit"
    BY DEF quit2, Statement
  <2> HIDE DEF inside
  <2> DEFINE s == inside \o quit6
  <2>3. /\ s \in Seq(Statement) /\ Len(s) = 6
        /\ \A k \in 1..6 : s[k] = IF k <= 4 THEN inside[k] ELSE quit6[k - 4]
    <3>1. /\ s \in Seq(Statement) /\ Len(s) = Len(inside) + Len(quit6)
          /\ \A k \in 1..(Len(inside) + Len(quit6)) :
                s[k] = IF k <= Len(inside) THEN inside[k] ELSE quit6[k - Len(inside)]
      BY <1>1, <2>1, ConcatProperties
    <3>2. QED
      BY <1>1, <2>1, <3>1
  <2> HIDE DEF s
  <2>4. /\ s[1] = inside[1] /\ s[2] = inside[2] /\ s[3] = inside[3]
        /\ s[4] = inside[4] /\ s[5] = quit6[1] /\ s[6] = quit6[2]
    BY <2>3
  <2>5. \A k \in 1..6 : k = 1 \/ k = 2 \/ k = 3 \/ k = 4 \/ k = 5 \/ k = 6
    OBVIOUS
  <2>6. \A k \in 1..Len(s) : s[k] = quit2[k]
    BY <1>1, <2>1, <2>2, <2>3, <2>4, <2>5
  <2>7. s = quit2
    BY <2>2, <2>3, <2>6, SeqEqual
  <2>8. QED
    BY <2>7 DEF s
<1>7. QED
  BY <1>5, <1>6, OtherStatements

(* In every stage but the first two the statements, the window and the     *)
(* diagram are as the types say.                                           *)
LEMMA OpenWhileAlive ==
    ASSUME Stages
    PROVE  /\ code = <<>> /\ window = "alive" => diagram = "alive"
           /\ code # <<>> => main = "looping"
           /\ code = <<>> /\ window # "alive" /\ main = "looping" => ~is_running
BY CodeIsNotEmpty DEF Stages, Open, Quits, Closes, Closed, stage

LEMMA LoopStart == Init => LoopInv
<1> SUFFICES ASSUME Init PROVE LoopInv
  OBVIOUS
<1>1. sources = <<>> /\ code = <<>> /\ gdk = <<>> /\ DOMAIN sources = {}
  BY DEF Init
<1>2. sources \in Seq(Source) /\ IsInjective(sources) /\ gdk \in Seq(Input)
      /\ code \in Seq(Statement) /\ Len(code) <= 6
  BY <1>1 DEF IsInjective
<1>3. /\ queued \in [Channel -> BOOLEAN] /\ hangup \in [Channel -> BOOLEAN]
      /\ inputs \in 0..MaxInput
  BY InputAssumption DEF Init
<1>4. TypeOK
  <2>1. /\ main = "starting" /\ process = "running" /\ pending = {}
        /\ is_running = FALSE /\ reading = "none" /\ asked = "none"
        /\ window = "none" /\ diagram = "none" /\ stray = FALSE
    BY DEF Init
  <2>2. QED
    BY <1>2, <1>3, <2>1 DEF TypeOK
<1>5. GdkIsLast /\ NothingRunsEarly /\ GdkEndsIteration
  BY <1>1 DEF Init, GdkIsLast, NothingRunsEarly, GdkEndsIteration
<1>6. Stages
  BY DEF Init, Stages, Open, stage
<1>7. QED
  BY <1>4, <1>5, <1>6 DEF LoopInv
-----------------------------------------------------------------------------
(* Start-up. *)
LEMMA ControlTracingKeeps ==
    ASSUME LoopInv, control_tracing
    PROVE  LoopInv'
<1>1. /\ main = "starting" /\ main' = "tracing" /\ sources' \in watches
      /\ UNCHANGED <<process, pending, is_running, queued, hangup, reading, gdk,
                     inputs, asked, code, window, diagram, stray>>
      /\ pending = {} /\ reading = "none" /\ code = <<>>
  BY DEF LoopInv, NothingRunsEarly, control_tracing, kernel, user, widgets
<1>2. ASSUME NEW s \in watches
      PROVE  /\ s \in Seq(Source) /\ IsInjective(s)
             /\ \A k \in DOMAIN s : s[k] # "gdk"
  <2>1. CASE s = <<>>
    BY <2>1 DEF IsInjective
  <2>2. CASE s = <<"monitor">>
    BY <2>2 DEF IsInjective, Source, Channel
  <2>3. CASE s = <<"control">>
    BY <2>3 DEF IsInjective, Source, Channel
  <2>4. CASE s = <<"monitor", "control">>
    BY <2>4 DEF IsInjective, Source, Channel
  <2>5. QED
    BY <2>1, <2>2, <2>3, <2>4 DEF watches
<1>3. /\ sources' \in Seq(Source) /\ IsInjective(sources')
      /\ \A k \in DOMAIN sources' : sources'[k] # "gdk"
  BY <1>1, <1>2
<1>4. TypeOK'
  BY <1>1, <1>3 DEF LoopInv, TypeOK
<1>5. GdkIsLast' /\ NothingRunsEarly' /\ GdkEndsIteration'
  BY <1>1, <1>3 DEF GdkIsLast, NothingRunsEarly, GdkEndsIteration
<1>6. Stages'
  BY <1>1 DEF LoopInv, Stages, Open, Quits, Closes, Closed, stage
<1>7. QED
  BY <1>4, <1>5, <1>6 DEF LoopInv

LEMMA UIInitKeeps ==
    ASSUME LoopInv, UI_init
    PROVE  LoopInv'
<1>1. /\ main = "tracing" /\ sources \in Seq(Source) /\ IsInjective(sources)
      /\ UNCHANGED <<process, pending, is_running, queued, hangup, reading, gdk,
                     inputs, asked, code, stray>>
      /\ pending = {} /\ reading = "none" /\ code = <<>>
      /\ window = "none" /\ diagram = "none" /\ ~stray
      /\ \A k \in DOMAIN sources : sources[k] # "gdk"
  BY DEF LoopInv, TypeOK, NothingRunsEarly, GdkIsLast, Stages, Open, Quits, Closes,
     Closed, stage, UI_init, kernel, user
<1>2. CASE /\ main' = "ready" /\ sources' = attach("gdk")
           /\ window' = "alive" /\ diagram' = "alive"
  <2>1. /\ sources' \in Seq(Source) /\ Len(sources') = Len(sources) + 1
        /\ \A k \in 1..Len(sources) : sources'[k] = sources[k]
        /\ sources'[Len(sources) + 1] = "gdk"
    BY <1>1, <1>2, AppendProperties DEF attach, Source
  <2>2. DOMAIN sources' = 1..(Len(sources) + 1) /\ DOMAIN sources = 1..Len(sources)
        /\ Len(sources) \in Nat
    BY <1>1, <2>1, LenProperties
  <2>3. IsInjective(sources')
    <3>1. \A k \in DOMAIN sources' : k = Len(sources) + 1 \/ k \in DOMAIN sources
      BY <2>2
    <3>2. \A k \in DOMAIN sources : sources'[k] = sources[k] /\ sources[k] # "gdk"
      BY <1>1, <2>1, <2>2
    <3>3. QED
      BY <1>1, <2>1, <3>1, <3>2 DEF IsInjective
  <2>4. \A k \in DOMAIN sources' : sources'[k] = "gdk" => k = Len(sources')
    BY <1>1, <2>1, <2>2
  <2>5. TypeOK'
    BY <1>1, <1>2, <2>1, <2>3 DEF LoopInv, TypeOK
  <2>6. GdkIsLast' /\ NothingRunsEarly' /\ GdkEndsIteration'
    BY <1>1, <1>2, <2>4 DEF GdkIsLast, NothingRunsEarly, GdkEndsIteration
  <2>7. Stages'
    BY <1>1, <1>2 DEF Stages, Open, stage
  <2>8. QED
    BY <2>5, <2>6, <2>7 DEF LoopInv
<1>3. CASE main' = "exited" /\ UNCHANGED <<sources, window, diagram>>
  <2>1. TypeOK'
    BY <1>1, <1>3 DEF LoopInv, TypeOK
  <2>2. GdkIsLast' /\ NothingRunsEarly' /\ GdkEndsIteration'
    BY <1>1, <1>3 DEF GdkIsLast, NothingRunsEarly, GdkEndsIteration
  <2>3. Stages'
    BY <1>1, <1>3 DEF Stages, Open, stage
  <2>4. QED
    BY <2>1, <2>2, <2>3 DEF LoopInv
<1>4. QED
  BY <1>2, <1>3 DEF UI_init

LEMMA RunKeeps ==
    ASSUME LoopInv, g_main_loop_run
    PROVE  LoopInv'
<1>1. /\ main = "ready" /\ main' = "looping" /\ is_running' = TRUE
      /\ UNCHANGED <<process, sources, pending, queued, hangup, reading, gdk,
                     inputs, asked, code, window, diagram, stray>>
  BY DEF g_main_loop_run, kernel, user, widgets
<1>2. TypeOK'
  BY <1>1 DEF LoopInv, TypeOK
<1>3. GdkIsLast' /\ NothingRunsEarly' /\ GdkEndsIteration'
  BY <1>1 DEF LoopInv, GdkIsLast, NothingRunsEarly, GdkEndsIteration
<1>4. Stages'
  BY <1>1 DEF LoopInv, Stages, Open, Quits, Closes, Closed, stage
<1>5. QED
  BY <1>2, <1>3, <1>4 DEF LoopInv

-----------------------------------------------------------------------------
(* The world around the program, and the iterations. *)
LEMMA WorldKeeps ==
    ASSUME LoopInv,
           \/ \E c \in Channel : Arrive(c) \/ HangUp(c)
           \/ \E i \in Input : UserActs(i)
    PROVE  LoopInv'
<1>1. /\ UNCHANGED <<main, process, sources, pending, is_running, reading, asked,
                     code, window, diagram, stray>>
  BY DEF Arrive, HangUp, UserActs, kernel, user, widgets, loop
<1>2. /\ queued' \in [Channel -> BOOLEAN] /\ hangup' \in [Channel -> BOOLEAN]
      /\ gdk' \in Seq(Input) /\ inputs' \in 0..MaxInput
      /\ gdk # <<>> => gdk' # <<>>
  <2>1. /\ queued \in [Channel -> BOOLEAN] /\ hangup \in [Channel -> BOOLEAN]
        /\ gdk \in Seq(Input) /\ inputs \in 0..MaxInput
    BY DEF LoopInv, TypeOK
  <2>2. CASE \E c \in Channel : Arrive(c)
    BY <2>1, <2>2 DEF Arrive, user
  <2>3. CASE \E c \in Channel : HangUp(c)
    BY <2>1, <2>3 DEF HangUp, user
  <2>4. CASE \E i \in Input : UserActs(i)
    <3>1. PICK i \in Input : UserActs(i)
      BY <2>4
    <3>2. /\ gdk' = Append(gdk, i) /\ inputs < MaxInput /\ inputs' = inputs + 1
          /\ queued' = queued /\ hangup' = hangup
      BY <3>1 DEF UserActs, kernel
    <3>3. gdk' \in Seq(Input) /\ gdk' # <<>>
      BY <2>1, <3>2, AppendProperties
    <3>4. inputs' \in 0..MaxInput
      BY <2>1, <3>2, InputAssumption
    <3>5. QED
      BY <2>1, <3>2, <3>3, <3>4
  <2>5. QED
    BY <2>2, <2>3, <2>4
<1>3. TypeOK'
  BY <1>1, <1>2 DEF LoopInv, TypeOK
<1>4. GdkIsLast' /\ NothingRunsEarly' /\ GdkEndsIteration'
  BY <1>1, <1>2 DEF LoopInv, GdkIsLast, NothingRunsEarly, GdkEndsIteration
<1>5. Stages'
  BY <1>1, StagesStay DEF LoopInv
<1>6. QED
  BY <1>3, <1>4, <1>5 DEF LoopInv

LEMMA IterateKeeps ==
    ASSUME LoopInv, Iterate
    PROVE  LoopInv'
<1>1. /\ main = "looping" /\ reading = "none" /\ code = <<>> /\ is_running
      /\ pending' = collected
      /\ UNCHANGED <<main, process, sources, is_running, queued, hangup, reading,
                     gdk, inputs, asked, code, window, diagram, stray>>
  BY DEF Iterate, free, kernel, user, widgets
<1>2. window = "alive"
  BY <1>1, OpenWhileAlive DEF LoopInv
<1>3. collected \subseteq ToSet(sources) /\ ("gdk" \in collected => gdk # <<>>)
  BY DEF collected, ready
<1>4. TypeOK'
  BY <1>1, <1>3 DEF LoopInv, TypeOK
<1>5. GdkIsLast' /\ NothingRunsEarly' /\ GdkEndsIteration'
  BY <1>1, <1>2, <1>3 DEF LoopInv, GdkIsLast, NothingRunsEarly, GdkEndsIteration
<1>6. Stages'
  BY <1>1, StagesStay DEF LoopInv
<1>7. QED
  BY <1>4, <1>5, <1>6 DEF LoopInv

LEMMA ReturnKeeps ==
    ASSUME LoopInv, Return
    PROVE  LoopInv'
<1>1. /\ main = "looping" /\ main' = "returned" /\ code = <<>>
      /\ UNCHANGED <<process, sources, pending, is_running, queued, hangup, reading,
                     gdk, inputs, asked, code, window, diagram, stray>>
  BY DEF Return, free, loop, kernel, user, widgets
<1>2. TypeOK'
  BY <1>1 DEF LoopInv, TypeOK
<1>3. GdkIsLast' /\ NothingRunsEarly' /\ GdkEndsIteration'
  BY <1>1 DEF LoopInv, GdkIsLast, NothingRunsEarly, GdkEndsIteration
<1>4. Stages'
  BY <1>1, CodeIsNotEmpty DEF LoopInv, Stages, Open, Quits, Closes, Closed, stage
<1>5. QED
  BY <1>2, <1>3, <1>4 DEF LoopInv
-----------------------------------------------------------------------------
(* Callbacks. *)

(* When the window system's turn comes, it is the only source left.        *)
LEMMA GdkIsAlone ==
    ASSUME LoopInv, dispatch("gdk")
    PROVE  pending' = {}
<1>1. PICK k \in DOMAIN sources : sources[k] = "gdk" /\ is_next(k)
  BY DEF dispatch
<1>2. sources \in Seq(Source) /\ pending \subseteq ToSet(sources) /\ k = Len(sources)
  BY <1>1 DEF LoopInv, TypeOK, GdkIsLast
<1>3. DOMAIN sources = 1..Len(sources) /\ Len(sources) \in Nat
  BY <1>2, LenProperties
<1>4. ASSUME NEW s \in pending
      PROVE  s = "gdk"
  <2>1. PICK l \in DOMAIN sources : sources[l] = s
    BY <1>2 DEF ToSet
  <2>2. l = k \/ l \in 1..(k - 1)
    BY <1>2, <1>3
  <2>3. QED
    BY <1>1, <2>1, <2>2 DEF is_next
<1>5. QED
  BY <1>4 DEF dispatch

LEMMA DispatchIsAlive ==
    ASSUME LoopInv, NEW s, dispatch(s)
    PROVE  /\ main = "looping" /\ process = "running" /\ reading = "none"
           /\ code = <<>> /\ s \in pending /\ window = "alive" /\ diagram = "alive"
           /\ pending' = pending \ {s}
<1>1. /\ main = "looping" /\ process = "running" /\ reading = "none" /\ code = <<>>
      /\ s \in pending /\ pending' = pending \ {s}
  BY DEF dispatch, free, is_next
<1>2. window = "alive"
  BY <1>1 DEF LoopInv, GdkEndsIteration
<1>3. QED
  BY <1>1, <1>2, OpenWhileAlive DEF LoopInv

LEMMA RemoveWatchKeeps ==
    ASSUME LoopInv, NEW c \in Channel, RemoveWatch(c)
    PROVE  LoopInv'
<1>1. /\ UNCHANGED <<main, process, is_running, queued, hangup, reading, gdk, inputs,
                     asked, code, window, diagram, stray>>
      /\ dispatch(c)
  BY DEF RemoveWatch, kernel, user, widgets
<1>2. /\ main = "looping" /\ reading = "none" /\ code = <<>> /\ window = "alive"
      /\ pending' = pending \ {c}
  BY <1>1, DispatchIsAlive
<1>3. PICK k \in DOMAIN sources : sources[k] = c /\ sources' = RemoveAt(sources, k)
  BY DEF RemoveWatch
<1>4. /\ sources \in Seq(Source) /\ IsInjective(sources)
      /\ pending \subseteq ToSet(sources)
      /\ \A l \in DOMAIN sources : sources[l] = "gdk" => l = Len(sources)
  BY DEF LoopInv, TypeOK, GdkIsLast
<1> DEFINE n == Len(sources)
<1>5. n \in Nat /\ DOMAIN sources = 1..n /\ k \in 1..n
  BY <1>4, LenProperties
<1>6. /\ sources' \in Seq(Source) /\ Len(sources') = n - 1
      /\ \A l \in 1..(n - 1) : sources'[l] = IF l < k THEN sources[l] ELSE sources[l + 1]
  BY <1>3, <1>4, RemovalKeepsOrder
<1> HIDE DEF n
<1>7. DOMAIN sources' = 1..(n - 1)
  BY <1>6, LenProperties
<1>8. IsInjective(sources')
  <2>1. SUFFICES ASSUME NEW x \in 1..(n - 1), NEW y \in 1..(n - 1), sources'[x] = sources'[y]
                 PROVE  x = y
    BY <1>7 DEF IsInjective
  <2> DEFINE up(z) == IF z < k THEN z ELSE z + 1
  <2>2. up(x) \in DOMAIN sources /\ up(y) \in DOMAIN sources
    BY <1>5
  <2>3. sources'[x] = sources[up(x)] /\ sources'[y] = sources[up(y)]
    BY <1>6
  <2>4. up(x) = up(y)
    <3> HIDE DEF up
    <3>1. QED
      BY <1>4, <2>1, <2>2, <2>3 DEF IsInjective
  <2>5. QED
    BY <1>5, <2>4
<1>9. ASSUME NEW l \in DOMAIN sources', sources'[l] = "gdk"
      PROVE  l = Len(sources')
  <2>1. CASE l < k
    <3>1. l \in DOMAIN sources /\ sources[l] = "gdk" /\ l # n
      BY <1>5, <1>6, <1>7, <1>9, <2>1
    <3>2. QED
      BY <1>4, <3>1 DEF n
  <2>2. CASE ~(l < k)
    <3>1. l + 1 \in DOMAIN sources /\ sources[l + 1] = "gdk"
      BY <1>5, <1>6, <1>7, <1>9, <2>2
    <3>2. l + 1 = n
      BY <1>4, <3>1 DEF n
    <3>3. QED
      BY <1>5, <1>6, <1>7, <3>2
  <2>3. QED
    BY <2>1, <2>2
<1>10. pending' \subseteq ToSet(sources')
  <2>1. SUFFICES ASSUME NEW s \in pending, s # c
                 PROVE  \E l \in 1..(n - 1) : sources'[l] = s
    BY <1>2, <1>7 DEF ToSet
  <2>2. PICK l \in DOMAIN sources : sources[l] = s
    BY <1>4 DEF ToSet
  <2>3. l # k
    BY <1>3, <2>1, <2>2
  <2>4. CASE l < k
    <3>1. l \in 1..(n - 1)
      BY <1>5, <2>4
    <3>2. sources'[l] = s
      BY <1>6, <2>2, <2>4, <3>1
    <3>3. QED
      BY <3>1, <3>2
  <2>5. CASE ~(l < k)
    <3>1. l - 1 \in 1..(n - 1) /\ ~(l - 1 < k) /\ (l - 1) + 1 = l
      BY <1>5, <2>3, <2>5
    <3>2. sources'[l - 1] = s
      BY <1>6, <2>2, <3>1
    <3>3. QED
      BY <3>1, <3>2
  <2>6. QED
    BY <2>4, <2>5
<1>11. TypeOK'
  BY <1>1, <1>6, <1>8, <1>10 DEF LoopInv, TypeOK
<1>12. GdkIsLast' /\ NothingRunsEarly' /\ GdkEndsIteration'
  BY <1>1, <1>2, <1>9 DEF LoopInv, GdkIsLast, NothingRunsEarly, GdkEndsIteration
<1>13. Stages'
  BY <1>1, StagesStay DEF LoopInv
<1>14. QED
  BY <1>11, <1>12, <1>13 DEF LoopInv

LEMMA DataCallbackKeeps ==
    ASSUME LoopInv, NEW c \in Channel, data_callback(c)
    PROVE  LoopInv'
<1>1. /\ UNCHANGED <<main, process, sources, is_running, queued, hangup, gdk, inputs,
                     asked, code, window, diagram, stray>>
      /\ dispatch(c) /\ reading' = c
  BY DEF data_callback, kernel, user, widgets
<1>2. /\ main = "looping" /\ code = <<>> /\ window = "alive"
      /\ pending' = pending \ {c}
  BY <1>1, DispatchIsAlive
<1>3. TypeOK'
  BY <1>1, <1>2 DEF LoopInv, TypeOK
<1>4. GdkIsLast' /\ NothingRunsEarly' /\ GdkEndsIteration'
  BY <1>1, <1>2 DEF LoopInv, GdkIsLast, NothingRunsEarly, GdkEndsIteration
<1>5. Stages'
  BY <1>1, StagesStay DEF LoopInv
<1>6. QED
  BY <1>3, <1>4, <1>5 DEF LoopInv

LEMMA ReadingKeeps ==
    ASSUME LoopInv, NEW c \in Channel, Receive(c) \/ EndReading(c)
    PROVE  LoopInv'
<1>1. /\ UNCHANGED <<main, sources, pending, is_running, hangup, gdk, inputs, asked,
                     code, window, diagram, stray>>
      /\ reading' \in {reading, "none"} /\ process' \in {"running", "crashed"}
  BY DEF Receive, EndReading, loop, user, widgets
<1>2. queued' \in [Channel -> BOOLEAN]
  BY DEF LoopInv, TypeOK, Receive, EndReading
<1>3. TypeOK'
  BY <1>1, <1>2 DEF LoopInv, TypeOK
<1>4. GdkIsLast' /\ NothingRunsEarly' /\ GdkEndsIteration'
  BY <1>1 DEF LoopInv, GdkIsLast, NothingRunsEarly, GdkEndsIteration
<1>5. Stages'
  BY <1>1, StagesStay DEF LoopInv
<1>6. QED
  BY <1>3, <1>4, <1>5 DEF LoopInv
-----------------------------------------------------------------------------
(* Quitting. *)
LEMMA GdkEventDispatchKeeps ==
    ASSUME LoopInv, gdk_event_dispatch
    PROVE  LoopInv'
<1>1. /\ UNCHANGED <<main, process, sources, is_running, queued, hangup, reading, inputs,
                     window, diagram, stray>>
      /\ dispatch("gdk")
      /\ gdk' = Tail(gdk) /\ asked' = Head(gdk)
  BY DEF gdk_event_dispatch, kernel, widgets
<1>2. /\ main = "looping" /\ reading = "none" /\ code = <<>> /\ window = "alive"
      /\ diagram = "alive" /\ pending' = {} /\ "gdk" \in pending
  BY <1>1, DispatchIsAlive, GdkIsAlone
<1>3. /\ gdk \in Seq(Input) /\ gdk # <<>>
  BY <1>2 DEF LoopInv, TypeOK, GdkEndsIteration
<1>4. gdk' \in Seq(Input) /\ asked' \in Input
  BY <1>1, <1>3, HeadTailProperties
<1>5. ~stray
  BY <1>2 DEF LoopInv, Stages, Open, Quits, Closes, Closed, stage
<1>6. \/ code' = <<>>
      \/ asked' = "quit" /\ code' = on_destroy_event
      \/ code' = delete_event
  <2>1. CASE Head(gdk) = "click"
    BY <1>2, <2>1 DEF gdk_event_dispatch
  <2>2. CASE Head(gdk) = "quit"
    BY <1>1, <1>2, <2>2 DEF gdk_event_dispatch
  <2>3. CASE Head(gdk) = "close"
    BY <1>2, <2>3 DEF gdk_event_dispatch
  <2>4. QED
    BY <1>1, <1>4, <2>1, <2>2, <2>3 DEF Input
<1>7. code' \in Seq(Statement) /\ Len(code') <= 6
  <2>1. /\ <<>> \in Seq(Statement) /\ Len(<<>>) <= 6
    OBVIOUS
  <2>2. on_destroy_event \in Seq(Statement) /\ Len(on_destroy_event) <= 6
    BY DEF on_destroy_event, Statement
  <2>3. delete_event \in Seq(Statement) /\ Len(delete_event) <= 6
    BY DEF delete_event, Statement
  <2>4. QED
    BY <1>6, <2>1, <2>2, <2>3
<1>8. TypeOK'
  BY <1>1, <1>2, <1>4, <1>7 DEF LoopInv, TypeOK
<1>9. GdkIsLast' /\ NothingRunsEarly' /\ GdkEndsIteration'
  BY <1>1, <1>2 DEF LoopInv, GdkIsLast, NothingRunsEarly, GdkEndsIteration
<1>10. Stages'
  <2>1. CASE code' = <<>>
    BY <1>1, <1>2, <1>5, <2>1 DEF Stages, Open, stage
  <2>2. CASE asked' = "quit" /\ code' = on_destroy_event
    BY <1>1, <1>2, <1>5, <2>2 DEF Stages, Quits, stage, quit1
  <2>3. CASE code' = delete_event
    BY <1>1, <1>2, <1>5, <2>3 DEF Stages, Closes, stage, close1
  <2>4. QED
    BY <1>6, <2>1, <2>2, <2>3
<1>11. QED
  BY <1>8, <1>9, <1>10 DEF LoopInv
(* A statement of the window's end runs: what every such step has in       *)
(* common.                                                                 *)
LEMMA StatementKeeps ==
    ASSUME LoopInv, code # <<>>, Stages',
           code' \in Codes \cup {<<>>},
           process' \in {"running", "crashed"},
           stray' \in BOOLEAN, is_running' \in BOOLEAN,
           window' \in {"alive", "in_destruction", "gone"},
           diagram' \in {"alive", "gone"},
           UNCHANGED <<main, sources, pending, queued, hangup, reading, gdk, inputs, asked>>
    PROVE  LoopInv'
<1>1. code' \in Seq(Statement) /\ Len(code') <= 6
  <2>1. <<>> \in Seq(Statement) /\ Len(<<>>) <= 6
    OBVIOUS
  <2>2. QED
    BY <2>1, CodesAreShort
<1>2. /\ main = "looping" /\ pending = {} /\ reading = "none"
  BY OpenWhileAlive DEF LoopInv, GdkEndsIteration
<1>3. TypeOK'
  BY <1>1 DEF LoopInv, TypeOK
<1>4. GdkIsLast' /\ NothingRunsEarly' /\ GdkEndsIteration'
  BY <1>2 DEF LoopInv, GdkIsLast, NothingRunsEarly, GdkEndsIteration
<1>5. QED
  BY <1>3, <1>4 DEF LoopInv

LEMMA DestroyWindowKeeps ==
    ASSUME LoopInv, DestroyWindow
    PROVE  LoopInv'
<1>1. /\ code # <<>> /\ Head(code) = "destroy_window" /\ process = "running"
      /\ UNCHANGED <<main, process, sources, pending, is_running, queued, hangup,
                     reading, gdk, inputs, asked, diagram, stray>>
      /\ is_running \in BOOLEAN /\ stray \in BOOLEAN /\ Stages
  BY DEF DestroyWindow, runs, LoopInv, TypeOK, loop, kernel, user
<1>2. \/ /\ window = "alive" /\ window' = "in_destruction"
         /\ code' = on_destroy_event \o <<"window_gone">> \o Tail(code)
      \/ /\ window = "in_destruction" /\ window' = "in_destruction"
         /\ code' = Tail(code)
  BY DEF DestroyWindow
<1>3. \/ /\ main = "looping" /\ asked = "quit" /\ ~stray /\ diagram = "alive"
         /\ \/ code = quit1 /\ window = "alive"
            \/ code = quit2 /\ window = "in_destruction"
      \/ /\ main = "looping" /\ ~stray /\ diagram = "alive"
         /\ \/ code = close1 /\ window = "alive"
            \/ code = close2 /\ window = "in_destruction"
  BY <1>1, FirstStatement DEF Stages, Open, Quits, Closes, Closed, stage
<1>4. \/ /\ main = "looping" /\ asked = "quit" /\ ~stray /\ diagram = "alive"
         /\ window' = "in_destruction" /\ code' \in {quit2, quit3}
      \/ /\ main = "looping" /\ ~stray /\ diagram = "alive"
         /\ window' = "in_destruction" /\ code' \in {close2, close3}
  BY <1>2, <1>3, OtherStatements, HandlerInside
<1>5. Stages'
  BY <1>1, <1>4 DEF Stages, Quits, Closes, stage
<1>6. QED
  BY <1>1, <1>4, <1>5, StatementKeeps DEF Codes

LEMMA WindowGoneKeeps ==
    ASSUME LoopInv, WindowGone
    PROVE  LoopInv'
<1>1. /\ code # <<>> /\ Head(code) = "window_gone" /\ process = "running"
      /\ window' = "gone" /\ diagram' = "gone" /\ code' = Tail(code)
      /\ UNCHANGED <<main, process, sources, pending, is_running, queued, hangup,
                     reading, gdk, inputs, asked, stray>>
      /\ is_running \in BOOLEAN /\ stray \in BOOLEAN /\ Stages
  BY DEF WindowGone, runs, LoopInv, TypeOK, loop, kernel, user
<1>2. \/ /\ main = "looping" /\ asked = "quit" /\ ~stray /\ ~is_running /\ code = quit5
      \/ /\ main = "looping" /\ ~stray /\ ~is_running /\ code = close5
  BY <1>1, FirstStatement DEF Stages, Open, Quits, Closes, Closed, stage
<1>3. \/ /\ main = "looping" /\ asked = "quit" /\ ~is_running /\ code' = quit6
      \/ /\ main = "looping" /\ ~stray /\ ~is_running /\ code' = <<>>
  BY <1>1, <1>2, OtherStatements
<1>4. Stages'
  BY <1>1, <1>3 DEF Stages, Quits, Closed, stage
<1>5. QED
  BY <1>1, <1>3, <1>4, StatementKeeps DEF Codes

LEMMA DestroyDiagramKeeps ==
    ASSUME LoopInv, DestroyDiagram
    PROVE  LoopInv'
<1>1. /\ code # <<>> /\ Head(code) = "destroy_diagram"
      /\ code' = Tail(code) /\ diagram' = "gone" /\ stray' = (stray \/ diagram = "gone")
      /\ process' \in {"running", "crashed"}
      /\ UNCHANGED <<main, sources, pending, is_running, queued, hangup, reading, gdk,
                     inputs, asked, window>>
      /\ is_running \in BOOLEAN /\ stray \in BOOLEAN /\ Stages
  BY DEF DestroyDiagram, runs, LoopInv, TypeOK, loop, kernel, user
<1>2. \/ /\ main = "looping" /\ asked = "quit"
         /\ \/ code = quit3 /\ window = "in_destruction" /\ diagram = "alive" /\ ~stray
            \/ code = quit6 /\ window = "gone" /\ diagram = "gone" /\ ~is_running
      \/ /\ main = "looping" /\ ~stray
         /\ code = close3 /\ window = "in_destruction" /\ diagram = "alive"
  BY <1>1, FirstStatement DEF Stages, Open, Quits, Closes, Closed, stage
<1>3. stray' \in BOOLEAN
  BY <1>1
<1>4. \/ /\ main = "looping" /\ asked = "quit"
         /\ \/ code' = quit4 /\ window = "in_destruction" /\ ~stray'
            \/ code' = quit7 /\ window = "gone" /\ ~is_running
      \/ /\ main = "looping" /\ ~stray'
         /\ code' = close4 /\ window = "in_destruction"
  BY <1>1, <1>2, OtherStatements
<1>5. Stages'
  BY <1>1, <1>4 DEF Stages, Quits, Closes, stage
<1>6. window' \in {"alive", "in_destruction", "gone"} /\ code' \in Codes
  BY <1>1, <1>4 DEF Codes
<1>7. QED
  BY <1>1, <1>3, <1>5, <1>6, StatementKeeps

LEMMA MainQuitKeeps ==
    ASSUME LoopInv, g_main_quit
    PROVE  LoopInv'
<1>1. /\ code # <<>> /\ Head(code) = "g_main_quit" /\ process = "running"
      /\ code' = Tail(code) /\ is_running' = FALSE
      /\ UNCHANGED <<main, process, sources, pending, queued, hangup, reading, gdk,
                     inputs, asked, window, diagram, stray>>
      /\ stray \in BOOLEAN /\ Stages
  BY DEF g_main_quit, runs, LoopInv, TypeOK, kernel, user, widgets
<1>2. \/ /\ main = "looping" /\ asked = "quit" /\ diagram = "gone"
         /\ \/ code = quit4 /\ window = "in_destruction" /\ ~stray
            \/ code = quit7 /\ window = "gone"
      \/ /\ main = "looping" /\ ~stray /\ diagram = "gone"
         /\ code = close4 /\ window = "in_destruction"
  BY <1>1, FirstStatement DEF Stages, Open, Quits, Closes, Closed, stage
<1>3. \/ /\ main = "looping" /\ asked = "quit" /\ diagram = "gone"
         /\ \/ code' = quit5 /\ window = "in_destruction" /\ ~stray
            \/ code' = <<>> /\ window = "gone"
      \/ /\ main = "looping" /\ ~stray /\ diagram = "gone"
         /\ code' = close5 /\ window = "in_destruction"
  BY <1>1, <1>2, OtherStatements
<1>4. Stages'
  BY <1>1, <1>3 DEF Stages, Quits, Closes, Closed, stage
<1>5. /\ window' \in {"alive", "in_destruction", "gone"}
      /\ diagram' \in {"alive", "gone"} /\ code' \in Codes \cup {<<>>}
  BY <1>1, <1>3 DEF Codes
<1>6. QED
  BY <1>1, <1>4, <1>5, StatementKeeps

LEMMA LoopStep == LoopInv /\ [Next]_vars => LoopInv'
<1> SUFFICES ASSUME LoopInv, [Next]_vars PROVE LoopInv'
  OBVIOUS
<1>1. CASE UNCHANGED vars
  <2>1. UNCHANGED <<main, process, sources, pending, is_running, queued, hangup,
                    reading, gdk, inputs, asked, code, window, diagram, stray>>
    BY <1>1 DEF vars, loop, kernel, user, widgets
  <2>2. TypeOK'
    BY <2>1 DEF LoopInv, TypeOK
  <2>3. GdkIsLast' /\ NothingRunsEarly' /\ GdkEndsIteration'
    BY <2>1 DEF LoopInv, GdkIsLast, NothingRunsEarly, GdkEndsIteration
  <2>4. QED
    BY <2>1, <2>2, <2>3, StagesStay DEF LoopInv
<1>2. CASE Program
  <2>1. CASE StartUp
    BY <2>1, ControlTracingKeeps, UIInitKeeps, RunKeeps DEF StartUp
  <2>2. CASE Iterate \/ Return
    BY <2>2, IterateKeeps, ReturnKeeps
  <2>3. CASE \E c \in Channel : Callback(c)
    BY <2>3, RemoveWatchKeeps, DataCallbackKeeps, ReadingKeeps DEF Callback
  <2>4. CASE gdk_event_dispatch \/ Quitting
    BY <2>4, GdkEventDispatchKeeps, DestroyWindowKeeps, WindowGoneKeeps,
       DestroyDiagramKeeps, MainQuitKeeps DEF Quitting
  <2>5. QED
    BY <1>2, <2>1, <2>2, <2>3, <2>4 DEF Program
<1>3. CASE \/ \E c \in Channel : Arrive(c) \/ HangUp(c)
           \/ \E i \in Input : UserActs(i)
  BY <1>3, WorldKeeps
<1>4. QED
  BY <1>1, <1>2, <1>3 DEF Next

LEMMA LoopInvariant == Spec => []LoopInv
BY LoopStart, LoopStep, PTL DEF Spec

-----------------------------------------------------------------------------
(* Every variable of the main loop keeps its type; no call of the handler  *)
(* for the window's destruction nests deeper than two (main.c, UI.c).      *)
THEOREM MainLoopTypeCorrect == Spec => []TypeOK
<1>1. LoopInv => TypeOK
  BY DEF LoopInv
<1>2. QED
  BY <1>1, LoopInvariant, PTL

(* Whatever arrives and whatever the user does, data_callback draws only   *)
(* while the canvas lives.                                                 *)
THEOREM MainLoopDrawsOnLiveCanvas == Spec => []DrawsOnLiveCanvas
<1>1. LoopInv => DrawsOnLiveCanvas
  BY OpenWhileAlive DEF LoopInv, GdkEndsIteration, DrawsOnLiveCanvas
<1>2. QED
  BY <1>1, LoopInvariant, PTL

(* Only Quit ever destroys a diagram that is gone; the close button never  *)
(* does (on_destroy_event, UI.c).                                          *)
THEOREM MainLoopClosesCleanly == Spec => []ClosingIsClean
<1>1. LoopInv => ClosingIsClean
  BY DEF LoopInv, Stages, Open, Quits, Closes, Closed, ClosingIsClean
<1>2. QED
  BY <1>1, LoopInvariant, PTL
===============================================================================
