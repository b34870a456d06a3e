---------------------------- MODULE LoggerProofs ----------------------------
(***************************************************************************)
(* Proofs about Logger, for every size of the buffer, all lengths of       *)
(* names and messages, any number of tasks and any depth of nesting.       *)
(***************************************************************************)
EXTENDS Logger, SequenceTheorems, TLAPS

Cells == Characters \cup {Nul, Garbage}
Buffers == [Positions -> Cells]

-----------------------------------------------------------------------------
(* Texts                                                                   *)

\* The texts that are formatted are sequences of characters.
LEMMA TextsTyped ==
    /\ \A level \in Severities, module \in Modules :
          PrefixText(level, module) \in Seq(Characters)
    /\ \A fmt \in Formats : BodyText(fmt) \in Seq(Characters)
    /\ << >> \in Seq(Characters)
<1>1. ASSUME NEW level \in Severities, NEW module \in Modules
      PROVE  PrefixText(level, module) \in Seq(Characters)
  <2>1. LevelLength[level] \in Nat /\ module \in Nat
    BY TextAssumption DEF LevelLength, Severities
  <2>2. \A i \in 1 .. LevelLength[level] + module + 5 :
            <<"prefix", level, module, i>> \in Characters
    BY <2>1 DEF Characters
  <2>3. LevelLength[level] + module + 5 \in Nat
    BY <2>1
  <2>4. QED
    BY <2>2, <2>3 DEF PrefixText
<1>2. ASSUME NEW fmt \in Formats
      PROVE  BodyText(fmt) \in Seq(Characters)
  <2>1. fmt \in Nat
    BY TextAssumption
  <2>2. \A i \in 1 .. fmt : <<"message", fmt, i>> \in Characters
    BY <2>1 DEF Characters
  <2>3. QED
    BY <2>1, <2>2 DEF BodyText
<1>3. QED
  BY <1>1, <1>2

\* How much of a text is kept: one less than the size of the buffer.
LEMMA CutLength ==
    ASSUME NEW text \in Seq(Characters)
    PROVE  /\ Cut(text) \in Seq(Characters)
           /\ Len(Cut(text)) = Fitting(0, text)
           /\ Fitting(0, text) \in Positions
           /\ \A i \in 1 .. Fitting(0, text) : Cut(text)[i] = text[i]
<1> DEFINE n == Fitting(0, text)
<1>1. /\ n \in Nat /\ n <= Len(text) /\ n \in Positions
      /\ n = IF Len(text) < LOGGER_MAX_MESSAGE_LENGTH
             THEN Len(text) ELSE LOGGER_MAX_MESSAGE_LENGTH - 1
  BY LengthAssumption, LenProperties DEF Fitting, Positions
<1>2. Cut(text) = [i \in 1 .. n |-> text[i]]
  BY <1>1, Zenon DEF Cut
<1> HIDE DEF n
<1>3. \A i \in 1 .. n : text[i] \in Characters
  BY <1>1, ElementOfSeq
<1>4. QED
  BY <1>1, <1>2, <1>3 DEF n

\* Cutting a text with a part put after it is putting as much of the part as
\* fits after the cut text.
LEMMA CutConcat ==
    ASSUME NEW p \in Seq(Characters), NEW b \in Seq(Characters)
    PROVE  LET at == Fitting(0, p)
           IN  /\ Len(Cut(p \o b)) = at + Fitting(at, b)
               /\ \A i \in 1 .. at : Cut(p \o b)[i] = p[i]
               /\ \A i \in 1 .. Fitting(at, b) : Cut(p \o b)[at + i] = b[i]
<1> DEFINE at == Fitting(0, p)
           n == Fitting(at, b)
           whole == p \o b
<1>1. Len(p) \in Nat /\ Len(b) \in Nat
  BY LenProperties
<1>2. /\ whole \in Seq(Characters) /\ Len(whole) = Len(p) + Len(b)
      /\ \A i \in 1 .. Len(p) + Len(b) : whole[i] = IF i <= Len(p) THEN p[i] ELSE b[i - Len(p)]
  BY ConcatProperties
<1> HIDE DEF whole
<1>3. /\ Len(Cut(whole)) = Fitting(0, whole)
      /\ \A i \in 1 .. Fitting(0, whole) : Cut(whole)[i] = whole[i]
  BY <1>2, CutLength
<1>4. at = IF Len(p) < LOGGER_MAX_MESSAGE_LENGTH THEN Len(p) ELSE LOGGER_MAX_MESSAGE_LENGTH - 1
  BY LengthAssumption DEF Fitting
<1>5. n = IF Len(b) < LOGGER_MAX_MESSAGE_LENGTH - at
          THEN Len(b) ELSE LOGGER_MAX_MESSAGE_LENGTH - at - 1
  BY DEF Fitting
<1> HIDE DEF at, n
<1>6. Fitting(0, whole) = at + n
  <2>1. Fitting(0, whole) = IF Len(whole) < LOGGER_MAX_MESSAGE_LENGTH - 0
                            THEN Len(whole) ELSE LOGGER_MAX_MESSAGE_LENGTH - 0 - 1
    BY Zenon DEF Fitting
  <2>2. CASE Len(p) + Len(b) < LOGGER_MAX_MESSAGE_LENGTH
    <3>1. at = Len(p) /\ n = Len(b)
      BY <1>1, <1>4, <1>5, <2>2, LengthAssumption
    <3>2. QED
      BY <1>1, <1>2, <2>1, <2>2, <3>1, LengthAssumption
  <2>3. CASE ~ (Len(p) + Len(b) < LOGGER_MAX_MESSAGE_LENGTH)
    <3>1. at + n = LOGGER_MAX_MESSAGE_LENGTH - 1
      <4>1. CASE Len(p) < LOGGER_MAX_MESSAGE_LENGTH
        <5>1. at = Len(p) /\ ~ (Len(b) < LOGGER_MAX_MESSAGE_LENGTH - at)
          BY <1>1, <1>4, <2>3, <4>1, LengthAssumption
        <5>2. n = LOGGER_MAX_MESSAGE_LENGTH - at - 1
          BY <1>5, <5>1
        <5>3. QED
          BY <1>1, <5>1, <5>2, LengthAssumption
      <4>2. CASE ~ (Len(p) < LOGGER_MAX_MESSAGE_LENGTH)
        <5>1. at = LOGGER_MAX_MESSAGE_LENGTH - 1
          BY <1>4, <4>2
        <5>2. n = 0
          BY <1>1, <1>5, <5>1, LengthAssumption
        <5>3. QED
          BY <5>1, <5>2, LengthAssumption
      <4>3. QED
        BY <4>1, <4>2
    <3>2. QED
      BY <1>1, <1>2, <2>1, <2>3, <3>1, LengthAssumption
  <2>4. QED
    BY <2>2, <2>3
<1>7. at \in Nat /\ n \in Nat /\ at <= Len(p) /\ n <= Len(b) /\ (n > 0 => at = Len(p))
  BY <1>1, <1>4, <1>5, LengthAssumption
<1>8. \A i \in 1 .. at : Cut(whole)[i] = p[i]
  <2>1. \A i \in 1 .. at : i \in 1 .. at + n /\ i \in 1 .. Len(p) + Len(b) /\ i <= Len(p)
    BY <1>1, <1>7
  <2>2. QED
    BY <1>2, <1>3, <1>6, <2>1
<1>9. \A i \in 1 .. n : Cut(whole)[at + i] = b[i]
  <2>1. \A i \in 1 .. n : /\ at + i \in 1 .. at + n /\ at + i \in 1 .. Len(p) + Len(b)
                          /\ ~ (at + i <= Len(p)) /\ at + i - Len(p) = i
    BY <1>1, <1>7
  <2>2. \A i \in 1 .. n : Cut(whole)[at + i] = whole[at + i]
    BY <1>3, <1>6, <2>1
  <2>3. \A i \in 1 .. n : whole[at + i] = b[i]
    <3>1. SUFFICES ASSUME NEW i \in 1 .. n PROVE whole[at + i] = b[i]
      OBVIOUS
    <3> DEFINE j == at + i
    <3>2. j \in 1 .. Len(p) + Len(b) /\ ~ (j <= Len(p)) /\ j - Len(p) = i
      BY <1>1, <1>7
    <3> HIDE DEF j
    <3>3. whole[j] = b[j - Len(p)]
      BY <1>2, <3>2, Zenon
    <3>4. whole[j] = b[i]
      BY <3>2, <3>3
    <3>5. QED
      BY <3>4 DEF j
  <2>4. QED
    BY <2>2, <2>3
<1>10. QED
  BY <1>3, <1>6, <1>8, <1>9 DEF at, n, whole

LEMMA TextsMember ==
    ASSUME NEW level, NEW module, NEW fmt,
           NEW p \in {PrefixText(level, module), << >>}, NEW b \in {BodyText(fmt), << >>}
    PROVE  Cut(p \o b) \in Texts(level, module, fmt)
<1> DEFINE With(prefix) == {Cut(prefix \o body) : body \in {BodyText(fmt), << >>}}
<1>1. Cut(p \o b) \in With(p)
  OBVIOUS
<1>2. Texts(level, module, fmt) = UNION {With(q) : q \in {PrefixText(level, module), << >>}}
  BY Zenon DEF Texts
<1> HIDE DEF With
<1>3. QED
  BY <1>1, <1>2

-----------------------------------------------------------------------------
(* Formatting                                                              *)

\* The first characters of a buffer are a text, and the terminator follows.
Holds(buffer, text) ==
    /\ buffer[Len(text)] = Nul
    /\ \A i \in 1 .. Len(text) : buffer[i - 1] = text[i]

\* Whatever snprintf answers, what loggerWrite counts as written is in the
\* buffer, with a terminator after it and what was before it untouched: as
\* much of the text as fits, or nothing.
LEMMA Formatting ==
    ASSUME NEW buffer \in Buffers, NEW at \in Positions, NEW text \in Seq(Characters),
           NEW out \in Printed(buffer, at, text)
    PROVE  LET new == Terminated(out, at)
               w == Written(out.result, LOGGER_MAX_MESSAGE_LENGTH - at)
           IN  /\ new \in Buffers
               /\ at + w \in Positions /\ w \in Nat
               /\ \A i \in Positions : i < at => new[i] = buffer[i]
               /\ new[at + w] = Nul
               /\ \E shown \in {text, << >>} :
                     /\ w = Fitting(at, shown)
                     /\ \A i \in 1 .. w : new[at + i - 1] = shown[i]
<1> DEFINE new == Terminated(out, at)
           w == Written(out.result, LOGGER_MAX_MESSAGE_LENGTH - at)
           n == Fitting(at, text)
<1>1. Len(text) \in Nat /\ LOGGER_MAX_MESSAGE_LENGTH \in Nat /\ at \in Nat
      /\ at < LOGGER_MAX_MESSAGE_LENGTH
  BY LengthAssumption, LenProperties DEF Positions
<1>2. n \in Nat /\ n <= Len(text) /\ at + n \in Positions
      /\ n = IF Len(text) < LOGGER_MAX_MESSAGE_LENGTH - at
             THEN Len(text) ELSE LOGGER_MAX_MESSAGE_LENGTH - at - 1
  BY <1>1 DEF Fitting, Positions
<1>3. \A i \in 1 .. n : text[i] \in Characters
  BY <1>1, <1>2, ElementOfSeq
<1>4. ASSUME NEW k \in Nat, k <= n
      PROVE  /\ Put(buffer, at, text, k) \in Buffers
             /\ \A i \in Positions : i < at => Put(buffer, at, text, k)[i] = buffer[i]
             /\ \A i \in 1 .. k : Put(buffer, at, text, k)[at + i - 1] = text[i]
  <2>1. ASSUME NEW i \in Positions, i >= at, i < at + k
        PROVE  i - at + 1 \in 1 .. n
    BY <1>1, <1>2, <1>4, <2>1 DEF Positions
  <2>2. Put(buffer, at, text, k) \in Buffers
    BY <1>3, <2>1 DEF Put, Buffers, Cells
  <2>3. \A i \in Positions : i < at => Put(buffer, at, text, k)[i] = buffer[i]
    BY <1>1 DEF Put, Positions
  <2>4. ASSUME NEW i \in 1 .. k
        PROVE  Put(buffer, at, text, k)[at + i - 1] = text[i]
    <3> DEFINE j == at + i - 1
    <3>1. j \in Positions /\ j >= at /\ j < at + k /\ j - at + 1 = i
      BY <1>1, <1>2, <1>4 DEF Positions
    <3> HIDE DEF j
    <3>2. Put(buffer, at, text, k)[j] = text[j - at + 1]
      BY <3>1 DEF Put
    <3>3. Put(buffer, at, text, k)[j] = text[i]
      BY <3>1, <3>2
    <3>4. QED
      BY <3>3 DEF j
  <2>5. QED
    BY <2>2, <2>3, <2>4
<1>5. CASE out = [buffer |-> [Put(buffer, at, text, n) EXCEPT ![at + n] = Nul],
                  result |-> Len(text)]
  <2>1. new = [Put(buffer, at, text, n) EXCEPT ![at + n] = Nul]
    BY <1>1, <1>5 DEF Terminated
  <2>2. w = n
    BY <1>1, <1>2, <1>5 DEF Written
  <2> HIDE DEF new, w, n
  <2>3. /\ Put(buffer, at, text, n) \in Buffers
        /\ \A i \in Positions : i < at => Put(buffer, at, text, n)[i] = buffer[i]
        /\ \A i \in 1 .. n : Put(buffer, at, text, n)[at + i - 1] = text[i]
    BY <1>2, <1>4
  <2>4. new \in Buffers /\ new[at + n] = Nul
        /\ \A i \in Positions : i # at + n => new[i] = Put(buffer, at, text, n)[i]
    BY <1>2, <2>1, <2>3 DEF Buffers, Cells
  <2>5. \A i \in Positions : i < at => new[i] = buffer[i]
    <3>1. \A i \in Positions : i < at => i # at + n
      BY <1>1, <1>2 DEF Positions
    <3>2. QED
      BY <2>3, <2>4, <3>1
  <2>6. \A i \in 1 .. n : new[at + i - 1] = text[i]
    <3>1. \A i \in 1 .. n : at + i - 1 \in Positions /\ at + i - 1 # at + n
      BY <1>1, <1>2 DEF Positions
    <3>2. QED
      BY <2>3, <2>4, <3>1
  <2>7. QED
    BY <1>2, <2>2, <2>4, <2>5, <2>6 DEF n, new, w
<1>6. CASE \E k \in Failures : /\ k <= n
                               /\ out = [buffer |-> Put(buffer, at, text, k), result |-> -1]
  <2>1. PICK k \in Nat : k <= n /\ out = [buffer |-> Put(buffer, at, text, k), result |-> -1]
    BY <1>6, CallAssumption
  <2>2. new = [Put(buffer, at, text, k) EXCEPT ![at] = Nul] /\ w = 0
    BY <2>1 DEF Terminated, Written
  <2>3. /\ Put(buffer, at, text, k) \in Buffers
        /\ \A i \in Positions : i < at => Put(buffer, at, text, k)[i] = buffer[i]
    BY <1>4, <2>1
  <2> HIDE DEF new, w
  <2>4. /\ new \in Buffers /\ new[at] = Nul
        /\ \A i \in Positions : i # at => new[i] = Put(buffer, at, text, k)[i]
    BY <2>2, <2>3 DEF Buffers, Cells
  <2>5. \A i \in Positions : i < at => new[i] = buffer[i]
    BY <1>1, <2>3, <2>4 DEF Positions
  <2>6. Fitting(at, << >>) = 0
    BY <1>1 DEF Fitting
  <2>7. QED
    BY <1>1, <2>2, <2>4, <2>5, <2>6 DEF new, w
<1>7. QED
  BY <1>5, <1>6 DEF Printed

-----------------------------------------------------------------------------
(* The invariant: what the frames of calls in progress hold, and that what *)
(* a call has checked is still so when it calls the backend.               *)

Shape(f) ==
    /\ f.at # "none"
    /\ f.level \in Severities \cap Levels /\ f.module \in Modules /\ f.fmt \in Formats
    /\ f.at = "message" =>
          \E p \in {PrefixText(f.level, f.module), << >>} :
              /\ f.used = Fitting(0, p)
              /\ \A i \in 1 .. Fitting(0, p) : f.buffer[i - 1] = p[i]
    /\ f.at \in {"call", "backend"} =>
          \E text \in Texts(f.level, f.module, f.fmt) :
              f.totalLen = Len(text) /\ Holds(f.buffer, text)

CallInv ==
    \A t \in Tasks : \A d \in 1 .. depth[t] :
        /\ Shape(frame[t][d])
        /\ d < depth[t] => frame[t][d].at = "backend"
        /\ frame[t][d].at # "backend" => backend # NULL /\ frame[t][d].level <= runtimeThreshold

NoStaleContext == backend = NULL => backendContext = NULL

LoggerInv == TypeOK /\ NoStaleContext /\ CallInv

LEMMA NoFrameTyped == NoFrame \in Frames
BY LengthAssumption DEF NoFrame, Frames, Positions

LEMMA LoggerInvInit == Init => LoggerInv
<1> SUFFICES ASSUME Init PROVE LoggerInv
  OBVIOUS
<1>1. TypeOK
  BY NoFrameTyped, BoundAssumption DEF Init, TypeOK, Thresholds, Calls, Statuses
<1>2. NoStaleContext /\ CallInv
  BY DEF Init, NoStaleContext, CallInv
<1>3. QED
  BY <1>1, <1>2 DEF LoggerInv

\* What a task that is in loggerWrite has for a frame.
LEMMA TopFrame ==
    ASSUME LoggerInv, NEW t \in Tasks, depth[t] > 0
    PROVE  /\ depth[t] \in Depths /\ Top(t) \in Frames /\ Shape(Top(t))
           /\ Top(t).at # "backend" => backend # NULL /\ Top(t).level <= runtimeThreshold
<1>1. depth[t] \in 0 .. MaxDepth
  BY DEF LoggerInv, TypeOK
<1>2. depth[t] \in Depths /\ depth[t] \in 1 .. depth[t]
  BY <1>1, BoundAssumption DEF Depths
<1>3. Top(t) \in Frames
  BY <1>2 DEF LoggerInv, TypeOK, Top
<1>4. QED
  BY <1>2, <1>3 DEF LoggerInv, CallInv, Top

\* The next step of a call in progress keeps the invariant.
LEMMA TopChanged ==
    ASSUME LoggerInv, NEW t \in Tasks, NEW new \in Frames,
           depth[t] > 0, Top(t).at # "backend",
           SetTop(t, new), Shape(new), new.level = Top(t).level,
           UNCHANGED <<logger, depth, answer>>
    PROVE  LoggerInv'
<1>1. /\ depth[t] \in Depths /\ backend # NULL /\ new.level <= runtimeThreshold
      /\ frame \in [Tasks -> [Depths -> Frames]] /\ depth \in [Tasks -> 0 .. MaxDepth]
  BY TopFrame DEF LoggerInv, TypeOK
<1>2. /\ frame' \in [Tasks -> [Depths -> Frames]]
      /\ frame'[t][depth[t]] = new
      /\ \A u \in Tasks : \A d \in Depths :
            (u # t \/ d # depth[t]) => frame'[u][d] = frame[u][d]
  BY <1>1 DEF SetTop
<1>3. TypeOK' /\ NoStaleContext'
  BY <1>2 DEF LoggerInv, TypeOK, NoStaleContext, logger
<1>4. CallInv'
  <2>1. SUFFICES ASSUME NEW u \in Tasks, NEW d \in 1 .. depth[u]
                 PROVE  /\ Shape(frame'[u][d])
                        /\ d < depth[u] => frame'[u][d].at = "backend"
                        /\ frame'[u][d].at # "backend" =>
                              backend # NULL /\ frame'[u][d].level <= runtimeThreshold
    BY DEF CallInv, Shape, logger
  <2>2. d \in Depths
    BY <1>1, BoundAssumption DEF Depths
  <2>3. CASE u = t /\ d = depth[t]
    BY <1>1, <1>2, <2>3
  <2>4. CASE u # t \/ d # depth[t]
    <3>1. frame'[u][d] = frame[u][d]
      BY <1>2, <2>2, <2>4
    <3>2. QED
      BY <3>1 DEF LoggerInv, CallInv
  <2>5. QED
    BY <2>3, <2>4
<1>5. QED
  BY <1>3, <1>4 DEF LoggerInv

\* The fields of a frame.
LEMMA FrameFields ==
    ASSUME NEW f \in Frames
    PROVE  /\ f.buffer \in Buffers /\ f.used \in Positions /\ f.totalLen \in Positions
           /\ \A at \in {"message", "call", "backend"}, buffer \in Buffers, n \in Positions :
                 /\ [f EXCEPT !.at = at, !.buffer = buffer, !.used = n] \in Frames
                 /\ [f EXCEPT !.at = at, !.buffer = buffer, !.totalLen = n] \in Frames
           /\ \A function \in Backends \cup {NULL}, context \in Contexts \cup {NULL} :
                 [f EXCEPT !.at = "backend", !.to = function, !.context = context] \in Frames
           /\ \A n \in 0 .. 4, module \in Modules, fmt \in Formats :
                 [f EXCEPT !.at = "prefix", !.level = n, !.module = module, !.fmt = fmt] \in Frames
<1>1. f.buffer \in Buffers /\ f.used \in Positions /\ f.totalLen \in Positions
  BY DEF Frames, Buffers, Cells
<1>2. \A at \in {"message", "call", "backend"}, buffer \in Buffers, n \in Positions :
         [f EXCEPT !.at = at, !.buffer = buffer, !.used = n] \in Frames
  BY DEF Frames, Buffers, Cells
<1>3. \A at \in {"message", "call", "backend"}, buffer \in Buffers, n \in Positions :
         [f EXCEPT !.at = at, !.buffer = buffer, !.totalLen = n] \in Frames
  BY DEF Frames, Buffers, Cells
<1>4. \A function \in Backends \cup {NULL}, context \in Contexts \cup {NULL} :
         [f EXCEPT !.at = "backend", !.to = function, !.context = context] \in Frames
  BY DEF Frames
<1>5. \A n \in 0 .. 4, module \in Modules, fmt \in Formats :
         [f EXCEPT !.at = "prefix", !.level = n, !.module = module, !.fmt = fmt] \in Frames
  BY DEF Frames
<1>6. QED
  BY <1>1, <1>2, <1>3, <1>4, <1>5

LEMMA FormatPrefixKeeps ==
    ASSUME LoggerInv, NEW t \in Tasks, FormatPrefix(t)
    PROVE  LoggerInv'
<1> DEFINE f == Top(t)
           text == PrefixText(f.level, f.module)
<1>1. /\ depth[t] > 0 /\ f.at = "prefix" /\ f \in Frames /\ Shape(f)
      /\ text \in Seq(Characters)
  BY TopFrame, TextsTyped DEF FormatPrefix, At, Shape
<1>2. PICK out \in Printed(f.buffer, 0, text) :
          SetTop(t, [f EXCEPT !.at = "message", !.buffer = Terminated(out, 0),
                              !.used = Written(out.result, LOGGER_MAX_MESSAGE_LENGTH)])
  BY DEF FormatPrefix
<1> DEFINE buffer == Terminated(out, 0)
           w == Written(out.result, LOGGER_MAX_MESSAGE_LENGTH)
           new == [f EXCEPT !.at = "message", !.buffer = buffer, !.used = w]
<1> HIDE DEF text, f
<1>3. f.buffer \in Buffers
  BY <1>1, FrameFields
<1>a. /\ 0 \in Positions
      /\ LOGGER_MAX_MESSAGE_LENGTH - 0 = LOGGER_MAX_MESSAGE_LENGTH
  BY LengthAssumption DEF Positions
<1>4. /\ buffer \in Buffers /\ 0 + w \in Positions /\ w \in Nat
      /\ \E shown \in {text, << >>} :
            /\ w = Fitting(0, shown)
            /\ \A i \in 1 .. w : buffer[0 + i - 1] = shown[i]
  <2>1. LET w2 == Written(out.result, LOGGER_MAX_MESSAGE_LENGTH - 0)
        IN  /\ buffer \in Buffers /\ 0 + w2 \in Positions /\ w2 \in Nat
            /\ \E shown \in {text, << >>} :
                  /\ w2 = Fitting(0, shown)
                  /\ \A i \in 1 .. w2 : buffer[0 + i - 1] = shown[i]
    BY <1>1, <1>2, <1>3, <1>a, Formatting, Zenon
  <2>2. QED
    BY <2>1, <1>a
<1> HIDE DEF buffer, w
<1>b. w \in Positions
  BY <1>4
<1>5. new \in Frames
  BY <1>1, <1>4, <1>b, FrameFields
<1>6. /\ new.at = "message" /\ new.buffer = buffer /\ new.used = w
      /\ new.level = f.level /\ new.module = f.module /\ new.fmt = f.fmt
  BY <1>1 DEF Frames
<1> HIDE DEF new
<1>7. Shape(new)
  <2>1. PICK shown \in {text, << >>} : /\ w = Fitting(0, shown)
                                       /\ \A i \in 1 .. w : buffer[0 + i - 1] = shown[i]
    BY <1>4
  <2>2. \A i \in 1 .. w : buffer[i - 1] = shown[i]
    <3>1. \A i \in 1 .. w : 0 + i - 1 = i - 1
      BY <1>4
    <3>2. QED
      BY <2>1, <3>1
  <2>3. QED
    BY <1>1, <1>6, <2>1, <2>2 DEF Shape, text
<1>8. SetTop(t, new) /\ UNCHANGED <<logger, depth, answer>>
  BY <1>2, Zenon DEF FormatPrefix, new, buffer, w
<1>9. QED
  BY <1>1, <1>5, <1>6, <1>7, <1>8, TopChanged DEF f

LEMMA FormatMessageKeeps ==
    ASSUME LoggerInv, NEW t \in Tasks, FormatMessage(t)
    PROVE  LoggerInv'
<1> DEFINE f == Top(t)
           body == BodyText(f.fmt)
           room == LOGGER_MAX_MESSAGE_LENGTH - f.used
<1>1. /\ depth[t] > 0 /\ f.at = "message" /\ f \in Frames /\ Shape(f)
      /\ body \in Seq(Characters)
  BY TopFrame, TextsTyped DEF FormatMessage, At, Shape
<1>2. PICK out \in Printed(f.buffer, f.used, body) :
          SetTop(t, [f EXCEPT !.at = "call", !.buffer = Terminated(out, f.used),
                              !.totalLen = f.used + Written(out.result, room)])
  BY DEF FormatMessage
<1> DEFINE buffer == Terminated(out, f.used)
           w == Written(out.result, room)
           new == [f EXCEPT !.at = "call", !.buffer = buffer, !.totalLen = f.used + w]
<1>3. f.used \in Positions /\ f.buffer \in Buffers
  BY <1>1, FrameFields
<1> HIDE DEF body
<1>4. /\ buffer \in Buffers /\ f.used + w \in Positions /\ w \in Nat
      /\ \A i \in Positions : i < f.used => buffer[i] = f.buffer[i]
      /\ buffer[f.used + w] = Nul
      /\ \E shown \in {body, << >>} :
            /\ w = Fitting(f.used, shown)
            /\ \A i \in 1 .. w : buffer[f.used + i - 1] = shown[i]
  BY <1>1, <1>2, <1>3, Formatting
<1>5. PICK p \in {PrefixText(f.level, f.module), << >>} :
          /\ f.used = Fitting(0, p)
          /\ \A i \in 1 .. Fitting(0, p) : f.buffer[i - 1] = p[i]
  BY <1>1 DEF Shape
<1>6. PICK shown \in {body, << >>} :
          /\ w = Fitting(f.used, shown)
          /\ \A i \in 1 .. w : buffer[f.used + i - 1] = shown[i]
  BY <1>4
<1>7. p \in Seq(Characters) /\ shown \in Seq(Characters)
  BY <1>1, <1>5, <1>6, TextsTyped DEF Shape
<1> DEFINE at == f.used
           text == Cut(p \o shown)
<1> HIDE DEF buffer, w, f
<1>8. new \in Frames
  BY <1>1, <1>4, FrameFields
<1>9. /\ new.at = "call" /\ new.buffer = buffer /\ new.totalLen = at + w
      /\ new.level = f.level /\ new.module = f.module /\ new.fmt = f.fmt
  BY <1>1 DEF Frames
<1>10. /\ Len(text) = at + w
       /\ \A i \in 1 .. at : text[i] = p[i]
       /\ \A i \in 1 .. w : text[at + i] = shown[i]
  BY <1>5, <1>6, <1>7, CutConcat
<1>11. /\ at \in Nat /\ at + w < LOGGER_MAX_MESSAGE_LENGTH /\ LOGGER_MAX_MESSAGE_LENGTH \in Nat
  BY <1>3, <1>4, LengthAssumption DEF Positions
<1>12. /\ buffer[at + w] = Nul
       /\ \A i \in Positions : i < at => buffer[i] = f.buffer[i]
       /\ \A i \in 1 .. w : buffer[at + i - 1] = shown[i]
       /\ \A i \in 1 .. at : f.buffer[i - 1] = p[i]
  BY <1>4, <1>5, <1>6
<1> HIDE DEF new, text, at
<1>13. \A i \in 1 .. at + w : buffer[i - 1] = text[i]
  <2>1. SUFFICES ASSUME NEW i \in 1 .. at + w PROVE buffer[i - 1] = text[i]
    OBVIOUS
  <2>2. CASE i <= at
    <3>1. i \in 1 .. at /\ i - 1 \in Positions /\ i - 1 < at
      BY <1>4, <1>11, <2>2 DEF Positions
    <3>2. QED
      BY <1>10, <1>12, <3>1
  <2>3. CASE i > at
    <3> DEFINE k == i - at
    <3>1. k \in 1 .. w /\ at + k = i /\ at + k - 1 = i - 1
      BY <1>4, <1>11, <2>3
    <3> HIDE DEF k
    <3>2. buffer[at + k - 1] = shown[k] /\ text[at + k] = shown[k]
      BY <1>10, <1>12, <3>1
    <3>3. QED
      BY <3>1, <3>2
  <2>4. QED
    BY <1>11, <2>2, <2>3
<1>14. text \in Texts(f.level, f.module, f.fmt)
  <2>1. p \in {PrefixText(f.level, f.module), << >>} /\ shown \in {BodyText(f.fmt), << >>}
    BY <1>5, <1>6 DEF body
  <2>2. QED
    BY <2>1, TextsMember, Zenon DEF text
<1>15. Holds(buffer, text)
  BY <1>10, <1>12, <1>13 DEF Holds
<1>16. Shape(new)
  BY <1>1, <1>9, <1>10, <1>14, <1>15 DEF Shape
<1>17. SetTop(t, new) /\ UNCHANGED <<logger, depth, answer>>
  BY <1>2 DEF FormatMessage, new, buffer, w, f
<1>18. QED
  BY <1>1, <1>8, <1>9, <1>16, <1>17, TopChanged DEF f

LEMMA CallBackendKeeps ==
    ASSUME LoggerInv, NEW t \in Tasks, CallBackend(t)
    PROVE  LoggerInv'
<1> DEFINE f == Top(t)
           new == [f EXCEPT !.at = "backend", !.to = backend, !.context = backendContext]
<1>1. depth[t] > 0 /\ f.at = "call" /\ f \in Frames /\ Shape(f)
  BY TopFrame DEF CallBackend, At
<1>2. SetTop(t, new) /\ UNCHANGED <<logger, depth, answer>>
  BY Zenon DEF CallBackend
<1> HIDE DEF f
<1>3. new \in Frames
  BY <1>1, FrameFields DEF LoggerInv, TypeOK
<1>4. /\ new.at = "backend" /\ new.buffer = f.buffer /\ new.totalLen = f.totalLen
      /\ new.level = f.level /\ new.module = f.module /\ new.fmt = f.fmt
  BY <1>1 DEF Frames
<1> HIDE DEF new
<1>5. Shape(new)
  BY <1>1, <1>4 DEF Shape
<1>6. QED
  BY <1>1, <1>2, <1>3, <1>4, <1>5, TopChanged DEF f

\* A call that has passed its checks.
LEMMA WriteBeginsKeeps ==
    ASSUME LoggerInv, NEW t \in Tasks, NEW level \in Levels,
           NEW module \in Modules \cup {NULL}, NEW fmt \in Formats \cup {NULL},
           WriteBegins(t, level, module, fmt)
    PROVE  LoggerInv'
<1> DEFINE new == [NoFrame EXCEPT !.at = "prefix", !.level = level,
                                  !.module = module, !.fmt = fmt]
           top == depth[t] + 1
<1>1. /\ level \in Severities /\ level <= runtimeThreshold
      /\ module \in Modules /\ fmt \in Formats /\ backend # NULL
  <2>1. Status(level, module, fmt) = "go on"
    BY DEF WriteBegins
  <2>2. level \in Severities /\ ~ (level > runtimeThreshold)
    BY <2>1 DEF Status
  <2>3. module # NULL /\ fmt # NULL /\ backend # NULL
    BY <2>1, <2>2 DEF Status
  <2>4. QED
    BY <2>2, <2>3 DEF LoggerInv, TypeOK, Severities, Thresholds
<1>2. /\ depth[t] \in Nat /\ top \in Depths
      /\ depth' = [depth EXCEPT ![t] = top]
      /\ frame' = [frame EXCEPT ![t][top] = new]
      /\ UNCHANGED <<logger, answer>>
  <2>1. depth[t] \in Nat /\ depth[t] < MaxDepth
    <3>1. depth[t] < MaxDepth
      BY DEF WriteBegins
    <3>2. QED
      BY <3>1, BoundAssumption DEF LoggerInv, TypeOK
  <2>2. top \in Depths
    BY <2>1, BoundAssumption DEF Depths
  <2>3. depth' = [depth EXCEPT ![t] = top] /\ UNCHANGED <<logger, answer>>
    BY DEF WriteBegins
  <2>4. frame' = [frame EXCEPT ![t][top] = new]
    BY Zenon DEF WriteBegins
  <2>5. QED
    BY <2>1, <2>2, <2>3, <2>4
<1>3. new \in Frames /\ Shape(new)
  <2>1. /\ new.at = "prefix" /\ new.level = level /\ new.module = module /\ new.fmt = fmt
    BY DEF NoFrame
  <2>2. new \in Frames
    <3>1. level \in 0 .. 4
      BY <1>1 DEF Severities
    <3>2. QED
      BY <1>1, <3>1, NoFrameTyped, FrameFields
  <2> HIDE DEF new
  <2>3. Shape(new)
    BY <1>1, <2>1 DEF Shape
  <2>4. QED
    BY <2>2, <2>3
<1>4. new.at = "prefix" /\ new.level = level
  BY DEF NoFrame
<1> HIDE DEF new, top
<1>5. /\ frame' \in [Tasks -> [Depths -> Frames]]
      /\ frame'[t][top] = new
      /\ \A u \in Tasks : \A d \in Depths :
            (u # t \/ d # top) => frame'[u][d] = frame[u][d]
  BY <1>2, <1>3 DEF LoggerInv, TypeOK
<1>6. TypeOK' /\ NoStaleContext'
  <2>1. top \in 0 .. MaxDepth
    BY <1>2 DEF Depths
  <2>2. QED
    BY <1>2, <1>5, <2>1 DEF LoggerInv, TypeOK, NoStaleContext, logger
<1>7. CallInv'
  <2>1. SUFFICES ASSUME NEW u \in Tasks, NEW d \in 1 .. depth'[u]
                 PROVE  /\ Shape(frame'[u][d])
                        /\ d < depth'[u] => frame'[u][d].at = "backend"
                        /\ frame'[u][d].at # "backend" =>
                              backend # NULL /\ frame'[u][d].level <= runtimeThreshold
    BY <1>2 DEF CallInv, Shape, logger
  <2>2. CASE u = t /\ d = top
    <3>1. depth'[u] = top /\ top \in Nat
      BY <1>2, <2>2 DEF LoggerInv, TypeOK, Depths
    <3>2. QED
      BY <1>1, <1>3, <1>4, <1>5, <2>2, <3>1
  <2>3. CASE u = t /\ d # top
    <3>1. depth'[t] = top /\ top = depth[t] + 1
      <4>1. depth'[t] = top
        BY <1>2 DEF LoggerInv, TypeOK
      <4>2. QED
        BY <4>1 DEF top
    <3>a. d \in 1 .. top
      BY <2>3, <3>1
    <3>b. d \in 1 .. depth[t]
      BY <1>2, <2>3, <3>1, <3>a
    <3>2. d \in 1 .. depth[t] /\ d \in Depths
      BY <1>2, <3>1, <3>b, BoundAssumption DEF Depths
    <3>3. frame'[t][d] = frame[t][d]
      BY <1>5, <2>3, <3>2
    <3>4. depth[t] > 0 /\ Top(t).at = "backend"
      <4>1. depth[t] > 0
        BY <1>2, <3>2
      <4>2. QED
        BY <4>1 DEF WriteBegins, Free
    <3>5. frame[t][d].at = "backend"
      BY <1>2, <3>2, <3>4 DEF LoggerInv, CallInv, Top
    <3>6. QED
      BY <2>3, <3>2, <3>3, <3>5 DEF LoggerInv, CallInv
  <2>4. CASE u # t
    <3>1. depth'[u] = depth[u]
      BY <1>2, <2>4 DEF LoggerInv, TypeOK
    <3>2. d \in Depths
      BY <3>1, BoundAssumption DEF LoggerInv, TypeOK, Depths
    <3>3. frame'[u][d] = frame[u][d]
      BY <1>5, <2>4, <3>2
    <3>4. QED
      BY <3>1, <3>3 DEF LoggerInv, CallInv
  <2>5. QED
    BY <2>2, <2>3, <2>4
<1>8. QED
  BY <1>6, <1>7 DEF LoggerInv

\* A backend that returns.
LEMMA BackendReturnsKeeps ==
    ASSUME LoggerInv, NEW t \in Tasks, BackendReturns(t)
    PROVE  LoggerInv'
<1> DEFINE top == depth[t]
<1>1. top > 0 /\ top \in Depths /\ Top(t).at = "backend" /\ Top(t).level \in Int
  BY TopFrame DEF BackendReturns, At, Shape, Severities
<1>2. /\ depth' = [depth EXCEPT ![t] = top - 1]
      /\ frame' = [frame EXCEPT ![t][top] = NoFrame]
      /\ UNCHANGED logger
  BY DEF BackendReturns, SetTop
<1>3. answer' \in [call : Calls, level : Int, status : Statuses]
  BY <1>1 DEF BackendReturns, Answer, Calls, Statuses
<1> HIDE DEF top
<1>4. /\ frame' \in [Tasks -> [Depths -> Frames]]
      /\ \A u \in Tasks : \A d \in Depths :
            (u # t \/ d # top) => frame'[u][d] = frame[u][d]
  BY <1>1, <1>2, NoFrameTyped DEF LoggerInv, TypeOK
<1>5. top - 1 \in 0 .. MaxDepth /\ top \in Nat
  BY <1>1, BoundAssumption DEF Depths
<1>6. TypeOK' /\ NoStaleContext'
  BY <1>2, <1>3, <1>4, <1>5 DEF LoggerInv, TypeOK, NoStaleContext, logger
<1>7. CallInv'
  <2>1. SUFFICES ASSUME NEW u \in Tasks, NEW d \in 1 .. depth'[u]
                 PROVE  /\ Shape(frame'[u][d])
                        /\ d < depth'[u] => frame'[u][d].at = "backend"
                        /\ frame'[u][d].at # "backend" =>
                              backend # NULL /\ frame'[u][d].level <= runtimeThreshold
    BY <1>2 DEF CallInv, Shape, logger
  <2>2. CASE u = t
    <3>1. depth'[t] = top - 1
      BY <1>2 DEF LoggerInv, TypeOK
    <3>2. d \in 1 .. top /\ d \in Depths /\ d < top /\ d # top
      BY <1>1, <1>5, <2>2, <3>1, BoundAssumption DEF Depths
    <3>3. frame'[t][d] = frame[t][d]
      BY <1>4, <3>2
    <3>4. QED
      BY <2>2, <3>2, <3>3 DEF LoggerInv, CallInv, top
  <2>3. CASE u # t
    <3>1. depth'[u] = depth[u]
      BY <1>2, <2>3 DEF LoggerInv, TypeOK
    <3>2. d \in Depths
      BY <3>1, BoundAssumption DEF LoggerInv, TypeOK, Depths
    <3>3. frame'[u][d] = frame[u][d]
      BY <1>4, <2>3, <3>2
    <3>4. QED
      BY <3>1, <3>3 DEF LoggerInv, CallInv
  <2>4. QED
    BY <2>2, <2>3
<1>8. QED
  BY <1>6, <1>7 DEF LoggerInv

\* When no call is between its checks and its backend, nothing of what a call
\* has checked can be lost.
LEMMA ConfigurationKeeps ==
    ASSUME LoggerInv, Synchronized, UNCHANGED <<depth, frame>>,
           TypeOK', NoStaleContext'
    PROVE  LoggerInv'
<1>1. ASSUME NEW t \in Tasks, NEW d \in 1 .. depth[t]
      PROVE  Shape(frame[t][d]) /\ frame[t][d].at = "backend"
  <2>1. depth[t] \in Nat
    BY BoundAssumption DEF LoggerInv, TypeOK
  <2>2. CASE d = depth[t]
    <3>1. frame[t][d].at = "backend"
      BY <2>1, <2>2 DEF Synchronized, Free, Top
    <3>2. QED
      BY <3>1 DEF LoggerInv, CallInv
  <2>3. CASE d # depth[t]
    <3>1. d < depth[t]
      BY <2>1, <2>3
    <3>2. QED
      BY <3>1 DEF LoggerInv, CallInv
  <2>4. QED
    BY <2>2, <2>3
<1>2. CallInv'
  BY <1>1 DEF CallInv, Shape
<1>3. QED
  BY <1>2 DEF LoggerInv

\* A call that changes nothing but the last answer.
LEMMA AnswerKeeps ==
    ASSUME LoggerInv, UNCHANGED <<logger, depth, frame>>,
           answer' \in [call : Calls, level : Int, status : Statuses]
    PROVE  LoggerInv'
BY DEF LoggerInv, TypeOK, NoStaleContext, CallInv, Shape, logger

LEMMA LoggerInvStep == LoggerInv /\ [Next]_vars => LoggerInv'
<1>1. ASSUME LoggerInv, UNCHANGED vars
      PROVE  LoggerInv'
  BY <1>1 DEF LoggerInv, TypeOK, NoStaleContext, CallInv, Shape, vars, logger
<1>2. ASSUME LoggerInv, NEW t \in Tasks, loggerClearBackend(t)
      PROVE  LoggerInv'
  <2>1. TypeOK' /\ NoStaleContext'
    BY <1>2 DEF LoggerInv, TypeOK, NoStaleContext, loggerClearBackend, Answer, Calls, Statuses
  <2>2. QED
    BY <1>2, <2>1, ConfigurationKeeps DEF loggerClearBackend
<1>3. ASSUME LoggerInv, NEW t \in Tasks, NEW level \in Levels, loggerInit(t, level)
      PROVE  LoggerInv'
  <2>1. TypeOK' /\ NoStaleContext'
    BY <1>3 DEF LoggerInv, TypeOK, NoStaleContext, loggerInit, Answer, Calls, Statuses
  <2>2. QED
    BY <1>3, <2>1, ConfigurationKeeps DEF loggerInit
<1>4. ASSUME LoggerInv, NEW t \in Tasks, NEW level \in Levels, loggerSetLevel(t, level)
      PROVE  LoggerInv'
  <2>1. TypeOK' /\ NoStaleContext'
    BY <1>4 DEF LoggerInv, TypeOK, NoStaleContext, loggerSetLevel, Answer, Calls, Statuses
  <2>2. QED
    BY <1>4, <2>1, ConfigurationKeeps DEF loggerSetLevel
<1>5. ASSUME LoggerInv, NEW t \in Tasks, NEW function \in Backends,
             NEW context \in Contexts \cup {NULL}, loggerSetBackend(t, function, context)
      PROVE  LoggerInv'
  <2>1. TypeOK'
    BY <1>5 DEF LoggerInv, TypeOK, loggerSetBackend, Answer, Calls, Statuses
  <2>2. NoStaleContext'
    BY <1>5, NullAssumption DEF NoStaleContext, loggerSetBackend
  <2>3. QED
    BY <1>5, <2>1, <2>2, ConfigurationKeeps DEF loggerSetBackend
<1>6. ASSUME LoggerInv, NEW t \in Tasks, loggerGetLevel(t)
      PROVE  LoggerInv'
  <2>1. runtimeThreshold \in Int
    BY <1>6 DEF LoggerInv, TypeOK, Thresholds
  <2>2. answer' \in [call : Calls, level : Int, status : Statuses]
    BY <1>6, <2>1 DEF loggerGetLevel, Answer, Calls, Statuses
  <2>3. QED
    BY <1>6, <2>2, AnswerKeeps DEF loggerGetLevel
<1>7. ASSUME LoggerInv, NEW t \in Tasks, NEW call \in Calls, RefuseNull(t, call)
      PROVE  LoggerInv'
  <2>1. answer' \in [call : Calls, level : Int, status : Statuses]
    BY <1>7 DEF RefuseNull, Answer, Statuses
  <2>2. QED
    BY <1>7, <2>1, AnswerKeeps DEF RefuseNull
<1>8. ASSUME LoggerInv, NEW t \in Tasks, NEW level \in Levels, RefuseLevel(t, level)
      PROVE  LoggerInv'
  <2>1. answer' \in [call : Calls, level : Int, status : Statuses]
    BY <1>8, CallAssumption DEF RefuseLevel, Answer, Calls, Statuses
  <2>2. QED
    BY <1>8, <2>1, AnswerKeeps DEF RefuseLevel
<1>9. ASSUME LoggerInv, NEW t \in Tasks, NEW level \in Levels,
             NEW module, NEW fmt, WriteReturns(t, level, module, fmt)
      PROVE  LoggerInv'
  <2>1. Status(level, module, fmt) \in Statuses
    BY <1>9 DEF WriteReturns, Status, Statuses
  <2>2. answer' \in [call : Calls, level : Int, status : Statuses]
    BY <1>9, <2>1, CallAssumption DEF WriteReturns, Answer, Calls
  <2>3. QED
    BY <1>9, <2>2, AnswerKeeps DEF WriteReturns
<1>10. QED
  BY <1>1, <1>2, <1>3, <1>4, <1>5, <1>6, <1>7, <1>8, <1>9, FormatPrefixKeeps,
     FormatMessageKeeps, CallBackendKeeps, WriteBeginsKeeps, BackendReturnsKeeps DEF Next

\* The invariant holds throughout.
THEOREM LoggerInvariant == Spec => []LoggerInv
BY LoggerInvInit, LoggerInvStep, PTL DEF Spec

\* For every size of the buffer, all lengths of module names and messages, and
\* however calls of loggerWrite interleave and nest, every write of both
\* formatting steps is inside the buffer, and the lengths they leave are too.
THEOREM TypeCorrect == Spec => []TypeOK
<1>1. LoggerInv => TypeOK
  BY DEF LoggerInv
<1>2. QED
  BY <1>1, LoggerInvariant, PTL

LEMMA TextsAreCharacters ==
    ASSUME NEW level \in Severities, NEW module \in Modules, NEW fmt \in Formats,
           NEW text \in Texts(level, module, fmt)
    PROVE  text \in Seq(Characters)
<1> DEFINE With(q) == {Cut(q \o body) : body \in {BodyText(fmt), << >>}}
<1>1. Texts(level, module, fmt) = UNION {With(q) : q \in {PrefixText(level, module), << >>}}
  BY Zenon DEF Texts
<1>2. PICK p \in {PrefixText(level, module), << >>} : text \in With(p)
  BY <1>1
<1>3. PICK b \in {BodyText(fmt), << >>} : text = Cut(p \o b)
  BY <1>2
<1>4. p \in Seq(Characters) /\ b \in Seq(Characters)
  BY TextsTyped
<1>5. p \o b \in Seq(Characters)
  BY <1>4, ConcatProperties
<1>6. QED
  BY <1>3, <1>5, CutLength

\* A backend's message is as long as it was told, nothing but characters, and
\* terminated, for every size of the buffer and every outcome of the two
\* formatting calls.
THEOREM MessageIsTerminated == Spec => []MessageTerminated
<1>1. LoggerInv => MessageTerminated
  <2>1. SUFFICES ASSUME LoggerInv, NEW t \in Tasks, NEW d \in 1 .. depth[t],
                        frame[t][d].at = "backend"
                 PROVE  /\ frame[t][d].buffer[frame[t][d].totalLen] = Nul
                        /\ \A i \in Positions : i < frame[t][d].totalLen =>
                              frame[t][d].buffer[i] \in Characters
    BY DEF MessageTerminated
  <2> DEFINE f == frame[t][d]
  <2>2. Shape(f)
    BY <2>1 DEF LoggerInv, CallInv
  <2> HIDE DEF f
  <2>3. f.at = "backend"
    BY <2>1 DEF f
  <2>4. PICK text \in Texts(f.level, f.module, f.fmt) :
            f.totalLen = Len(text) /\ Holds(f.buffer, text)
    BY <2>2, <2>3 DEF Shape
  <2>5. text \in Seq(Characters)
    BY <2>2, TextsAreCharacters DEF Shape
  <2>6. f.buffer[f.totalLen] = Nul
    BY <2>4 DEF Holds
  <2>7. ASSUME NEW i \in Positions, i < f.totalLen
        PROVE  f.buffer[i] \in Characters
    <3> DEFINE j == i + 1
    <3>1. j \in 1 .. Len(text) /\ j - 1 = i
      BY <2>4, <2>5, <2>7, LenProperties DEF Positions
    <3> HIDE DEF j
    <3>2. f.buffer[j - 1] = text[j] /\ text[j] \in Characters
      BY <2>4, <2>5, <3>1, ElementOfSeq DEF Holds
    <3>3. QED
      BY <3>1, <3>2
  <2>8. QED
    BY <2>6, <2>7 DEF f
<1>2. QED
  BY <1>1, LoggerInvariant, PTL

-----------------------------------------------------------------------------
(* The refinement.                                                         *)

Open == [t \in Tasks |-> [d \in 1 .. Delivered(t) |-> Reading(frame[t][d])]]

Readings == {Reading(f) : f \in Frames}

\* The promise's texts are the ones of the logger.
LEMMA SameTexts ==
    \A level, module, fmt : Service!Texts(level, module, fmt) = Texts(level, module, fmt)
BY Zenon DEF Service!Texts, Service!Cut, Service!PrefixText, Service!BodyText,
             Service!LevelLength, Texts, Cut, PrefixText, BodyText, LevelLength

LEMMA SameLevels == Service!Severities = Severities /\ Service!Thresholds = Thresholds
BY DEF Service!Severities, Severities, Service!Thresholds, Thresholds

\* What the backends of a task are reading.
LEMMA OpenTyped ==
    ASSUME LoggerInv, NEW t \in Tasks
    PROVE  /\ depth[t] \in Nat /\ Delivered(t) \in Nat /\ Delivered(t) \in {depth[t], depth[t] - 1}
           /\ Open[t] = [d \in 1 .. Delivered(t) |-> Reading(frame[t][d])]
           /\ Open[t] \in Seq(Readings) /\ Len(Open[t]) = Delivered(t)
<1>1. depth[t] \in Nat /\ depth[t] <= MaxDepth
  BY BoundAssumption DEF LoggerInv, TypeOK
<1>2. Delivered(t) \in Nat /\ Delivered(t) <= depth[t] /\ Delivered(t) \in {depth[t], depth[t] - 1}
  BY <1>1 DEF Delivered, Free
<1>3. Open[t] = [d \in 1 .. Delivered(t) |-> Reading(frame[t][d])]
  BY DEF Open
<1>4. ASSUME NEW d \in 1 .. Delivered(t) PROVE Reading(frame[t][d]) \in Readings
  <2>1. d \in Depths
    BY <1>1, <1>2, BoundAssumption DEF Depths
  <2>2. frame[t][d] \in Frames
    BY <2>1 DEF LoggerInv, TypeOK
  <2>3. QED
    BY <2>2 DEF Readings
<1>5. QED
  BY <1>1, <1>2, <1>3, <1>4

\* A step of one task leaves alone what the backends of the others read.
LEMMA OthersRead ==
    ASSUME NEW t \in Tasks, NEW u \in Tasks, u # t, LoggerInv,
           depth'[u] = depth[u], frame'[u] = frame[u]
    PROVE  Open'[u] = Open[u]
BY DEF Open, Delivered, Free, Top, Reading

LEMMA NothingReadChanges == UNCHANGED <<depth, frame>> => Open' = Open
BY DEF Open, Delivered, Free, Top, Reading

\* A step between the checks and the backend changes nothing that is read.
LEMMA InnerStep ==
    ASSUME LoggerInv, NEW t \in Tasks, NEW new,
           depth[t] > 0, Top(t).at # "backend", new.at # "backend",
           SetTop(t, new), UNCHANGED depth
    PROVE  Open' = Open
<1>1. /\ depth[t] \in Nat /\ depth[t] \in Depths
      /\ frame \in [Tasks -> [Depths -> Frames]]
  BY TopFrame, OpenTyped DEF LoggerInv, TypeOK
<1>2. /\ frame'[t][depth[t]] = new
      /\ \A d \in Depths : d # depth[t] => frame'[t][d] = frame[t][d]
      /\ \A u \in Tasks : u # t => frame'[u] = frame[u]
  BY <1>1 DEF SetTop
<1>3. Delivered(t) = depth[t] - 1 /\ Delivered(t)' = depth[t] - 1
  BY <1>1, <1>2 DEF Delivered, Free, Top
<1>4. Open'[t] = Open[t]
  <2>1. \A d \in 1 .. depth[t] - 1 : frame'[t][d] = frame[t][d]
    <3>1. \A d \in 1 .. depth[t] - 1 : d \in Depths /\ d # depth[t]
      BY <1>1, BoundAssumption DEF Depths
    <3>2. QED
      BY <1>2, <3>1
  <2>2. [d \in 1 .. depth[t] - 1 |-> Reading(frame'[t][d])]
         = [d \in 1 .. depth[t] - 1 |-> Reading(frame[t][d])]
    BY <2>1
  <2>3. QED
    BY <1>3, <2>2 DEF Open, Reading
<1>5. \A u \in Tasks : Open'[u] = Open[u]
  <2>1. ASSUME NEW u \in Tasks, u # t PROVE Open'[u] = Open[u]
    BY <1>2, <2>1, OthersRead
  <2>2. QED
    BY <1>4, <2>1
<1>6. QED
  BY <1>5 DEF Open

LEMMA FormattingDeliversNothing ==
    ASSUME LoggerInv, NEW t \in Tasks, FormatPrefix(t) \/ FormatMessage(t)
    PROVE  Open' = Open
<1>1. depth[t] > 0 /\ Top(t).at # "backend" /\ UNCHANGED depth /\ Top(t) \in Frames
  BY TopFrame DEF FormatPrefix, FormatMessage, At
<1>2. \E new : SetTop(t, new) /\ new.at # "backend"
  <2>1. CASE FormatPrefix(t)
    <3>1. PICK out : SetTop(t, [Top(t) EXCEPT
                        !.at = "message",
                        !.buffer = Terminated(out, 0),
                        !.used = Written(out.result, LOGGER_MAX_MESSAGE_LENGTH)])
      BY <2>1, Zenon DEF FormatPrefix
    <3> DEFINE buffer == Terminated(out, 0)
               n == Written(out.result, LOGGER_MAX_MESSAGE_LENGTH)
               new == [Top(t) EXCEPT !.at = "message", !.buffer = buffer, !.used = n]
    <3> HIDE DEF buffer, n
    <3>2. new.at = "message"
      BY <1>1 DEF Frames
    <3>3. SetTop(t, new)
      BY <3>1, Zenon DEF new, buffer, n
    <3> HIDE DEF new
    <3>4. QED
      BY <3>2, <3>3
  <2>2. CASE FormatMessage(t)
    <3>1. PICK out : SetTop(t, [Top(t) EXCEPT
                        !.at = "call",
                        !.buffer = Terminated(out, Top(t).used),
                        !.totalLen = Top(t).used
                             + Written(out.result, LOGGER_MAX_MESSAGE_LENGTH - Top(t).used)])
      BY <2>2, Zenon DEF FormatMessage
    <3> DEFINE buffer == Terminated(out, Top(t).used)
               n == Top(t).used + Written(out.result, LOGGER_MAX_MESSAGE_LENGTH - Top(t).used)
               new == [Top(t) EXCEPT !.at = "call", !.buffer = buffer, !.totalLen = n]
    <3> HIDE DEF buffer, n
    <3>2. new.at = "call"
      BY <1>1 DEF Frames
    <3>3. SetTop(t, new)
      BY <3>1, Zenon DEF new, buffer, n
    <3> HIDE DEF new
    <3>4. QED
      BY <3>2, <3>3
  <2>3. QED
    BY <2>1, <2>2
<1>3. QED
  BY <1>1, <1>2, InnerStep

LEMMA BeginningDeliversNothing ==
    ASSUME LoggerInv, NEW t \in Tasks, NEW level, NEW module, NEW fmt,
           WriteBegins(t, level, module, fmt)
    PROVE  Open' = Open
<1> DEFINE top == depth[t] + 1
           new == [NoFrame EXCEPT !.at = "prefix", !.level = level,
                                  !.module = module, !.fmt = fmt]
<1>1. /\ depth[t] \in Nat /\ depth[t] < MaxDepth /\ Free(t)
      /\ frame \in [Tasks -> [Depths -> Frames]] /\ depth \in [Tasks -> 0 .. MaxDepth]
  BY OpenTyped DEF LoggerInv, TypeOK, WriteBegins
<1>2. depth' = [depth EXCEPT ![t] = top]
  BY DEF WriteBegins
<1>3. frame' = [frame EXCEPT ![t][top] = new]
  BY Zenon DEF WriteBegins
<1>4. new.at = "prefix"
  BY DEF NoFrame
<1>5. top \in Depths
  BY <1>1, BoundAssumption DEF Depths
<1> HIDE DEF new
<1>6. /\ frame'[t][top] = new /\ depth'[t] = top
      /\ \A d \in Depths : d # top => frame'[t][d] = frame[t][d]
      /\ \A u \in Tasks : u # t => frame'[u] = frame[u] /\ depth'[u] = depth[u]
  BY <1>1, <1>2, <1>3, <1>5
<1>7. Delivered(t) = depth[t] /\ Delivered(t)' = depth[t]
  <2>1. ~ Free(t)'
    BY <1>1, <1>4, <1>6 DEF Free, Top
  <2>2. Delivered(t)' = top - 1
    BY <1>6, <2>1 DEF Delivered
  <2>3. QED
    BY <1>1, <2>2 DEF Delivered
<1>8. Open'[t] = Open[t]
  <2>1. \A d \in 1 .. depth[t] : frame'[t][d] = frame[t][d]
    <3>1. \A d \in 1 .. depth[t] : d \in Depths /\ d # top
      BY <1>1, BoundAssumption DEF Depths
    <3>2. QED
      BY <1>6, <3>1
  <2>2. [d \in 1 .. depth[t] |-> Reading(frame'[t][d])]
         = [d \in 1 .. depth[t] |-> Reading(frame[t][d])]
    BY <2>1
  <2>3. QED
    BY <1>7, <2>2 DEF Open, Reading
<1>9. \A u \in Tasks : Open'[u] = Open[u]
  <2>1. ASSUME NEW u \in Tasks, u # t PROVE Open'[u] = Open[u]
    BY <1>6, <2>1, OthersRead
  <2>2. QED
    BY <1>8, <2>1
<1>10. QED
  BY <1>9 DEF Open

\* The text a frame holds is one of its message's texts.
LEMMA ReadingText ==
    ASSUME NEW f \in Frames, Shape(f), f.at = "call"
    PROVE  [k \in 1 .. f.totalLen |-> f.buffer[k - 1]] \in Texts(f.level, f.module, f.fmt)
<1>1. PICK text \in Texts(f.level, f.module, f.fmt) :
          f.totalLen = Len(text) /\ Holds(f.buffer, text)
  BY DEF Shape
<1>2. text \in Seq(Characters)
  BY TextsAreCharacters DEF Shape
<1>3. text = [k \in 1 .. Len(text) |-> text[k]]
  BY <1>2
<1>4. \A k \in 1 .. Len(text) : f.buffer[k - 1] = text[k]
  BY <1>1 DEF Holds
<1>5. [k \in 1 .. f.totalLen |-> f.buffer[k - 1]] = text
  BY <1>1, <1>3, <1>4
<1>6. QED
  BY <1>5

\* The call of the backend delivers the message.
LEMMA CallDelivers ==
    ASSUME LoggerInv, LoggerInv', NEW t \in Tasks, CallBackend(t)
    PROVE  Service!Next
<1> DEFINE f == Top(t)
           k == depth[t] - 1
           new == [f EXCEPT !.at = "backend", !.to = backend, !.context = backendContext]
           read == [level |-> f.level, module |-> f.module, fmt |-> f.fmt,
                    to |-> backend, context |-> backendContext,
                    text |-> [i \in 1 .. f.totalLen |-> f.buffer[i - 1]]]
<1>1. /\ depth[t] > 0 /\ f.at = "call" /\ f \in Frames /\ Shape(f)
      /\ backend # NULL /\ f.level <= runtimeThreshold
  BY TopFrame DEF CallBackend, At
<1>2. SetTop(t, new) /\ UNCHANGED <<logger, depth, answer>>
  BY Zenon DEF CallBackend
<1>3. /\ depth[t] \in Nat /\ depth[t] \in Depths /\ k \in Nat /\ k + 1 = depth[t]
      /\ frame \in [Tasks -> [Depths -> Frames]]
  BY <1>1, TopFrame, OpenTyped DEF LoggerInv, TypeOK
<1>4. /\ frame'[t][depth[t]] = new
      /\ \A d \in Depths : d # depth[t] => frame'[t][d] = frame[t][d]
      /\ \A u \in Tasks : u # t => frame'[u] = frame[u]
  BY <1>2, <1>3 DEF SetTop
<1>5. new.at = "backend" /\ Reading(new) = read
  <2>1. /\ new.at = "backend" /\ new.level = f.level /\ new.to = backend
        /\ new.module = f.module /\ new.fmt = f.fmt
        /\ new.context = backendContext /\ new.totalLen = f.totalLen /\ new.buffer = f.buffer
    BY <1>1 DEF Frames
  <2> HIDE DEF new
  <2>2. QED
    BY <2>1 DEF Reading
<1>6. Delivered(t) = k /\ Delivered(t)' = k + 1
  BY <1>1, <1>2, <1>3, <1>4, <1>5 DEF Delivered, Free, Top
<1>7. read.text \in Texts(f.level, f.module, f.fmt)
  BY <1>1, ReadingText
<1> HIDE DEF new, read, f, k
<1>8. Open'[t] = Append(Open[t], read)
  <2>1. /\ Open[t] = [d \in 1 .. k |-> Reading(frame[t][d])]
        /\ Open[t] \in Seq(Readings) /\ Len(Open[t]) = k
    BY <1>6, OpenTyped
  <2>2. /\ Open'[t] = [d \in 1 .. k + 1 |-> Reading(frame'[t][d])]
        /\ Open'[t] \in Seq(Readings)
    <3>1. Open'[t] = [d \in 1 .. Delivered(t)' |-> Reading(frame'[t][d])]
      BY DEF Open, Reading
    <3>2. \A d \in 1 .. k + 1 : frame'[t][d] \in Frames
      BY <1>3, BoundAssumption DEF LoggerInv, TypeOK, Depths
    <3>3. \A d \in 1 .. k + 1 : Reading(frame'[t][d]) \in Readings
      BY <3>2 DEF Readings
    <3>4. QED
      BY <1>3, <1>6, <3>1, <3>3
  <2>3. \A d \in 1 .. k : Open'[t][d] = Open[t][d]
    <3>1. \A d \in 1 .. k : d \in Depths /\ d # depth[t] /\ d \in 1 .. k + 1
      BY <1>3, BoundAssumption DEF Depths
    <3>2. \A d \in 1 .. k : frame'[t][d] = frame[t][d]
      BY <1>4, <3>1
    <3>3. QED
      BY <2>1, <2>2, <3>1, <3>2
  <2>4. Open'[t][k + 1] = read
    BY <1>3, <1>4, <1>5, <2>2
  <2>5. read \in Readings
    BY <1>3, <2>2, <2>4, ElementOfSeq
  <2> DEFINE before == Open[t]
             after == Append(before, read)
  <2> HIDE DEF before
  <2>a. before \in Seq(Readings) /\ Len(before) = k
    BY <2>1 DEF before
  <2>b. /\ after \in Seq(Readings) /\ Len(after) = Len(before) + 1
        /\ \A d \in 1 .. Len(before) : after[d] = before[d]
        /\ after[Len(before) + 1] = read
    BY <2>a, <2>5, AppendProperties
  <2>6. /\ Append(Open[t], read) \in Seq(Readings) /\ Len(Append(Open[t], read)) = k + 1
        /\ \A d \in 1 .. k : Append(Open[t], read)[d] = Open[t][d]
        /\ Append(Open[t], read)[k + 1] = read
    BY <2>a, <2>b, Zenon DEF before
  <2>7. Len(Open'[t]) = k + 1
    BY <1>3, <2>2
  <2>8. \A d \in 1 .. k + 1 : Open'[t][d] = Append(Open[t], read)[d]
    BY <1>3, <2>3, <2>4, <2>6
  <2>9. QED
    BY <2>2, <2>6, <2>7, <2>8, SeqEqual
<1>9. Open' = [Open EXCEPT ![t] = Append(@, read)]
  <2>1. \A u \in Tasks : u # t => Open'[u] = Open[u]
    BY <1>2, <1>4, OthersRead
  <2>2. QED
    BY <1>8, <2>1 DEF Open
<1>10. Service!Deliver(t, f.level, f.module, f.fmt)
  <2>1. f.level \in Severities /\ f.module \in Modules /\ f.fmt \in Formats
    BY <1>1 DEF Shape
  <2>2. read = [level |-> f.level, module |-> f.module, fmt |-> f.fmt,
                to |-> backend, context |-> backendContext, text |-> read.text]
    BY DEF read
  <2>3. \E text \in Service!Texts(f.level, f.module, f.fmt) :
             Open' = [Open EXCEPT ![t] = Append(@,
                        [level |-> f.level, module |-> f.module, fmt |-> f.fmt,
                         to |-> backend, context |-> backendContext, text |-> text])]
    BY <1>7, <1>9, <2>1, <2>2, SameTexts, Zenon
  <2>4. QED
    BY <1>1, <1>2, <2>1, <2>3, SameLevels DEF Service!Deliver, Open, logger
<1>11. f.level \in Levels /\ f.module \in Modules /\ f.fmt \in Formats
  BY <1>1 DEF Shape
<1>12. QED
  BY <1>10, <1>11 DEF Service!Next

\* The backend's return finishes the innermost message.
LEMMA ReturnFinishes ==
    ASSUME LoggerInv, NEW t \in Tasks, BackendReturns(t)
    PROVE  Service!Next
<1> DEFINE top == depth[t]
           before == Open[t]
<1>1. /\ top > 0 /\ top \in Nat /\ top \in Depths /\ Top(t).at = "backend"
      /\ depth \in [Tasks -> 0 .. MaxDepth] /\ frame \in [Tasks -> [Depths -> Frames]]
  BY TopFrame, OpenTyped DEF BackendReturns, At, LoggerInv, TypeOK
<1>2. /\ depth' = [depth EXCEPT ![t] = top - 1]
      /\ frame' = [frame EXCEPT ![t][top] = NoFrame]
      /\ UNCHANGED logger
      /\ answer' = [call |-> "Write", level |-> Top(t).level, status |-> "SUCCESS"]
  BY DEF BackendReturns, SetTop, Answer
<1>3. Delivered(t) = top
  BY <1>1 DEF Delivered, Free
<1>4. /\ depth'[t] = top - 1
      /\ \A d \in Depths : d # top => frame'[t][d] = frame[t][d]
      /\ \A u \in Tasks : u # t => frame'[u] = frame[u] /\ depth'[u] = depth[u]
  BY <1>1, <1>2
<1>5. \A d \in 1 .. top - 1 : d \in Depths /\ d # top /\ d < top /\ d \in 1 .. top
  BY <1>1, BoundAssumption DEF Depths
<1>6. Delivered(t)' = top - 1
  <2>1. CASE top = 1
    BY <1>4, <2>1 DEF Delivered, Free
  <2>2. CASE top # 1
    <3>1. top - 1 \in 1 .. top - 1
      BY <1>1, <2>2
    <3>2. frame[t][top - 1].at = "backend"
      BY <1>5, <3>1 DEF LoggerInv, CallInv
    <3>3. frame'[t][top - 1].at = "backend"
      BY <1>4, <1>5, <3>1, <3>2
    <3>4. Free(t)'
      BY <1>4, <3>3 DEF Free, Top
    <3>5. QED
      BY <1>4, <3>4 DEF Delivered
  <2>3. QED
    BY <2>1, <2>2
<1>7. /\ before = [d \in 1 .. top |-> Reading(frame[t][d])]
      /\ before \in Seq(Readings) /\ Len(before) = top
  BY <1>3, OpenTyped
<1>8. Open'[t] = SubSeq(before, 1, Len(before) - 1)
  <2>1. Open'[t] = [d \in 1 .. top - 1 |-> Reading(frame'[t][d])]
    BY <1>6 DEF Open, Reading
  <2>2. \A d \in 1 .. top - 1 : Reading(frame'[t][d]) = before[d]
    BY <1>4, <1>5, <1>7
  <2>3. Open'[t] = [d \in 1 .. top - 1 |-> before[d]]
    BY <2>1, <2>2
  <2> HIDE DEF top, before
  <2>4. SubSeq(before, 1, top - 1) = [d \in 1 .. top - 1 |-> before[d]]
    BY <1>1, <1>7
  <2>5. QED
    BY <1>7, <2>3, <2>4
<1>9. Open' = [Open EXCEPT ![t] = SubSeq(@, 1, Len(@) - 1)]
  <2>1. \A u \in Tasks : u # t => Open'[u] = Open[u]
    BY <1>4, OthersRead
  <2>2. QED
    BY <1>8, <2>1 DEF Open
<1>10. Open[t] # << >> /\ Open[t][Len(Open[t])].level = Top(t).level
  <2>1. Len(before) > 0
    BY <1>1, <1>7
  <2>2. before[top] = Reading(frame[t][top])
    BY <1>1, <1>7
  <2>3. before[top].level = Top(t).level
    BY <2>2 DEF Reading, Top
  <2> HIDE DEF before
  <2>4. before # << >>
    BY <2>1
  <2>5. before[Len(before)].level = Top(t).level
    BY <1>7, <2>3
  <2>6. QED
    BY <2>4, <2>5, Zenon DEF before
<1>11. Service!Finish(t)
  BY <1>2, <1>9, <1>10, Zenon DEF Service!Finish, Service!Answer, Open, logger
<1>12. QED
  BY <1>11 DEF Service!Next

\* Configurations and calls without effect.
LEMMA ConfigurationConfigures ==
    ASSUME LoggerInv, LoggerInv', UNCHANGED <<depth, frame>>, Answer("Configure", 0, "SUCCESS")
    PROVE  Service!Next
<1>1. Open' = Open
  BY NothingReadChanges
<1>2. /\ backend' \in Backends \cup {NULL} /\ backendContext' \in Contexts \cup {NULL}
      /\ backend' = NULL => backendContext' = NULL
      /\ runtimeThreshold' \in Thresholds
  BY DEF LoggerInv, TypeOK, NoStaleContext
<1>3. Service!Configure
  BY <1>1, <1>2, SameLevels DEF Service!Configure, Service!Answer, Answer, Open
<1>4. QED
  BY <1>3 DEF Service!Next

LEMMA AnswersHaveNoEffect ==
    ASSUME LoggerInv, UNCHANGED <<logger, depth, frame>>,
           Service!Ask \/ \E level \in Levels : Service!Refuse(level) \/ Service!Drop(level)
    PROVE  Service!Next
<1>1. Open' = Open
  BY NothingReadChanges
<1>2. UNCHANGED <<backend, backendContext, runtimeThreshold>>
  BY DEF logger
<1>3. Service!NoEffect
  BY <1>1, <1>2 DEF Service!NoEffect, Open
<1>4. QED
  BY <1>3 DEF Service!Next

\* A call of loggerWrite that returns early is refused or dropped.
LEMMA ReturnsRefusesOrDrops ==
    ASSUME LoggerInv, NEW t \in Tasks, NEW level \in Levels, NEW module, NEW fmt,
           WriteReturns(t, level, module, fmt)
    PROVE  Service!Next
<1>1. /\ answer' = [call |-> "Write", level |-> level, status |-> Status(level, module, fmt)]
      /\ Status(level, module, fmt) # "go on"
      /\ UNCHANGED <<logger, depth, frame>>
  BY DEF WriteReturns, Answer
<1>2. level \in Int /\ runtimeThreshold \in Int
  BY CallAssumption DEF LoggerInv, TypeOK, Thresholds
<1>3. CASE Status(level, module, fmt) = "INVALID_LEVEL"
  <2>1. level \notin Severities
    BY <1>3 DEF Status
  <2>2. Service!Refuse(level)
    BY <1>1, <1>3, <2>1, SameLevels DEF Service!Refuse, Service!Answer
  <2>3. QED
    BY <1>1, <2>2, AnswersHaveNoEffect
<1>4. CASE Status(level, module, fmt) = "NULL_POINTER"
  <2>1. Service!Refuse(level)
    BY <1>1, <1>4 DEF Service!Refuse, Service!Answer
  <2>2. QED
    BY <1>1, <2>1, AnswersHaveNoEffect
<1>5. CASE Status(level, module, fmt) = "SUCCESS"
  <2>1. level \in Severities /\ level > runtimeThreshold
    BY <1>5 DEF Status
  <2>2. Service!Drop(level)
    BY <1>1, <1>5, <2>1, SameLevels DEF Service!Drop, Service!Answer
  <2>3. QED
    BY <1>1, <2>2, AnswersHaveNoEffect
<1>6. CASE Status(level, module, fmt) = "NO_BACKEND"
  <2>1. level \in Severities /\ ~ (level > runtimeThreshold) /\ backend = NULL
    BY <1>6 DEF Status
  <2>2. Service!Drop(level)
    BY <1>1, <1>6, <2>1, SameLevels DEF Service!Drop, Service!Answer
  <2>3. QED
    BY <1>1, <2>2, AnswersHaveNoEffect
<1>7. QED
  BY <1>1, <1>3, <1>4, <1>5, <1>6 DEF Status

\* Every step of the logger is a step of the promise, or none.
LEMMA StepRefines ==
    LoggerInv /\ LoggerInv' /\ [Next]_vars => [Service!Next]_(Service!vars)
<1> SUFFICES ASSUME LoggerInv, LoggerInv', [Next]_vars
             PROVE  [Service!Next]_(Service!vars)
  OBVIOUS
<1>1. ASSUME Open' = Open, UNCHANGED <<logger, answer>>
      PROVE  UNCHANGED Service!vars
  BY <1>1 DEF Service!vars, Open, logger
<1>2. CASE UNCHANGED vars
  <2>1. UNCHANGED <<logger, answer>> /\ UNCHANGED <<depth, frame>>
    BY <1>2 DEF vars
  <2>2. QED
    BY <1>1, <2>1, NothingReadChanges
<1>3. ASSUME NEW t \in Tasks, FormatPrefix(t) \/ FormatMessage(t)
      PROVE  UNCHANGED Service!vars
  <2>1. UNCHANGED <<logger, answer>>
    BY <1>3 DEF FormatPrefix, FormatMessage
  <2>2. QED
    BY <1>1, <1>3, <2>1, FormattingDeliversNothing
<1>4. ASSUME NEW t \in Tasks, CallBackend(t)
      PROVE  Service!Next
  BY <1>4, CallDelivers
<1>5. ASSUME NEW t \in Tasks, BackendReturns(t)
      PROVE  Service!Next
  BY <1>5, ReturnFinishes
<1>6. ASSUME NEW t \in Tasks, loggerClearBackend(t)
      PROVE  Service!Next
  BY <1>6, ConfigurationConfigures DEF loggerClearBackend
<1>7. ASSUME NEW t \in Tasks, loggerGetLevel(t)
      PROVE  Service!Next
  BY <1>7, AnswersHaveNoEffect DEF loggerGetLevel, Answer, Service!Ask, Service!Answer
<1>8. ASSUME NEW t \in Tasks, NEW call \in Calls, RefuseNull(t, call)
      PROVE  Service!Next
  <2>1. PICK level \in Levels : TRUE
    BY CallAssumption
  <2>2. Service!Refuse(level)
    BY <1>8 DEF RefuseNull, Answer, Calls, Service!Refuse, Service!Answer
  <2>3. QED
    BY <1>8, <2>2, AnswersHaveNoEffect DEF RefuseNull
<1>9. ASSUME NEW t \in Tasks, NEW level \in Levels, loggerInit(t, level)
      PROVE  Service!Next
  BY <1>9, ConfigurationConfigures DEF loggerInit
<1>10. ASSUME NEW t \in Tasks, NEW level \in Levels, loggerSetLevel(t, level)
       PROVE  Service!Next
  BY <1>10, ConfigurationConfigures DEF loggerSetLevel
<1>11. ASSUME NEW t \in Tasks, NEW level \in Levels, RefuseLevel(t, level)
       PROVE  Service!Next
  <2>1. Service!Refuse(level)
    BY <1>11, SameLevels DEF RefuseLevel, Answer, Service!Refuse, Service!Answer
  <2>2. QED
    BY <1>11, <2>1, AnswersHaveNoEffect DEF RefuseLevel
<1>12. ASSUME NEW t \in Tasks, NEW level \in Levels, NEW module, NEW fmt,
              WriteReturns(t, level, module, fmt)
       PROVE  Service!Next
  BY <1>12, ReturnsRefusesOrDrops
<1>13. ASSUME NEW t \in Tasks, NEW level \in Levels, NEW module, NEW fmt,
              WriteBegins(t, level, module, fmt)
       PROVE  UNCHANGED Service!vars
  <2>1. UNCHANGED <<logger, answer>>
    BY <1>13 DEF WriteBegins
  <2>2. QED
    BY <1>1, <1>13, <2>1, BeginningDeliversNothing
<1>14. ASSUME NEW t \in Tasks, NEW function \in Backends, NEW context \in Contexts \cup {NULL},
              loggerSetBackend(t, function, context)
       PROVE  Service!Next
  BY <1>14, ConfigurationConfigures DEF loggerSetBackend
<1>15. QED
  BY <1>2, <1>3, <1>4, <1>5, <1>6, <1>7, <1>8, <1>9, <1>10, <1>11, <1>12, <1>13, <1>14
     DEF Next

\* The logger implements its promise for every size of the buffer and any
\* number of tasks: backends are called as configured, and what one reads is
\* the text of its own message until it returns.
THEOREM Refinement == Spec => ImplementsLogService
<1>1. Init => Service!Init
  <2> SUFFICES ASSUME Init PROVE Service!Init
    OBVIOUS
  <2>1. \A t \in Tasks : Delivered(t) = 0
    BY DEF Init, Delivered, Free
  <2>2. \A t \in Tasks : Open[t] = << >>
    BY <2>1 DEF Open
  <2>3. Open = [t \in Tasks |-> << >>]
    BY <2>2 DEF Open
  <2>4. QED
    BY <2>3, SameLevels DEF Init, Service!Init, Open
<1>2. LoggerInv /\ LoggerInv' /\ [Next]_vars => [Service!Next]_(Service!vars)
  BY StepRefines
<1>3. QED
  BY <1>1, <1>2, LoggerInvariant, PTL DEF Spec, ImplementsLogService, Service!Spec
=============================================================================
