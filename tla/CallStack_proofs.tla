--------------------------- MODULE CallStack_proofs ---------------------------
(***************************************************************************)
(* Proofs about CallStack, for any methods, any number of arguments and     *)
(* locals and any depth of calls: the saved values of rbp and the return    *)
(* addresses in memory always are those of a chain of frames that ends in   *)
(* main's, and rsp is where the innermost frame says.                       *)
(***************************************************************************)
EXTENDS CallStack, SequenceTheorems, WellFoundedInduction, TLAPS

\* The words that an activation may take.
Words == StackTop \div MaxDepth

\* The lowest address of a frame: where rsp is while its method's body runs.
Low(frame) == frame.base - FrameSize(frame.method)

\* What a call leaves on the stack for its caller.
IsSite(site, caller, callee) ==
  /\ site = Site(caller, ExtraStackSize(callee.arguments), site.destination)
  /\ site.destination \in 1 .. FieldCount(caller)

\* The frame of the outermost method.
IsOutermost(frame, mem) ==
  /\ frame.base = StackTop - 2
  /\ frame.method = Main
  /\ mem[frame.base] = Number(StackTop)
  /\ mem[frame.base + 1] = ReturnTo(Runtime)

\* A frame below the one of its caller.
IsCalled(frame, caller, mem) ==
  /\ frame.base + 2 = Low(caller) - ExtraStackSize(frame.method.arguments)
  /\ mem[frame.base] = Number(caller.base)
  /\ mem[frame.base + 1] = ReturnTo(mem[frame.base + 1].site)
  /\ IsSite(mem[frame.base + 1].site, caller.method, frame.method)

\* The frames are in memory, main's first, and do not overlap.
FrameAt(frames, k, mem) ==
  /\ frames[k].method \in Methods
  /\ frames[k].base \in Nat /\ frames[k].base % 2 = 0
  /\ StackTop - Low(frames[k]) =< k * Words
  /\ frames[k].base + 2 =< StackTop
  /\ frames[k].method.arguments > 0 => mem[frames[k].base - 1].kind = "number"
  /\ IF k = 1 THEN IsOutermost(frames[k], mem) ELSE IsCalled(frames[k], frames[k - 1], mem)

Chain(frames, d, mem) ==
  /\ \A k \in 1 .. d : FrameAt(frames, k, mem)
  /\ \A j, k \in 1 .. d : j < k => frames[k].base + 2 =< Low(frames[j])

Typed ==
  /\ rsp \in 0 .. StackTop
  /\ rbp \in 0 .. StackTop
  /\ memory = [a \in 0 .. StackTop |-> memory[a]]
  /\ \A a \in 0 .. StackTop : memory[a].kind \in {"number", "return"}
  /\ \A i \in 1 .. RegisterCount : registers[i].kind = "number"
  /\ rax.kind = "number"
  /\ depth \in 0 .. MaxDepth

Entering(frames) ==
  /\ depth < MaxDepth
  /\ pc.method \in Methods
  /\ pc = Code("entering", pc.method, Runtime)
  /\ IF depth = 0
     THEN /\ rbp = StackTop
          /\ rsp = StackTop - 1
          /\ pc.method = Main
          /\ memory[rsp] = ReturnTo(Runtime)
     ELSE /\ rbp = frames[depth].base
          /\ rsp = Low(frames[depth]) - ExtraStackSize(pc.method.arguments) - 1
          /\ memory[rsp] = ReturnTo(memory[rsp].site)
          /\ IsSite(memory[rsp].site, frames[depth].method, pc.method)

Body(frames) ==
  /\ depth > 0
  /\ pc = Code("running", frames[depth].method, Runtime)
  /\ rbp = frames[depth].base
  /\ rsp = Low(frames[depth])

Back(frames) ==
  /\ depth > 0
  /\ rbp = frames[depth].base
  /\ \E callee \in Methods :
       /\ pc = Code("returned", frames[depth].method, pc.site)
       /\ IsSite(pc.site, frames[depth].method, callee)
       /\ rsp = Low(frames[depth]) - ExtraStackSize(callee.arguments)

AtEnd ==
  /\ depth = 0
  /\ pc.at = "ended"
  /\ rsp = StackTop
  /\ rbp = StackTop

At(frames) == Entering(frames) \/ Body(frames) \/ Back(frames) \/ AtEnd

\* What the registers and the memory hold when these are the frames.
Stack(frames) == Typed /\ Chain(frames, depth, memory) /\ At(frames)

\* A method that is about to run finds its arguments where its prologue looks for them.
Passing ==
  pc.at = "entering" => passed = [i \in 1 .. pc.method.arguments |-> Incoming(i, rsp - 1)]

IInv == (\E frames : Stack(frames)) /\ Passing

-----------------------------------------------------------------------------
(* Sizes *)

LEMMA Division ==
  ASSUME NEW a \in Nat, NEW d \in Nat, d > 0
  PROVE  /\ a \div d \in Nat
         /\ d * (a \div d) =< a
         /\ \A s \in Nat : d * s =< a => s =< a \div d
<1>1. a \div d \in Nat /\ d * (a \div d) =< a /\ a < d * (a \div d) + d
  OBVIOUS
<1>. DEFINE q == a \div d
<1>2. ASSUME NEW s \in Nat, d * s =< a, s > q
      PROVE  FALSE
  <2>1. s >= q + 1 /\ q \in Nat
    BY <1>1, <1>2
  <2>. HIDE DEF q
  <2>2. d * s >= d * (q + 1)
    BY <2>1
  <2>3. d * (q + 1) = d * q + d
    BY <2>1
  <2>4. a < d * q + d
    BY <1>1 DEF q
  <2>5. d * s \in Int /\ d * q \in Int
    BY <2>1
  <2>. QED
    BY <1>2, <2>2, <2>3, <2>4, <2>5
<1>. QED
  BY <1>1, <1>2

\* k activations of any methods fit into the stack, for every k up to MaxDepth.
LEMMA WordsFacts ==
  /\ Words \in Nat
  /\ \A k \in 0 .. MaxDepth : k * Words \in Nat /\ k * Words =< StackTop
  /\ \A k \in Nat : (k + 1) * Words = k * Words + Words
  /\ 1 * Words = Words
<1>1. /\ Words \in Nat
      /\ MaxDepth * Words =< StackTop
  BY Division, StackIsLargeEnough, StackTopAssumption DEF Words
<1>2. ASSUME NEW k \in 0 .. MaxDepth
      PROVE  k * Words \in Nat /\ k * Words =< MaxDepth * Words
  BY <1>1, StackIsLargeEnough
<1>3. MaxDepth * Words \in Nat
  BY <1>1, StackIsLargeEnough
<1>4. \A k \in Nat : (k + 1) * Words = k * Words + Words
  BY <1>1
<1>. QED
  BY <1>1, <1>2, <1>3, <1>4, StackTopAssumption

\* Frames and the words for arguments are even.
LEMMA MethodFacts ==
  ASSUME NEW m \in Methods
  PROVE  /\ m.arguments \in Nat
         /\ FieldCount(m) \in Nat /\ m.arguments =< FieldCount(m)
         /\ FrameSize(m) \in Nat /\ FrameSize(m) % 2 = 0 /\ FieldCount(m) =< FrameSize(m)
         /\ ExtraStackSize(m.arguments) \in Nat /\ ExtraStackSize(m.arguments) % 2 = 0
         /\ m.arguments - RegisterCount =< ExtraStackSize(m.arguments)
         /\ ExtraStackSize(m.arguments) + 2 + FrameSize(m) =< Words
<1>1. m.arguments \in Nat /\ m.locals \in Nat
  BY MethodsAssumption
<1>2. /\ FieldCount(m) \in Nat /\ m.arguments =< FieldCount(m)
      /\ FrameSize(m) \in Nat /\ FrameSize(m) % 2 = 0 /\ FieldCount(m) =< FrameSize(m)
  BY <1>1 DEF FrameSize, FieldCount
<1>3. /\ ExtraStackSize(m.arguments) \in Nat /\ ExtraStackSize(m.arguments) % 2 = 0
      /\ m.arguments - RegisterCount =< ExtraStackSize(m.arguments)
  BY <1>1 DEF ExtraStackSize, RegisterCount
<1>4. ActivationSize(m) \in Nat /\ MaxDepth * ActivationSize(m) =< StackTop
  BY <1>2, <1>3, StackIsLargeEnough DEF ActivationSize
<1>5. ActivationSize(m) =< Words
  BY <1>4, Division, StackIsLargeEnough, StackTopAssumption DEF Words
<1>. QED
  BY <1>1, <1>2, <1>3, <1>5 DEF ActivationSize

-----------------------------------------------------------------------------
(* Chains of frames *)

LEMMA FrameFacts ==
  ASSUME NEW frames, NEW mem, NEW d \in Nat, d =< MaxDepth, Chain(frames, d, mem),
         NEW k \in 1 .. d
  PROVE  /\ frames[k].method \in Methods
         /\ frames[k].base \in Nat /\ frames[k].base % 2 = 0
         /\ Low(frames[k]) \in Nat /\ Low(frames[k]) % 2 = 0
         /\ Low(frames[k]) + FieldCount(frames[k].method) =< frames[k].base
         /\ Low(frames[k]) =< frames[k].base
         /\ frames[k].base + 2 =< StackTop
         /\ StackTop - Low(frames[k]) =< k * Words
<1>1. FrameAt(frames, k, mem)
  BY DEF Chain
<1>2. /\ frames[k].method \in Methods
      /\ frames[k].base \in Nat /\ frames[k].base % 2 = 0
      /\ frames[k].base + 2 =< StackTop
      /\ StackTop - Low(frames[k]) =< k * Words
  BY <1>1 DEF FrameAt
<1>3. k * Words \in Nat /\ k * Words =< StackTop
  BY WordsFacts, StackIsLargeEnough
<1>4. /\ FrameSize(frames[k].method) \in Nat /\ FrameSize(frames[k].method) % 2 = 0
      /\ FieldCount(frames[k].method) \in Nat
      /\ FieldCount(frames[k].method) =< FrameSize(frames[k].method)
  BY <1>2, MethodFacts
<1>5. Low(frames[k]) \in Int /\ Low(frames[k]) % 2 = 0
  BY <1>2, <1>4 DEF Low
<1>6. Low(frames[k]) >= 0
  BY <1>2, <1>3, <1>5, StackTopAssumption
<1>. QED
  BY <1>2, <1>4, <1>5, <1>6 DEF Low

\* Memory may change where no frame of the chain has its fields, its saved rbp or its
\* return address.
Kept(frames, d, mem, mem2) ==
  \A k \in 1 .. d :
    /\ mem2[frames[k].base] = mem[frames[k].base]
    /\ mem2[frames[k].base + 1] = mem[frames[k].base + 1]
    /\ frames[k].method.arguments > 0 => mem2[frames[k].base - 1].kind = "number"

LEMMA ChainKept ==
  ASSUME NEW frames, NEW d, NEW mem, NEW mem2, Chain(frames, d, mem), Kept(frames, d, mem, mem2)
  PROVE  Chain(frames, d, mem2)
BY DEF Chain, FrameAt, Kept, IsOutermost, IsCalled

\* A write below the innermost frame keeps the chain.
LEMMA WriteBelow ==
  ASSUME NEW frames, NEW mem, NEW d \in Nat, d =< MaxDepth, Chain(frames, d, mem),
         NEW mem2, NEW low \in Int,
         \A k \in 1 .. d : low =< Low(frames[k]),
         \A a \in Nat : a >= low /\ a =< StackTop => mem2[a] = mem[a]
  PROVE  Chain(frames, d, mem2)
<1>1. ASSUME NEW k \in 1 .. d
      PROVE  /\ mem2[frames[k].base] = mem[frames[k].base]
             /\ mem2[frames[k].base + 1] = mem[frames[k].base + 1]
             /\ frames[k].method.arguments > 0 => mem2[frames[k].base - 1].kind = "number"
  <2>1. /\ frames[k].base \in Nat
        /\ low =< frames[k].base
        /\ frames[k].base + 2 =< StackTop
        /\ StackTop \in Nat
        /\ Low(frames[k]) + FieldCount(frames[k].method) =< frames[k].base
        /\ Low(frames[k]) \in Nat
        /\ frames[k].method \in Methods
    BY FrameFacts, StackTopAssumption
  <2>2. mem2[frames[k].base] = mem[frames[k].base]
    BY <2>1
  <2>3. mem2[frames[k].base + 1] = mem[frames[k].base + 1]
    BY <2>1
  <2>4. ASSUME frames[k].method.arguments > 0
        PROVE  mem2[frames[k].base - 1].kind = "number"
    <3>1. FieldCount(frames[k].method) >= 1 /\ FieldCount(frames[k].method) \in Nat
      BY <2>1, <2>4, MethodFacts
    <3>2. frames[k].base - 1 \in Nat /\ frames[k].base - 1 >= low
      BY <2>1, <3>1
    <3>3. mem2[frames[k].base - 1] = mem[frames[k].base - 1]
      BY <2>1, <3>2
    <3>4. mem[frames[k].base - 1].kind = "number"
      BY <2>4 DEF Chain, FrameAt
    <3>. QED
      BY <3>3, <3>4
  <2>. QED
    BY <2>2, <2>3, <2>4
<1>2. Kept(frames, d, mem, mem2)
  BY <1>1 DEF Kept
<1>. QED
  BY <1>2, ChainKept

\* So does one to a field of the innermost method, of a number.
LEMMA WriteField ==
  ASSUME NEW frames, NEW mem, NEW d \in Nat, d =< MaxDepth, d > 0, Chain(frames, d, mem),
         NEW f \in 1 .. FieldCount(frames[d].method), NEW mem2,
         mem2[frames[d].base - f].kind = "number",
         \A a \in Nat : a =< StackTop /\ a # frames[d].base - f => mem2[a] = mem[a]
  PROVE  Chain(frames, d, mem2)
<1>1. ASSUME NEW k \in 1 .. d
      PROVE  /\ mem2[frames[k].base] = mem[frames[k].base]
             /\ mem2[frames[k].base + 1] = mem[frames[k].base + 1]
             /\ frames[k].method.arguments > 0 => mem2[frames[k].base - 1].kind = "number"
  <2>1. /\ frames[k].base \in Nat
        /\ frames[k].base + 2 =< StackTop
        /\ StackTop \in Nat
        /\ Low(frames[k]) + FieldCount(frames[k].method) =< frames[k].base
        /\ Low(frames[k]) \in Nat
        /\ frames[k].method \in Methods
    BY FrameFacts, StackTopAssumption
  <2>2. frames[d].base \in Nat /\ frames[d].method \in Methods
    BY FrameFacts
  <2>3. k = d \/ frames[d].base + 2 =< Low(frames[k])
    BY DEF Chain
  <2>4. frames[d].base =< frames[k].base /\ f \in Nat /\ f >= 1
    BY <2>1, <2>2, <2>3, MethodFacts
  <2>5. mem2[frames[k].base] = mem[frames[k].base]
    BY <2>1, <2>2, <2>4
  <2>6. mem2[frames[k].base + 1] = mem[frames[k].base + 1]
    BY <2>1, <2>2, <2>4
  <2>7. ASSUME frames[k].method.arguments > 0
        PROVE  mem2[frames[k].base - 1].kind = "number"
    <3>1. FieldCount(frames[k].method) >= 1 /\ FieldCount(frames[k].method) \in Nat
      BY <2>1, <2>7, MethodFacts
    <3>2. frames[k].base - 1 \in Nat /\ frames[k].base - 1 =< StackTop
      BY <2>1, <3>1
    <3>3. mem[frames[k].base - 1].kind = "number"
      BY <2>7 DEF Chain, FrameAt
    <3>4. CASE frames[k].base - 1 = frames[d].base - f
      BY <3>4
    <3>5. CASE frames[k].base - 1 # frames[d].base - f
      BY <3>2, <3>3, <3>5
    <3>. QED
      BY <3>4, <3>5
  <2>. QED
    BY <2>5, <2>6, <2>7
<1>2. Kept(frames, d, mem, mem2)
  BY <1>1 DEF Kept
<1>. QED
  BY <1>2, ChainKept

\* The fields of a frame, and those of all frames where memory changes elsewhere.
Fields(frame, mem) == [f \in 1 .. FieldCount(frame.method) |-> mem[frame.base - f]]

FieldsKept(frames, d, mem, mem2) ==
  \A k \in 1 .. d : Fields(frames[k], mem2) = Fields(frames[k], mem)

LEMMA FieldsAreAbove ==
  ASSUME NEW frames, NEW mem, NEW d \in Nat, d =< MaxDepth, Chain(frames, d, mem),
         NEW mem2, NEW low \in Int,
         \A k \in 1 .. d : low =< Low(frames[k]),
         \A a \in Nat : a >= low /\ a =< StackTop => mem2[a] = mem[a]
  PROVE  FieldsKept(frames, d, mem, mem2)
<1>. SUFFICES ASSUME NEW k \in 1 .. d, NEW f \in 1 .. FieldCount(frames[k].method)
              PROVE  mem2[frames[k].base - f] = mem[frames[k].base - f]
  BY DEF FieldsKept, Fields
<1>1. /\ frames[k].base \in Nat /\ low =< Low(frames[k])
      /\ frames[k].base + 2 =< StackTop
      /\ StackTop \in Nat
      /\ Low(frames[k]) + FieldCount(frames[k].method) =< frames[k].base
      /\ Low(frames[k]) \in Nat
      /\ frames[k].method \in Methods
  BY FrameFacts, StackTopAssumption
<1>2. FieldCount(frames[k].method) \in Nat /\ f \in Nat
  BY <1>1, MethodFacts
<1>3. /\ frames[k].base - f \in Nat /\ frames[k].base - f >= low
      /\ frames[k].base - f =< StackTop
  BY <1>1, <1>2
<1>. QED
  BY <1>3

\* A write to a field of the innermost method changes that field and no other.
LEMMA FieldIsWritten ==
  ASSUME NEW frames, NEW mem, NEW d \in Nat, d =< MaxDepth, d > 0, Chain(frames, d, mem),
         NEW f \in 1 .. FieldCount(frames[d].method), NEW mem2, NEW value,
         mem2[frames[d].base - f] = value,
         \A a \in Nat : a =< StackTop /\ a # frames[d].base - f => mem2[a] = mem[a]
  PROVE  \A k \in 1 .. d :
           Fields(frames[k], mem2) = IF k = d THEN [Fields(frames[k], mem) EXCEPT ![f] = value]
                                     ELSE Fields(frames[k], mem)
<1>1. ASSUME NEW k \in 1 .. d, NEW g \in 1 .. FieldCount(frames[k].method), k # d \/ g # f
      PROVE  mem2[frames[k].base - g] = mem[frames[k].base - g]
  <2>1. /\ frames[k].base \in Nat
        /\ frames[k].base + 2 =< StackTop
        /\ StackTop \in Nat
        /\ Low(frames[k]) + FieldCount(frames[k].method) =< frames[k].base
        /\ Low(frames[k]) \in Nat
        /\ frames[k].method \in Methods
    BY FrameFacts, StackTopAssumption
  <2>2. frames[d].base \in Nat /\ frames[d].method \in Methods
    BY FrameFacts
  <2>3. k = d \/ frames[d].base + 2 =< Low(frames[k])
    BY DEF Chain
  <2>4. FieldCount(frames[k].method) \in Nat /\ g \in Nat /\ f \in Nat /\ f >= 1
    BY <2>1, <2>2, MethodFacts
  <2>5. /\ frames[k].base - g \in Nat /\ frames[k].base - g =< StackTop
        /\ frames[k].base - g >= Low(frames[k])
    BY <2>1, <2>4
  <2>6. frames[k].base - g # frames[d].base - f
    BY <1>1, <2>1, <2>2, <2>3, <2>4, <2>5
  <2>. QED
    BY <2>5, <2>6
<1>2. ASSUME NEW k \in 1 .. d, k # d
      PROVE  Fields(frames[k], mem2) = Fields(frames[k], mem)
  BY <1>1, <1>2 DEF Fields
<1>3. Fields(frames[d], mem2) = [Fields(frames[d], mem) EXCEPT ![f] = value]
  <2>1. ASSUME NEW g \in 1 .. FieldCount(frames[d].method), g # f
        PROVE  mem2[frames[d].base - g] = mem[frames[d].base - g]
    <3>1. d \in 1 .. d
      OBVIOUS
    <3>. QED
      BY <1>1, <2>1, <3>1
  <2>. QED
    BY <2>1 DEF Fields
<1>. QED
  BY <1>2, <1>3

\* A method that returns leaves the chain of its caller.
LEMMA ChainPopped ==
  ASSUME NEW frames, NEW mem, NEW d \in Nat, d > 0, Chain(frames, d, mem)
  PROVE  Chain(frames, d - 1, mem)
BY DEF Chain

\* A method that is entered adds a frame.
LEMMA ChainPushed ==
  ASSUME NEW frames, NEW mem, NEW d \in Nat, d < MaxDepth, Chain(frames, d, mem),
         NEW frame,
         frame.method \in Methods, frame.base \in Nat, frame.base % 2 = 0,
         frame.base + 2 =< StackTop,
         frame.method.arguments > 0 => mem[frame.base - 1].kind = "number",
         IF d = 0 THEN IsOutermost(frame, mem) ELSE IsCalled(frame, frames[d], mem)
  PROVE  Chain([k \in 1 .. d + 1 |-> IF k = d + 1 THEN frame ELSE frames[k]], d + 1, mem)
<1>. DEFINE frames2 == [k \in 1 .. d + 1 |-> IF k = d + 1 THEN frame ELSE frames[k]]
<1>1. frames2[d + 1] = frame /\ \A k \in 1 .. d : frames2[k] = frames[k]
  OBVIOUS
<1>2. /\ FrameSize(frame.method) \in Nat
      /\ ExtraStackSize(frame.method.arguments) \in Nat
      /\ ExtraStackSize(frame.method.arguments) + 2 + FrameSize(frame.method) =< Words
      /\ StackTop \in Nat /\ Words \in Nat
  BY MethodFacts, StackTopAssumption, WordsFacts
<1>3. StackTop - Low(frame) =< (d + 1) * Words
  <2>1. CASE d = 0
    <3>1. frame.base = StackTop - 2
      BY <2>1 DEF IsOutermost
    <3>2. StackTop - Low(frame) = 2 + FrameSize(frame.method)
      BY <1>2, <3>1 DEF Low
    <3>3. (d + 1) * Words = Words
      BY <2>1, WordsFacts
    <3>. QED
      BY <1>2, <3>2, <3>3
  <2>2. CASE d # 0
    <3>1. frame.base + 2 = Low(frames[d]) - ExtraStackSize(frame.method.arguments)
      BY <2>2 DEF IsCalled
    <3>2. StackTop - Low(frames[d]) =< d * Words /\ Low(frames[d]) \in Nat
      BY <2>2, FrameFacts, StackIsLargeEnough
    <3>3. (d + 1) * Words = d * Words + Words /\ d * Words \in Nat
      BY WordsFacts, StackIsLargeEnough
    <3>4. StackTop - Low(frame)
            = StackTop - Low(frames[d]) + ExtraStackSize(frame.method.arguments)
                + 2 + FrameSize(frame.method)
      BY <1>2, <3>1, <3>2 DEF Low
    <3>. QED
      BY <1>2, <3>2, <3>3, <3>4
  <2>. QED
    BY <2>1, <2>2
<1>4. ASSUME NEW k \in 1 .. d + 1
      PROVE  FrameAt(frames2, k, mem)
  <2>1. CASE k = d + 1
    <3>1. k # 1 => frames2[k - 1] = frames[d]
      BY <1>1, <2>1
    <3>2. frames2[k] = frame
      BY <1>1, <2>1
    <3>. HIDE DEF frames2
    <3>. QED
      BY <1>3, <2>1, <3>1, <3>2 DEF FrameAt
  <2>2. CASE k # d + 1
    <3>1. k \in 1 .. d
      BY <2>2
    <3>2. FrameAt(frames, k, mem)
      BY <3>1 DEF Chain
    <3>3. frames2[k] = frames[k] /\ (k # 1 => frames2[k - 1] = frames[k - 1])
      BY <1>1, <3>1
    <3>. HIDE DEF frames2
    <3>. QED
      BY <3>2, <3>3 DEF FrameAt
  <2>. QED
    BY <2>1, <2>2
<1>5. ASSUME NEW j \in 1 .. d + 1, NEW k \in 1 .. d + 1, j < k
      PROVE  frames2[k].base + 2 =< Low(frames2[j])
  <2>1. j \in 1 .. d /\ frames2[j] = frames[j]
    BY <1>1, <1>5
  <2>2. CASE k = d + 1
    <3>1. frame.base + 2 = Low(frames[d]) - ExtraStackSize(frame.method.arguments)
      BY <2>1 DEF IsCalled
    <3>2. Low(frames[d]) \in Nat /\ Low(frames[j]) \in Nat /\ frames[d].base \in Nat
          /\ Low(frames[d]) =< frames[d].base
      BY <2>1, FrameFacts, StackIsLargeEnough
    <3>3. j = d \/ frames[d].base + 2 =< Low(frames[j])
      BY <2>1 DEF Chain
    <3>4. frame.base + 2 =< Low(frames[j])
      BY <1>2, <3>1, <3>2, <3>3
    <3>. QED
      BY <1>1, <2>1, <2>2, <3>4
  <2>3. CASE k # d + 1
    <3>1. k \in 1 .. d /\ frames2[k] = frames[k]
      BY <1>1, <2>3
    <3>. QED
      BY <1>5, <2>1, <3>1 DEF Chain
  <2>. QED
    BY <2>2, <2>3
<1>. QED
  BY <1>4, <1>5 DEF Chain

-----------------------------------------------------------------------------
(* The steps *)

\* Below the frames of fewer than MaxDepth methods there is room for one more.
LEMMA Room ==
  ASSUME NEW frames, NEW mem, NEW d \in Nat, d > 0, d < MaxDepth, Chain(frames, d, mem)
  PROVE  Low(frames[d]) \in Nat /\ Words =< Low(frames[d])
<1>1. Low(frames[d]) \in Nat /\ StackTop - Low(frames[d]) =< d * Words
  BY FrameFacts, StackIsLargeEnough
<1>2. (d + 1) * Words = d * Words + Words /\ d * Words \in Nat
  BY WordsFacts, StackIsLargeEnough
<1>3. (d + 1) * Words =< StackTop
  <2>1. d + 1 \in 0 .. MaxDepth
    BY StackIsLargeEnough
  <2>. QED
    BY <2>1, WordsFacts, Zenon
<1>. QED
  BY <1>1, <1>2, <1>3, WordsFacts, StackTopAssumption

LEMMA InitIInv == Init => IInv
<1>. SUFFICES ASSUME Init
              PROVE  IInv
  OBVIOUS
<1>. USE StackTopAssumption DEF Init
<1>1. Words =< StackTop /\ Words \in Nat
  <2>1. 1 \in 0 .. MaxDepth
    BY StackIsLargeEnough
  <2>2. 1 * Words =< StackTop
    BY <2>1, WordsFacts, Zenon
  <2>. QED
    BY <2>2, WordsFacts
<1>2. ExtraStackSize(Main.arguments) \in Nat /\ FrameSize(Main) \in Nat
      /\ ExtraStackSize(Main.arguments) + 2 + FrameSize(Main) =< Words
  BY MethodFacts, MethodsAssumption
<1>3. StackTop >= 2
  BY <1>1, <1>2
<1>4. Typed
  BY <1>3, StackIsLargeEnough DEF Typed, Number, ReturnTo
<1>5. Chain(<<>>, depth, memory)
  BY DEF Chain
<1>6. Entering(<<>>)
  BY <1>3, StackIsLargeEnough, MethodsAssumption DEF Entering, Code
<1>7. Stack(<<>>)
  BY <1>4, <1>5, <1>6 DEF Stack, At
<1>8. Passing
  BY MethodsAssumption DEF Passing, Code
<1>. QED
  BY <1>7, <1>8 DEF IInv

LEMMA CallStep ==
  ASSUME NEW frames, Stack(frames), NEW callee \in Methods, NEW destination \in Destinations, Call(callee, destination)
  PROVE  Stack(frames)' /\ FieldsKept(frames, depth, memory, memory')
<1>1. Chain(frames, depth, memory) /\ At(frames)
  BY DEF Stack
<1>2. Body(frames)
  BY <1>1 DEF Call, At, Entering, Back, AtEnd, Code
<1>3. /\ depth > 0 /\ depth \in Nat /\ depth < MaxDepth /\ depth =< MaxDepth
      /\ pc.method = frames[depth].method
      /\ rbp = frames[depth].base /\ rsp = Low(frames[depth])
  BY <1>2, StackIsLargeEnough DEF Stack, Typed, Body, Call, Code
<1>4. /\ pc.method \in Methods
      /\ frames[depth].base \in Nat /\ rsp \in Nat /\ frames[depth].base + 2 =< StackTop
      /\ rsp =< rbp
      /\ destination \in 1 .. FieldCount(pc.method)
      /\ pc.method.arguments > 0 => memory[rbp - 1].kind = "number"
  <2>1. FrameAt(frames, depth, memory)
    BY <1>1, <1>3 DEF Chain
  <2>. QED
    BY <1>1, <1>3, <2>1, FrameFacts DEF FrameAt, Destinations
<1>. DEFINE extra == ExtraStackSize(callee.arguments)
            low == rsp - extra
<1>5. /\ extra \in Nat /\ extra + 2 =< rsp /\ callee.arguments \in Nat
  <2>1. extra \in Nat /\ extra + 2 + FrameSize(callee) =< Words /\ FrameSize(callee) \in Nat
        /\ callee.arguments \in Nat
    BY MethodFacts
  <2>2. Words =< rsp /\ Words \in Nat
    BY <1>1, <1>3, Room, WordsFacts
  <2>. QED
    BY <1>4, <2>1, <2>2
<1>6. callee.arguments - RegisterCount =< extra
  BY MethodFacts
<1>7. /\ registers' = [i \in 1 .. RegisterCount |->
                         IF i =< callee.arguments THEN Operand(i) ELSE registers[i]]
      /\ rsp' = low - 1
      /\ rax' = Number(0)
      /\ pc' = Code("entering", callee, Runtime)
      /\ rbp' = rbp /\ depth' = depth
  BY DEF Call
<1>8. memory' = [a \in DOMAIN memory |->
         IF a \in {StackArgument(i, callee.arguments, low) :
                     i \in RegisterCount + 1 .. callee.arguments} \cup {low - 1}
         THEN IF a = low - 1 THEN ReturnTo(Site(pc.method, extra, destination))
              ELSE Operand(CHOOSE i \in RegisterCount + 1 .. callee.arguments :
                             StackArgument(i, callee.arguments, low) = a)
         ELSE memory[a]]
  BY DEF Call, Write
<1>9. DOMAIN memory = 0 .. StackTop
  BY DEF Stack, Typed
<1>10. \A i : Operand(i).kind = "number"
  BY <1>4 DEF Operand, FieldAddress, Number
<1>11. \A a \in 0 .. StackTop : memory'[a].kind \in {"number", "return"}
  BY <1>8, <1>9, <1>10 DEF ReturnTo, Stack, Typed
<1>12. memory'[low - 1] = ReturnTo(Site(pc.method, extra, destination))
  <2>1. low - 1 \in 0 .. StackTop
    BY <1>4, <1>5, StackTopAssumption, SMTT(30) DEF Stack, Typed
  <2>. QED
    BY <1>8, <1>9, <2>1
<1>13. ASSUME NEW a \in Nat, a >= rsp, a =< StackTop
       PROVE  memory'[a] = memory[a]
  <2>1. a # low - 1
    BY <1>4, <1>5, <1>13
  <2>2. ASSUME NEW i \in RegisterCount + 1 .. callee.arguments
        PROVE  a # StackArgument(i, callee.arguments, low)
    BY <1>4, <1>5, <1>6, <1>13 DEF StackArgument, RegisterCount
  <2>3. a \in DOMAIN memory
    BY <1>9, <1>13
  <2>. QED
    BY <1>8, <2>1, <2>2, <2>3
<1>14. Chain(frames, depth, memory') /\ FieldsKept(frames, depth, memory, memory')
  <2>1. \A k \in 1 .. depth : rsp =< Low(frames[k])
    <3>1. SUFFICES ASSUME NEW k \in 1 .. depth
                   PROVE  rsp =< Low(frames[k])
      OBVIOUS
    <3>2. k = depth \/ frames[depth].base + 2 =< Low(frames[k])
      BY <1>1, <1>3 DEF Chain
    <3>3. Low(frames[k]) \in Nat
      BY <1>1, <1>3, FrameFacts
    <3>. QED
      BY <1>3, <1>4, <3>2, <3>3
  <2>. QED
    BY <1>1, <1>3, <1>4, <1>13, <2>1, WriteBelow, FieldsAreAbove
<1>15. Typed'
  <2>1. rsp' \in 0 .. StackTop /\ rbp' \in 0 .. StackTop /\ depth' \in 0 .. MaxDepth
    BY <1>4, <1>5, <1>7, StackTopAssumption, SMTT(30) DEF Stack, Typed
  <2>2. \A i \in 1 .. RegisterCount : registers'[i].kind = "number"
    BY <1>7, <1>10 DEF Stack, Typed
  <2>3. rax'.kind = "number"
    BY <1>7 DEF Number
  <2>4. memory' = [a \in 0 .. StackTop |-> memory'[a]]
    BY <1>8, <1>9
  <2>. QED
    BY <1>11, <2>1, <2>2, <2>3, <2>4 DEF Typed
<1>16. Entering(frames)'
  <2>1. memory'[rsp'] = ReturnTo(Site(pc.method, extra, destination))
    BY <1>7, <1>12
  <2>2. IsSite(memory'[rsp'].site, frames[depth].method, callee)
    BY <1>3, <1>4, <2>1 DEF IsSite, ReturnTo, Site
  <2>3. memory'[rsp'] = ReturnTo(memory'[rsp'].site)
    BY <2>1 DEF ReturnTo
  <2>4. pc'.method = callee
    BY <1>7 DEF Code
  <2>. HIDE DEF extra
  <2>5. rsp' = Low(frames[depth]) - ExtraStackSize(callee.arguments) - 1
    BY <1>3, <1>7 DEF extra
  <2>. QED
    BY <1>3, <1>7, <2>2, <2>3, <2>4, <2>5 DEF Entering
<1>17. At(frames)'
  BY <1>16 DEF At
<1>. QED
  BY <1>7, <1>14, <1>15, <1>17 DEF Stack

LEMMA EnterStep ==
  ASSUME NEW frames, Stack(frames), Enter
  PROVE  /\ \E frames2 : /\ \A k \in 1 .. depth : frames2[k] = frames[k]
                         /\ frames2[depth + 1] = [base |-> rsp - 1, method |-> pc.method]
                         /\ Stack(frames2)'
         /\ FieldsKept(frames, depth, memory, memory')
         /\ \A i \in 1 .. pc.method.arguments : memory'[rsp - 1 - i] = Incoming(i, rsp - 1)
<1>1. Chain(frames, depth, memory) /\ At(frames)
  BY DEF Stack
<1>2. Entering(frames)
  BY <1>1 DEF Enter, At, Body, Back, AtEnd, Code
<1>. DEFINE method == pc.method
            base == rsp - 1
            frame == [base |-> base, method |-> method]
<1>3. /\ method \in Methods /\ depth \in Nat /\ depth < MaxDepth /\ depth =< MaxDepth
      /\ memory[rsp] = ReturnTo(memory[rsp].site)
  BY <1>2, StackIsLargeEnough DEF Stack, Typed, Entering, ReturnTo, Runtime, Site
<1>4. /\ FieldCount(method) \in Nat /\ method.arguments \in Nat
      /\ method.arguments =< FieldCount(method)
      /\ FrameSize(method) \in Nat /\ FrameSize(method) % 2 = 0
      /\ FieldCount(method) =< FrameSize(method)
      /\ ExtraStackSize(method.arguments) \in Nat
      /\ ExtraStackSize(method.arguments) % 2 = 0
      /\ method.arguments - RegisterCount =< ExtraStackSize(method.arguments)
      /\ ExtraStackSize(method.arguments) + 2 + FrameSize(method) =< Words
  BY <1>3, MethodFacts
\* Where the frame lies, and where the words of the arguments do.
<1>5. /\ base \in Nat /\ base % 2 = 0 /\ FrameSize(method) =< base
      /\ base + 2 + ExtraStackSize(method.arguments) =< StackTop
      /\ rsp \in Nat /\ rsp = base + 1 /\ StackTop \in Nat
  <2>1. CASE depth = 0
    <3>1. 1 \in 0 .. MaxDepth
      BY StackIsLargeEnough
    <3>2. 1 * Words =< StackTop
      BY <3>1, WordsFacts, Zenon
    <3>3. Words =< StackTop /\ Words \in Nat
      BY <3>2, WordsFacts
    <3>4. method = Main /\ rsp = StackTop - 1
      BY <1>2, <2>1 DEF Entering
    <3>5. ExtraStackSize(method.arguments) = 0
      BY <3>4, MethodsAssumption DEF ExtraStackSize, RegisterCount
    <3>. QED
      BY <1>4, <3>3, <3>4, <3>5, StackTopAssumption
  <2>2. CASE depth # 0
    <3>1. rsp = Low(frames[depth]) - ExtraStackSize(method.arguments) - 1
      BY <1>2, <2>2 DEF Entering
    <3>2. Words =< Low(frames[depth]) /\ Words \in Nat
      BY <1>1, <1>3, <2>2, Room, WordsFacts
    <3>3. /\ Low(frames[depth]) \in Nat /\ Low(frames[depth]) % 2 = 0
          /\ Low(frames[depth]) =< frames[depth].base /\ frames[depth].base + 2 =< StackTop
          /\ frames[depth].base \in Nat
      BY <1>1, <1>3, <2>2, FrameFacts
    <3>. QED
      BY <1>4, <3>1, <3>2, <3>3, StackTopAssumption
  <2>. QED
    BY <2>1, <2>2
<1>6. /\ rbp' = base
      /\ rsp' = base - FrameSize(method)
      /\ pc' = Code("running", method, Runtime)
      /\ depth' = depth + 1
      /\ registers' = registers /\ rax' = rax
  BY DEF Enter
<1>7. memory' = [a \in DOMAIN memory |->
         IF a \in {FieldAddress(base, i) : i \in 1 .. method.arguments} \cup {base}
         THEN IF a = base THEN Number(rbp) ELSE Incoming(base - a, base)
         ELSE memory[a]]
  BY DEF Enter, Write
<1>8. DOMAIN memory = 0 .. StackTop
  BY DEF Stack, Typed
<1>9. ASSUME NEW i \in 1 .. method.arguments
      PROVE  Incoming(i, base).kind \in {"number", "return"}
  <2>1. CASE i =< RegisterCount
    BY <2>1, <1>4 DEF Incoming, Stack, Typed
  <2>2. CASE i > RegisterCount
    <3>1. base + (i - RegisterCount - 1) + 2 \in 0 .. StackTop
      BY <1>4, <1>5, <2>2 DEF RegisterCount
    <3>2. ~(i =< RegisterCount)
      BY <1>4, <2>2 DEF RegisterCount
    <3>. HIDE DEF base
    <3>. QED
      BY <3>1, <3>2 DEF Incoming, Stack, Typed
  <2>. QED
    BY <2>1, <2>2, <1>4 DEF RegisterCount
<1>10. \A a \in 0 .. StackTop : memory'[a].kind \in {"number", "return"}
  <2>1. SUFFICES ASSUME NEW a \in 0 .. StackTop
                 PROVE  memory'[a].kind \in {"number", "return"}
    OBVIOUS
  <2>2. CASE a = base
    BY <1>7, <1>8, <2>2 DEF Number
  <2>3. CASE a # base /\ a \in {FieldAddress(base, i) : i \in 1 .. method.arguments}
    <3>1. base - a \in 1 .. method.arguments
      BY <1>4, <1>5, <2>3 DEF FieldAddress
    <3>2. memory'[a] = Incoming(base - a, base)
      BY <1>7, <1>8, <2>3
    <3>. QED
      BY <1>9, <3>1, <3>2
  <2>4. CASE a # base /\ a \notin {FieldAddress(base, i) : i \in 1 .. method.arguments}
    <3>1. memory'[a] = memory[a]
      BY <1>7, <1>8, <2>4
    <3>. QED
      BY <3>1 DEF Stack, Typed
  <2>. QED
    BY <2>2, <2>3, <2>4
<1>11. memory'[base] = Number(rbp)
  <2>1. base \in 0 .. StackTop
    BY <1>4, <1>5
  <2>. HIDE DEF base
  <2>. QED
    BY <1>7, <1>8, <2>1
<1>12. \A a \in Nat : a >= rsp /\ a =< StackTop => memory'[a] = memory[a]
  <2>1. SUFFICES ASSUME NEW a \in Nat, a >= rsp, a =< StackTop
                 PROVE  memory'[a] = memory[a]
    OBVIOUS
  <2>2. a # base /\ a \notin {FieldAddress(base, i) : i \in 1 .. method.arguments}
    BY <1>4, <1>5, <2>1 DEF FieldAddress
  <2>. QED
    BY <1>7, <1>8, <2>1, <2>2
<1>13. method.arguments > 0 => memory'[base - 1].kind = "number"
  <2>1. SUFFICES ASSUME method.arguments > 0
                 PROVE  memory'[base - 1].kind = "number"
    OBVIOUS
  <2>2. base - 1 \in 0 .. StackTop /\ base - 1 # base
    BY <1>4, <1>5, <2>1
  <2>3. base - 1 \in {FieldAddress(base, i) : i \in 1 .. method.arguments}
    BY <1>4, <2>1 DEF FieldAddress
  <2>4. memory'[base - 1] = Incoming(base - (base - 1), base)
    BY <1>7, <1>8, <2>2, <2>3
  <2>5. base - (base - 1) = 1
    BY <1>5
  <2>6. Incoming(1, base) = registers[1]
    BY DEF Incoming, RegisterCount
  <2>. QED
    BY <2>4, <2>5, <2>6 DEF Stack, Typed, RegisterCount
<1>14. Chain(frames, depth, memory') /\ FieldsKept(frames, depth, memory, memory')
  <2>1. \A k \in 1 .. depth : rsp =< Low(frames[k])
    <3>1. SUFFICES ASSUME NEW k \in 1 .. depth
                   PROVE  rsp =< Low(frames[k])
      OBVIOUS
    <3>2. k = depth \/ frames[depth].base + 2 =< Low(frames[k])
      BY <1>1, <1>3 DEF Chain
    <3>3. Low(frames[k]) \in Nat
      BY <1>1, <1>3, FrameFacts
    <3>4. /\ Low(frames[depth]) \in Nat /\ frames[depth].base \in Nat
          /\ Low(frames[depth]) =< frames[depth].base
      BY <1>1, <1>3, FrameFacts
    <3>5. rsp = Low(frames[depth]) - ExtraStackSize(method.arguments) - 1
      BY <1>2, <1>3 DEF Entering
    <3>6. rsp =< Low(frames[depth])
      BY <1>4, <1>5, <3>4, <3>5
    <3>. QED
      BY <1>5, <3>2, <3>3, <3>4, <3>6
  <2>. QED
    BY <1>1, <1>3, <1>5, <1>12, <2>1, WriteBelow, FieldsAreAbove
<1>15. memory'[base + 1] = memory[rsp]
  <2>1. rsp =< StackTop /\ rsp >= rsp
    BY <1>4, <1>5
  <2>2. memory'[rsp] = memory[rsp]
    BY <1>5, <1>12, <2>1
  <2>. QED
    BY <1>5, <2>2
<1>16. IF depth = 0 THEN IsOutermost(frame, memory') ELSE IsCalled(frame, frames[depth], memory')
  <2>1. CASE depth = 0
    <3>1. rbp = StackTop /\ rsp = StackTop - 1 /\ method = Main /\ memory[rsp] = ReturnTo(Runtime)
      BY <1>2, <2>1 DEF Entering
    <3>. QED
      BY <1>5, <1>11, <1>15, <2>1, <3>1 DEF IsOutermost
  <2>2. CASE depth # 0
    <3>1. /\ rbp = frames[depth].base
          /\ rsp = Low(frames[depth]) - ExtraStackSize(method.arguments) - 1
          /\ memory[rsp] = ReturnTo(memory[rsp].site)
          /\ IsSite(memory[rsp].site, frames[depth].method, method)
      BY <1>2, <2>2 DEF Entering
    <3>2. Low(frames[depth]) \in Nat
      BY <1>1, <1>3, <2>2, FrameFacts
    <3>3. base + 2 = Low(frames[depth]) - ExtraStackSize(method.arguments)
      BY <1>4, <1>5, <3>1, <3>2
    <3>. HIDE DEF base, method
    <3>. QED
      BY <1>11, <1>15, <2>2, <3>1, <3>3 DEF IsCalled
  <2>. QED
    BY <2>1, <2>2
<1>17. PICK frames2 : /\ Chain(frames2, depth + 1, memory')
                      /\ frames2[depth + 1] = frame
                      /\ \A k \in 1 .. depth : frames2[k] = frames[k]
  <2>1. frame.base = base /\ frame.method = method
    OBVIOUS
  <2>2. base + 2 =< StackTop
    BY <1>4, <1>5
  <2>. HIDE DEF frame, base, method
  <2>3. Chain([k \in 1 .. depth + 1 |-> IF k = depth + 1 THEN frame ELSE frames[k]],
              depth + 1, memory')
    BY <1>3, <1>5, <1>13, <1>14, <1>16, <2>1, <2>2, ChainPushed
  <2>4. [k \in 1 .. depth + 1 |-> IF k = depth + 1 THEN frame ELSE frames[k]][depth + 1] = frame
    BY <1>3
  <2>5. \A k \in 1 .. depth :
          [i \in 1 .. depth + 1 |-> IF i = depth + 1 THEN frame ELSE frames[i]][k] = frames[k]
    BY <1>3
  <2>. QED
    BY <2>3, <2>4, <2>5
<1>18. Typed'
  <2>1. rsp' \in 0 .. StackTop /\ rbp' \in 0 .. StackTop /\ depth' \in 0 .. MaxDepth
    BY <1>3, <1>4, <1>5, <1>6, StackIsLargeEnough
  <2>2. memory' = [a \in 0 .. StackTop |-> memory'[a]]
    BY <1>7, <1>8
  <2>. QED
    BY <1>6, <1>10, <2>1, <2>2 DEF Stack, Typed
<1>19. Body(frames2)'
  <2>1. frames2[depth'] = frame /\ depth' > 0
    BY <1>3, <1>6, <1>17
  <2>2. frame.base = base /\ frame.method = method
    OBVIOUS
  <2>. HIDE DEF frame, base, method
  <2>. QED
    BY <1>6, <2>1, <2>2 DEF Body, Low
<1>20. At(frames2)'
  BY <1>19 DEF At
<1>21. \A k \in 1 .. depth : frames2[k] = frames[k]
  BY <1>17
<1>22. frames2[depth + 1] = [base |-> rsp - 1, method |-> pc.method]
  BY <1>17
<1>23. Stack(frames2)'
  BY <1>6, <1>17, <1>18, <1>20 DEF Stack
<1>24. ASSUME NEW i \in 1 .. method.arguments
       PROVE  memory'[base - i] = Incoming(i, base)
  <2>1. base - i \in 0 .. StackTop /\ base - i # base /\ base - (base - i) = i
    BY <1>4, <1>5
  <2>2. base - i \in {FieldAddress(base, j) : j \in 1 .. method.arguments}
    BY DEF FieldAddress
  <2>3. memory'[base - i] = Incoming(base - (base - i), base)
    BY <1>7, <1>8, <2>1, <2>2
  <2>. QED
    BY <2>1, <2>3
<1>. QED
  BY <1>14, <1>21, <1>22, <1>23, <1>24

LEMMA AssignStep ==
  ASSUME NEW frames, Stack(frames), NEW f \in Destinations, NEW value \in Results, Assign(f, value)
  PROVE  /\ Stack(frames)'
         /\ \A k \in 1 .. depth :
              Fields(frames[k], memory') = IF k = depth
                                           THEN [Fields(frames[k], memory) EXCEPT ![f] = value]
                                           ELSE Fields(frames[k], memory)
<1>1. Chain(frames, depth, memory) /\ At(frames)
  BY DEF Stack
<1>2. Body(frames)
  BY <1>1 DEF Assign, At, Entering, Back, AtEnd, Code
<1>3. /\ depth \in Nat /\ depth > 0 /\ depth =< MaxDepth
      /\ pc.method = frames[depth].method /\ rbp = frames[depth].base
  BY <1>2, StackIsLargeEnough DEF Stack, Typed, Body, Code
<1>4. f \in 1 .. FieldCount(frames[depth].method)
  BY <1>3 DEF Destinations
<1>5. /\ memory' = [a \in 0 .. StackTop |-> IF a = rbp - f THEN value ELSE memory[a]]
      /\ UNCHANGED <<rsp, rbp, registers, rax, pc, depth>>
  BY DEF Assign, Write, FieldAddress, Stack, Typed
<1>6. value.kind = "number"
  BY ResultsAssumption
<1>7. rbp - f \in 0 .. StackTop
  <2>1. /\ frames[depth].base \in Nat /\ Low(frames[depth]) \in Nat
        /\ Low(frames[depth]) + FieldCount(frames[depth].method) =< frames[depth].base
        /\ frames[depth].base + 2 =< StackTop
        /\ frames[depth].method \in Methods
    BY <1>1, <1>3, FrameFacts
  <2>2. FieldCount(frames[depth].method) \in Nat
    BY <2>1, MethodFacts
  <2>. QED
    BY <1>3, <1>4, <2>1, <2>2, StackTopAssumption
<1>8. /\ Chain(frames, depth, memory')
      /\ \A k \in 1 .. depth :
           Fields(frames[k], memory') = IF k = depth
                                        THEN [Fields(frames[k], memory) EXCEPT ![f] = value]
                                        ELSE Fields(frames[k], memory)
  <2>1. memory'[frames[depth].base - f] = value /\ value.kind = "number"
    BY <1>3, <1>5, <1>6, <1>7
  <2>2. \A a \in Nat : a =< StackTop /\ a # frames[depth].base - f => memory'[a] = memory[a]
    BY <1>3, <1>5, StackTopAssumption
  <2>. QED
    BY <1>1, <1>3, <1>4, <2>1, <2>2, WriteField, FieldIsWritten
<1>9. Typed'
  BY <1>5, <1>6 DEF Stack, Typed
<1>10. At(frames)'
  BY <1>2, <1>5 DEF At, Body
<1>. QED
  BY <1>5, <1>8, <1>9, <1>10 DEF Stack

LEMMA CleanUpStep ==
  ASSUME NEW frames, Stack(frames), CleanUp
  PROVE  /\ Stack(frames)'
         /\ \A k \in 1 .. depth :
              Fields(frames[k], memory') = IF k = depth
                                           THEN [Fields(frames[k], memory) EXCEPT ![pc.site.destination] = rax]
                                           ELSE Fields(frames[k], memory)
<1>1. Chain(frames, depth, memory) /\ At(frames)
  BY DEF Stack
<1>2. Back(frames)
  BY <1>1 DEF CleanUp, At, Entering, Body, AtEnd, Code
<1>3. /\ depth \in Nat /\ depth > 0 /\ depth =< MaxDepth /\ rbp = frames[depth].base
      /\ pc.method = frames[depth].method
  BY <1>2, StackIsLargeEnough DEF Stack, Typed, Back, Code
<1>4. PICK callee \in Methods :
        /\ IsSite(pc.site, frames[depth].method, callee)
        /\ rsp = Low(frames[depth]) - ExtraStackSize(callee.arguments)
  BY <1>2 DEF Back
<1>. DEFINE f == pc.site.destination
<1>5. f \in 1 .. FieldCount(frames[depth].method)
      /\ pc.site.extra_stack_size = ExtraStackSize(callee.arguments)
  BY <1>4 DEF IsSite, Site
<1>6. /\ memory' = [a \in 0 .. StackTop |-> IF a = rbp - f THEN rax ELSE memory[a]]
      /\ rsp' = rsp + ExtraStackSize(callee.arguments)
      /\ pc' = Code("running", pc.method, Runtime)
      /\ UNCHANGED <<rbp, registers, rax, depth>>
  BY <1>5 DEF CleanUp, Write, FieldAddress, Stack, Typed
<1>7. rax.kind = "number"
  BY DEF Stack, Typed
<1>8. /\ frames[depth].base \in Nat /\ Low(frames[depth]) \in Nat
      /\ Low(frames[depth]) + FieldCount(frames[depth].method) =< frames[depth].base
      /\ frames[depth].base + 2 =< StackTop
      /\ frames[depth].method \in Methods
      /\ Low(frames[depth]) =< frames[depth].base
  BY <1>1, <1>3, FrameFacts
<1>9. rbp - f \in 0 .. StackTop
  <2>1. FieldCount(frames[depth].method) \in Nat
    BY <1>8, MethodFacts
  <2>. QED
    BY <1>3, <1>5, <1>8, <2>1, StackTopAssumption
<1>10. /\ Chain(frames, depth, memory')
       /\ \A k \in 1 .. depth :
            Fields(frames[k], memory') = IF k = depth
                                         THEN [Fields(frames[k], memory) EXCEPT ![f] = rax]
                                         ELSE Fields(frames[k], memory)
  <2>1. memory'[frames[depth].base - f] = rax /\ rax.kind = "number"
    BY <1>3, <1>6, <1>7, <1>9
  <2>2. \A a \in Nat : a =< StackTop /\ a # frames[depth].base - f => memory'[a] = memory[a]
    BY <1>3, <1>6, StackTopAssumption
  <2>. QED
    BY <1>1, <1>3, <1>5, <2>1, <2>2, WriteField, FieldIsWritten
<1>11. rsp' = Low(frames[depth])
  <2>1. ExtraStackSize(callee.arguments) \in Nat
    BY MethodFacts
  <2>. QED
    BY <1>4, <1>6, <1>8, <2>1
<1>12. Typed'
  <2>1. rsp' \in 0 .. StackTop
    BY <1>8, <1>11, StackTopAssumption
  <2>. QED
    BY <1>6, <1>7, <2>1 DEF Stack, Typed
<1>13. Body(frames)'
  BY <1>3, <1>6, <1>11 DEF Body
<1>14. At(frames)'
  BY <1>13 DEF At
<1>. QED
  BY <1>6, <1>10, <1>12, <1>14 DEF Stack

LEMMA ReturnStep ==
  ASSUME NEW frames, Stack(frames), NEW result \in Results, Return(result)
  PROVE  Stack(frames)'
<1>1. Chain(frames, depth, memory) /\ At(frames)
  BY DEF Stack
<1>2. Body(frames)
  BY <1>1 DEF Return, At, Entering, Back, AtEnd, Code
<1>3. /\ depth \in Nat /\ depth > 0 /\ depth =< MaxDepth
      /\ rbp = frames[depth].base
  BY <1>2, StackIsLargeEnough DEF Stack, Typed, Body
<1>4. FrameAt(frames, depth, memory)
  BY <1>1, <1>3 DEF Chain
<1>5. /\ rbp \in Nat /\ rbp + 2 =< StackTop
  BY <1>3, <1>4 DEF FrameAt
<1>. DEFINE site == memory[rbp + 1].site
<1>6. /\ rax' = result
      /\ rbp' = memory[rbp].n
      /\ rsp' = rbp + 2
      /\ pc' = Code(IF site = Runtime THEN "ended" ELSE "returned", site.caller, site)
      /\ depth' = depth - 1
      /\ memory' = memory /\ registers' = registers
  BY DEF Return
<1>7. result.kind = "number"
  BY ResultsAssumption
<1>8. Chain(frames, depth', memory')
  BY <1>1, <1>3, <1>6, ChainPopped
<1>9. CASE depth = 1
  <2>1. /\ rbp = StackTop - 2 /\ memory[rbp] = Number(StackTop)
        /\ memory[rbp + 1] = ReturnTo(Runtime)
    BY <1>3, <1>4, <1>9 DEF FrameAt, IsOutermost
  <2>2. site = Runtime
    BY <2>1 DEF ReturnTo
  <2>3. rbp' = StackTop /\ rsp' = StackTop /\ pc'.at = "ended" /\ depth' = 0
    BY <1>5, <1>6, <1>9, <2>1, <2>2, StackTopAssumption DEF Number, Code
  <2>4. Typed'
    BY <1>6, <1>7, <2>3, StackIsLargeEnough, StackTopAssumption DEF Stack, Typed
  <2>5. At(frames)'
    BY <2>3 DEF At, AtEnd
  <2>. QED
    BY <1>8, <2>4, <2>5 DEF Stack
<1>10. CASE depth # 1
  <2>. DEFINE caller == frames[depth - 1]
              callee == frames[depth].method
  <2>1. /\ rbp + 2 = Low(caller) - ExtraStackSize(callee.arguments)
        /\ memory[rbp] = Number(caller.base)
        /\ IsSite(site, caller.method, callee)
    BY <1>3, <1>4, <1>10 DEF FrameAt, IsCalled
  <2>2. /\ caller.method \in Methods /\ caller.base \in Nat /\ caller.base + 2 =< StackTop
        /\ depth - 1 > 0 /\ depth - 1 \in 0 .. MaxDepth
    BY <1>1, <1>3, <1>10, FrameFacts, StackIsLargeEnough
  <2>3. callee \in Methods
    BY <1>4 DEF FrameAt
  <2>4. site # Runtime /\ site.caller = caller.method
    <3>1. FieldCount(caller.method) \in Nat
      BY <2>2, MethodFacts
    <3>2. site.destination >= 1
      BY <2>1, <3>1 DEF IsSite
    <3>3. Runtime.destination = 0
      BY DEF Runtime, Site
    <3>4. site.caller = caller.method
      BY <2>1 DEF IsSite, Site
    <3>. QED
      BY <3>2, <3>3, <3>4
  <2>5. /\ rbp' = caller.base
        /\ rsp' = Low(caller) - ExtraStackSize(callee.arguments)
        /\ pc' = Code("returned", caller.method, site)
    BY <1>6, <2>1, <2>4 DEF Number
  <2>6. Typed'
    <3>1. rsp' \in 0 .. StackTop
      BY <1>5, <1>6, StackTopAssumption
    <3>2. rbp' \in 0 .. StackTop
      BY <2>2, <2>5, StackTopAssumption
    <3>. QED
      BY <1>6, <1>7, <2>2, <3>1, <3>2 DEF Stack, Typed
  <2>7. Back(frames)'
    <3>1. pc'.site = site
      BY <2>5 DEF Code
    <3>2. frames[depth'] = caller
      BY <1>6
    <3>3. depth' > 0
      BY <1>6, <2>2
    <3>. HIDE DEF caller, callee, site
    <3>. QED
      BY <2>1, <2>3, <2>5, <3>1, <3>2, <3>3 DEF Back
  <2>8. At(frames)'
    BY <2>7 DEF At
  <2>. QED
    BY <1>8, <2>6, <2>8 DEF Stack
<1>. QED
  BY <1>9, <1>10

LEMMA CallPasses ==
  ASSUME NEW frames, Stack(frames), NEW callee \in Methods, NEW destination \in Destinations,
         Call(callee, destination)
  PROVE  Passing'
<1>. DEFINE extra == ExtraStackSize(callee.arguments)
            low == rsp - extra
            stack_arguments == RegisterCount + 1 .. callee.arguments
<1>1. /\ registers' = [i \in 1 .. RegisterCount |->
                         IF i =< callee.arguments THEN Operand(i) ELSE registers[i]]
      /\ rsp' = low - 1
      /\ pc' = Code("entering", callee, Runtime)
      /\ passed' = [i \in 1 .. callee.arguments |-> Operand(i)]
      /\ memory' = [a \in DOMAIN memory |->
           IF a \in {StackArgument(i, callee.arguments, low) : i \in stack_arguments} \cup {low - 1}
           THEN IF a = low - 1 THEN ReturnTo(Site(pc.method, extra, destination))
                ELSE Operand(CHOOSE i \in stack_arguments :
                               StackArgument(i, callee.arguments, low) = a)
           ELSE memory[a]]
  BY DEF Call, Write
<1>2. /\ extra \in Nat /\ callee.arguments \in Nat /\ callee.arguments - RegisterCount =< extra
      /\ rsp \in Nat /\ rsp =< StackTop /\ StackTop \in Nat
      /\ rsp' \in 0 .. StackTop
      /\ DOMAIN memory = 0 .. StackTop
  <2>1. Typed /\ Typed'
    BY CallStep DEF Stack
  <2>. QED
    BY <2>1, MethodFacts, StackTopAssumption DEF Typed
<1>3. pc'.at = "entering" /\ pc'.method = callee
  BY <1>1 DEF Code
<1>4. ASSUME NEW i \in 1 .. callee.arguments
      PROVE  Operand(i) = Incoming(i, rsp - 1)'
  <2>1. CASE i =< RegisterCount
    <3>1. registers'[i] = Operand(i)
      BY <1>1, <2>1 DEF RegisterCount
    <3>. QED
      BY <2>1, <3>1 DEF Incoming
  <2>2. CASE ~(i =< RegisterCount)
    <3>. DEFINE a == StackArgument(i, callee.arguments, low)
    <3>1. i \in stack_arguments /\ a = low + (i - RegisterCount) - 1 /\ i \in Nat
      BY <1>2, <2>2 DEF StackArgument, RegisterCount
    <3>2. a \in 0 .. StackTop /\ a # low - 1
      BY <1>1, <1>2, <3>1, SMTT(30) DEF RegisterCount
    <3>3. ASSUME NEW j \in stack_arguments, StackArgument(j, callee.arguments, low) = a
          PROVE  j = i
      BY <1>2, <3>1, <3>3 DEF StackArgument, RegisterCount
    <3>4. (CHOOSE j \in stack_arguments : StackArgument(j, callee.arguments, low) = a) = i
      BY <3>1, <3>3
    <3>5. memory'[a] = Operand(i)
      BY <1>1, <1>2, <3>1, <3>2, <3>4
    <3>6. (rsp' - 1) + (i - RegisterCount - 1) + 2 = a
      BY <1>1, <1>2, <3>1, SMTT(30) DEF RegisterCount
    <3>. HIDE DEF a, low
    <3>. QED
      BY <2>2, <3>5, <3>6 DEF Incoming
  <2>. QED
    BY <2>1, <2>2
<1>. HIDE DEF low, extra, stack_arguments
<1>. QED
  BY <1>1, <1>3, <1>4 DEF Passing

LEMMA NextIInv == IInv /\ [Next]_vars => IInv'
<1>. SUFFICES ASSUME IInv, [Next]_vars
              PROVE  IInv'
  OBVIOUS
<1>. PICK frames : Stack(frames)
  BY DEF IInv
<1>1. ASSUME NEW callee \in Methods, NEW destination \in Destinations, Call(callee, destination)
      PROVE  IInv'
  BY <1>1, CallStep, CallPasses DEF IInv
<1>2. CASE Enter
  <2>1. Passing'
    BY <1>2 DEF Enter, Passing, Code
  <2>2. \E frames2 : Stack(frames2)'
    BY <1>2, EnterStep
  <2>. QED
    BY <2>1, <2>2 DEF IInv
<1>3. ASSUME NEW f \in Destinations, NEW value \in Results, Assign(f, value)
      PROVE  IInv'
  <2>1. Passing'
    BY <1>3 DEF Assign, Passing
  <2>. QED
    BY <1>3, <2>1, AssignStep DEF IInv
<1>4. ASSUME NEW result \in Results, Return(result)
      PROVE  IInv'
  <2>1. Passing'
    BY <1>4 DEF Return, Passing, Code
  <2>. QED
    BY <1>4, <2>1, ReturnStep DEF IInv
<1>5. CASE CleanUp
  <2>1. Passing'
    BY <1>5 DEF CleanUp, Passing, Code
  <2>. QED
    BY <1>5, <2>1, CleanUpStep DEF IInv
<1>6. CASE UNCHANGED vars
  <2>1. Passing'
    BY <1>6 DEF Passing, Incoming, IInv, vars
  <2>2. Stack(frames)'
    BY <1>6 DEF Stack, Typed, At, Entering, Body, Back, AtEnd, vars
  <2>. QED
    BY <2>1, <2>2 DEF IInv
<1>. QED
  BY <1>1, <1>2, <1>3, <1>4, <1>5, <1>6 DEF Next, Ended

-----------------------------------------------------------------------------
(* The theorems *)

\* The chain of frames is in memory in every reachable state.
THEOREM Invariance == Spec => []IInv
BY InitIInv, NextIInv, PTL DEF Spec

LEMMA Facts ==
  ASSUME IInv
  PROVE  TypeOK /\ CallsAreAligned /\ StackIsBalanced
<1>1. PICK frames : Stack(frames) /\ Chain(frames, depth, memory) /\ At(frames)
  BY DEF IInv, Stack
<1>2. depth \in Nat /\ depth =< MaxDepth /\ rsp \in Nat /\ rbp \in Nat
  BY <1>1, StackIsLargeEnough, StackTopAssumption DEF Stack, Typed
<1>3. ASSUME depth > 0
      PROVE  /\ frames[depth].method \in Methods
             /\ frames[depth].base \in Nat
             /\ Low(frames[depth]) \in Nat /\ Low(frames[depth]) % 2 = 0
             /\ Low(frames[depth]) + FieldCount(frames[depth].method) =< frames[depth].base
  BY <1>1, <1>2, <1>3, FrameFacts
<1>4. CASE Entering(frames)
  <2>1. pc.at = "entering" /\ pc.method \in Methods
    BY <1>4 DEF Entering, Code
  <2>2. (rsp + 1) % 2 = 0
    <3>1. CASE depth = 0
      BY <1>4, <3>1, StackTopAssumption DEF Entering
    <3>2. CASE depth # 0
      <4>1. /\ ExtraStackSize(pc.method.arguments) \in Nat
            /\ ExtraStackSize(pc.method.arguments) % 2 = 0
        BY <2>1, MethodFacts
      <4>2. rsp = Low(frames[depth]) - ExtraStackSize(pc.method.arguments) - 1
        BY <1>4, <3>2 DEF Entering
      <4>. QED
        BY <1>2, <1>3, <3>2, <4>1, <4>2
    <3>. QED
      BY <3>1, <3>2
  <2>. QED
    BY <1>1, <2>1, <2>2 DEF Stack, Typed, TypeOK, CallsAreAligned, StackIsBalanced
<1>5. CASE Body(frames)
  <2>1. /\ pc.at = "running" /\ pc.method = frames[depth].method
        /\ rbp = frames[depth].base /\ rsp = Low(frames[depth]) /\ depth > 0
    BY <1>5 DEF Body, Code
  <2>2. rsp % 2 = 0 /\ rsp + FieldCount(pc.method) =< rbp
    BY <1>3, <2>1
  <2>3. rsp = rbp - FrameSize(pc.method)
    BY <2>1 DEF Low
  <2>. QED
    BY <1>1, <2>1, <2>2, <2>3 DEF Stack, Typed, TypeOK, CallsAreAligned, StackIsBalanced
<1>6. CASE Back(frames)
  BY <1>1, <1>6 DEF Back, Code, Stack, Typed, TypeOK, CallsAreAligned, StackIsBalanced
<1>7. CASE AtEnd
  BY <1>1, <1>7 DEF AtEnd, Stack, Typed, TypeOK, CallsAreAligned, StackIsBalanced
<1>. QED
  BY <1>1, <1>4, <1>5, <1>6, <1>7 DEF At

\* Every variable keeps its type: rsp and rbp stay in the stack, the registers that
\* pass arguments and results hold numbers, and a running method's fields lie above rsp.
THEOREM TypeCorrect == Spec => []TypeOK
<1>1. IInv => TypeOK
  BY Facts
<1>. QED
  BY <1>1, Invariance, PTL

\* At every call instruction rsp is a multiple of 16 bytes, whatever the number of
\* arguments and fields of the methods active.
THEOREM CallsStayAligned == Spec => []CallsAreAligned
<1>1. IInv => CallsAreAligned
  BY Facts
<1>. QED
  BY <1>1, Invariance, PTL

\* The code that generate_method_call prints after the call gives back exactly what
\* the code before it reserved, and main gives the stack back to the runtime.
THEOREM StackStaysBalanced == Spec => []StackIsBalanced
<1>1. IInv => StackIsBalanced
  BY Facts
<1>. QED
  BY <1>1, Invariance, PTL

-----------------------------------------------------------------------------
(* The refinement *)

\* A set of numbers has a least one.
LEMMA LeastElement ==
  ASSUME NEW S \in SUBSET Nat, NEW e \in S
  PROVE  \E d \in S : \A c \in S : d =< c
<1>1. PICK d \in S : \A c \in S : <<c, d>> \notin OpToRel(<, Nat)
  BY WFMin, NatLessThanWellFounded, Zenon
<1>2. \A c \in S : ~ c < d
  BY <1>1, Zenon DEF OpToRel
<1>. QED
  BY <1>2

\* The frame of the method that the one of the given frame returns to, and the frame
\* of the running one, as Frames takes them from memory.
OuterFrame(frame) ==
  [base |-> memory[frame.base].n, method |-> memory[frame.base + 1].site.caller]
InnermostFrame ==
  IF pc.at = "entering" THEN [base |-> rbp, method |-> memory[rsp].site.caller]
  ELSE [base |-> rbp, method |-> pc.method]

IsFrames(f) ==
  f = [k \in 1 .. depth |-> IF k = 1 THEN InnermostFrame ELSE OuterFrame(f[k - 1])]

LEMMA FramesIsChosen == Frames = CHOOSE f : IsFrames(f)
BY DEF Frames, IsFrames, InnermostFrame, OuterFrame

\* The frames of the chain, the innermost first.
Upwards(frames, d) ==
  [k \in 1 .. d |-> [base |-> frames[d - k + 1].base, method |-> frames[d - k + 1].method]]

LEMMA UpwardsIsFrames ==
  ASSUME NEW frames, Stack(frames)
  PROVE  IsFrames(Upwards(frames, depth))
<1>. DEFINE f == Upwards(frames, depth)
<1>1. depth \in Nat /\ depth =< MaxDepth /\ Chain(frames, depth, memory) /\ At(frames)
  BY StackIsLargeEnough DEF Stack, Typed
<1>2. \A k \in 1 .. depth : f[k] = [base |-> frames[depth - k + 1].base,
                                   method |-> frames[depth - k + 1].method]
  BY DEF Upwards
<1>3. ASSUME depth > 0
      PROVE  f[1] = InnermostFrame
  <2>1. f[1] = [base |-> frames[depth].base, method |-> frames[depth].method]
    <3>1. 1 \in 1 .. depth /\ depth - 1 + 1 = depth
      BY <1>1, <1>3
    <3>. HIDE DEF f
    <3>. QED
      BY <1>2, <3>1
  <2>2. CASE Entering(frames)
    <3>1. pc.at = "entering" /\ rbp = frames[depth].base
          /\ memory[rsp].site.caller = frames[depth].method
      BY <1>3, <2>2 DEF Entering, Code, IsSite, Site
    <3>. QED
      BY <2>1, <3>1 DEF InnermostFrame
  <2>3. CASE Body(frames)
    BY <2>1, <2>3 DEF Body, Code, InnermostFrame
  <2>4. CASE Back(frames)
    BY <2>1, <2>4 DEF Back, Code, InnermostFrame
  <2>. QED
    BY <1>1, <1>3, <2>2, <2>3, <2>4 DEF At, AtEnd
<1>4. ASSUME NEW k \in 1 .. depth, k # 1
      PROVE  f[k] = OuterFrame(f[k - 1])
  <2>. DEFINE i == depth - k + 2
  <2>1. i \in 1 .. depth /\ i # 1 /\ depth - (k - 1) + 1 = i /\ depth - k + 1 = i - 1
        /\ k - 1 \in 1 .. depth
    BY <1>1, <1>4
  <2>. HIDE DEF i, f
  <2>2. /\ f[k] = [base |-> frames[i - 1].base, method |-> frames[i - 1].method]
        /\ f[k - 1] = [base |-> frames[i].base, method |-> frames[i].method]
    BY <1>2, <2>1
  <2>3. IsCalled(frames[i], frames[i - 1], memory)
    BY <1>1, <2>1 DEF Chain, FrameAt
  <2>. QED
    BY <2>2, <2>3 DEF OuterFrame, IsCalled, Number, IsSite, Site
<1>5. f = [k \in 1 .. depth |-> f[k]]
  BY DEF Upwards
<1>. HIDE DEF f
<1>6. \A k \in 1 .. depth : f[k] = IF k = 1 THEN InnermostFrame ELSE OuterFrame(f[k - 1])
  BY <1>1, <1>3, <1>4
<1>7. f = [k \in 1 .. depth |-> IF k = 1 THEN InnermostFrame ELSE OuterFrame(f[k - 1])]
  BY <1>5, <1>6
<1>8. IsFrames(f)
  BY <1>7 DEF IsFrames
<1>. QED
  BY <1>8 DEF f

\* Two functions that follow the saved rbp agree: a least position where they differ
\* would have a predecessor where they do too.
LEMMA FramesAreUnique ==
  ASSUME NEW f, NEW g, IsFrames(f), IsFrames(g), depth \in Nat
  PROVE  f = g
<1>1. /\ f = [k \in 1 .. depth |-> f[k]] /\ g = [k \in 1 .. depth |-> g[k]]
      /\ \A k \in 1 .. depth : f[k] = IF k = 1 THEN InnermostFrame ELSE OuterFrame(f[k - 1])
      /\ \A k \in 1 .. depth : g[k] = IF k = 1 THEN InnermostFrame ELSE OuterFrame(g[k - 1])
  BY DEF IsFrames
<1>2. ASSUME NEW e \in 1 .. depth, f[e] # g[e]
      PROVE  FALSE
  <2>. DEFINE S == {k \in Nat : k \in 1 .. depth /\ f[k] # g[k]}
  <2>1. S \in SUBSET Nat /\ e \in S
    BY <1>2
  <2>2. PICK d \in S : \A c \in S : d =< c
    BY <2>1, LeastElement, Zenon
  <2>3. d \in Nat /\ d \in 1 .. depth /\ f[d] # g[d]
    BY <2>2
  <2>4. d # 1
    BY <1>1, <2>3
  <2>5. d - 1 \in Nat /\ d - 1 \in 1 .. depth
    BY <2>3, <2>4
  <2>6. f[d - 1] = g[d - 1]
    <3>1. d - 1 \notin S
      BY <2>2, <2>3
    <3>. QED
      BY <2>5, <3>1
  <2>. QED
    BY <1>1, <2>3, <2>4, <2>6
<1>. QED
  BY <1>1, <1>2

LEMMA FramesFollowTheChain ==
  ASSUME NEW frames, Stack(frames)
  PROVE  Frames = Upwards(frames, depth)
<1>1. IsFrames(Upwards(frames, depth))
  BY UpwardsIsFrames
<1>2. IsFrames(Frames)
  BY <1>1, FramesIsChosen
<1>3. depth \in Nat
  BY StackIsLargeEnough DEF Stack, Typed
<1>. QED
  BY <1>1, <1>2, <1>3, FramesAreUnique

LEMMA MappedNow ==
  \A frames : Stack(frames) =>
    MappedActivations = [k \in 1 .. depth |-> Settled(depth - k + 1, Fields(frames[k], memory))]
<1>. SUFFICES ASSUME NEW frames, Stack(frames)
              PROVE  MappedActivations
                       = [k \in 1 .. depth |-> Settled(depth - k + 1, Fields(frames[k], memory))]
  OBVIOUS
<1>1. depth \in Nat
  BY StackIsLargeEnough DEF Stack, Typed
<1>2. MappedActivations
        = [k \in 1 .. depth |-> Settled(depth - k + 1, FieldsOf(Frames[depth - k + 1]))]
  BY DEF MappedActivations
<1>3. ASSUME NEW k \in 1 .. depth
      PROVE  FieldsOf(Frames[depth - k + 1]) = Fields(frames[k], memory)
  <2>1. depth - k + 1 \in 1 .. depth /\ depth - (depth - k + 1) + 1 = k
    BY <1>1
  <2>2. Frames[depth - k + 1] = [base |-> frames[k].base, method |-> frames[k].method]
    <3>1. ASSUME NEW i \in 1 .. depth
          PROVE  Upwards(frames, depth)[i] = [base |-> frames[depth - i + 1].base,
                                              method |-> frames[depth - i + 1].method]
      BY DEF Upwards
    <3>2. Frames = Upwards(frames, depth)
      BY FramesFollowTheChain
    <3>. QED
      BY <2>1, <3>1, <3>2
  <2>. QED
    BY <2>2 DEF FieldsOf, Fields, FieldAddress
<1>. QED
  BY <1>2, <1>3

LEMMA MappedNext ==
  (\A frames : Stack(frames) =>
     MappedActivations = [k \in 1 .. depth |-> Settled(depth - k + 1, Fields(frames[k], memory))])'
BY MappedNow, PTL

\* No result is under way but between a return and its store.
LEMMA PlainNow ==
  \A frames : Stack(frames) /\ pc.at # "returned" =>
    MappedActivations = [k \in 1 .. depth |-> Fields(frames[k], memory)]
BY MappedNow DEF Settled

LEMMA PlainNext ==
  (\A frames : Stack(frames) /\ pc.at # "returned" =>
     MappedActivations = [k \in 1 .. depth |-> Fields(frames[k], memory)])'
BY PlainNow, PTL

LEMMA ReturningNow ==
  \A frames : Stack(frames) /\ pc.at = "returned" =>
    MappedActivations
      = [k \in 1 .. depth |->
           IF k = depth THEN [Fields(frames[k], memory) EXCEPT ![pc.site.destination] = rax]
           ELSE Fields(frames[k], memory)]
<1>. SUFFICES ASSUME NEW frames, Stack(frames), pc.at = "returned"
              PROVE  MappedActivations
                       = [k \in 1 .. depth |->
                            IF k = depth
                            THEN [Fields(frames[k], memory) EXCEPT ![pc.site.destination] = rax]
                            ELSE Fields(frames[k], memory)]
  OBVIOUS
<1>1. depth \in Nat
  BY StackIsLargeEnough DEF Stack, Typed
<1>2. \A k \in 1 .. depth : depth - k + 1 = 1 <=> k = depth
  BY <1>1
<1>. QED
  BY <1>2, MappedNow DEF Settled

LEMMA ReturningNext ==
  (\A frames : Stack(frames) /\ pc.at = "returned" =>
     MappedActivations
       = [k \in 1 .. depth |->
            IF k = depth THEN [Fields(frames[k], memory) EXCEPT ![pc.site.destination] = rax]
            ELSE Fields(frames[k], memory)])'
BY ReturningNow, PTL

\* A function on 1 .. n is a sequence of length n, and its prefixes are restrictions.
LEMMA SequenceFacts ==
  ASSUME NEW n \in Nat, NEW s, s = [i \in 1 .. n |-> s[i]]
  PROVE  /\ Len(s) = n
         /\ \A m \in 0 .. n : SubSeq(s, 1, m) = [i \in 1 .. m |-> s[i]]
<1>. DEFINE S == {s[i] : i \in 1 .. n}
<1>1. s \in [1 .. n -> S]
  OBVIOUS
<1>. HIDE DEF S
<1>2. s \in Seq(S) /\ Len(s) = n
  BY <1>1
<1>3. ASSUME NEW m \in 0 .. n
      PROVE  SubSeq(s, 1, m) = [i \in 1 .. m |-> s[i]]
  BY <1>2
<1>. QED
  BY <1>2, <1>3

LEMMA InitRefines == Init => A!Init
<1>. SUFFICES ASSUME Init
              PROVE  A!Init
  OBVIOUS
<1>1. IInv
  BY InitIInv
<1>2. PICK frames : Stack(frames)
  BY <1>1 DEF IInv
<1>3. depth = 0 /\ pc.at = "entering" /\ passed = <<>>
  BY DEF Init, Code
<1>4. MappedActivations = [k \in 1 .. 0 |-> Fields(frames[k], memory)]
  BY <1>2, <1>3, PlainNow
<1>5. MappedActivations = <<>>
  BY <1>4
<1>. QED
  BY <1>3, <1>5 DEF A!Init

LEMMA CallRefines ==
  ASSUME NEW frames, Stack(frames), NEW callee \in Methods, NEW destination \in Destinations,
         Call(callee, destination)
  PROVE  A!Call
<1>1. Stack(frames)' /\ FieldsKept(frames, depth, memory, memory')
  BY CallStep
<1>2. pc.at = "running" /\ pc'.at = "entering" /\ depth' = depth
  BY DEF Call, Code
<1>3. MappedActivations = [k \in 1 .. depth |-> Fields(frames[k], memory)]
  BY <1>2, PlainNow
<1>4. MappedActivations' = [k \in 1 .. depth |-> Fields(frames[k], memory')]
  BY <1>1, <1>2, PlainNext
<1>5. MappedActivations' = MappedActivations
  BY <1>1, <1>3, <1>4 DEF FieldsKept
<1>. QED
  BY <1>2, <1>5 DEF A!Call

LEMMA EnterRefines ==
  ASSUME NEW frames, Stack(frames), Passing, Enter
  PROVE  A!Enter
<1>1. PICK frames2 : /\ \A k \in 1 .. depth : frames2[k] = frames[k]
                     /\ frames2[depth + 1] = [base |-> rsp - 1, method |-> pc.method]
                     /\ Stack(frames2)'
  BY EnterStep
<1>2. /\ FieldsKept(frames, depth, memory, memory')
      /\ \A i \in 1 .. pc.method.arguments : memory'[rsp - 1 - i] = Incoming(i, rsp - 1)
  BY EnterStep
<1>3. /\ pc.at = "entering" /\ pc'.at = "running" /\ depth' = depth + 1
      /\ depth \in Nat /\ pc.method \in Methods
  <2>1. At(frames) /\ pc.at = "entering"
    BY DEF Stack, Enter
  <2>2. Entering(frames)
    BY <2>1 DEF At, Body, Back, AtEnd, Code
  <2>. QED
    BY <2>1, <2>2, StackIsLargeEnough DEF Enter, Stack, Typed, Entering, Code
<1>. DEFINE old == MappedActivations
<1>4. old = [k \in 1 .. depth |-> Fields(frames[k], memory)]
  BY <1>3, PlainNow
<1>5. PICK new : /\ new = MappedActivations'
                 /\ new = [k \in 1 .. depth + 1 |-> Fields(frames2[k], memory')]
  BY <1>1, <1>3, PlainNext
<1>. HIDE DEF old
<1>6. Len(old) = depth
  BY <1>3, <1>4, SequenceFacts
<1>7. /\ Len(new) = depth + 1
      /\ SubSeq(new, 1, depth) = [i \in 1 .. depth |-> new[i]]
  <2>1. depth + 1 \in Nat /\ depth \in 0 .. depth + 1 /\ new = [k \in 1 .. depth + 1 |-> new[k]]
    BY <1>3, <1>5
  <2>. QED
    BY <2>1, SequenceFacts
<1>8. SubSeq(new, 1, depth) = old
  <2>1. \A k \in 1 .. depth : new[k] = Fields(frames[k], memory)
    BY <1>1, <1>2, <1>3, <1>5 DEF FieldsKept
  <2>. QED
    BY <1>4, <1>7, <2>1
<1>9. SubSeq(new[depth + 1], 1, Len(passed)) = passed
  <2>. DEFINE m == pc.method
              fields == new[depth + 1]
  <2>1. m.arguments \in Nat /\ FieldCount(m) \in Nat /\ m.arguments =< FieldCount(m)
    BY <1>3, MethodFacts
  <2>2. passed = [i \in 1 .. m.arguments |-> Incoming(i, rsp - 1)]
    BY <1>3 DEF Passing
  <2>3. fields = [f \in 1 .. FieldCount(m) |-> memory'[rsp - 1 - f]]
    <3>1. depth + 1 \in 1 .. depth + 1
      BY <1>3
    <3>2. fields = Fields(frames2[depth + 1], memory')
      BY <1>5, <3>1
    <3>3. frames2[depth + 1].base = rsp - 1 /\ frames2[depth + 1].method = m
      BY <1>1
    <3>. QED
      BY <3>2, <3>3 DEF Fields
  <2>. HIDE DEF m, fields
  <2>4. Len(passed) = m.arguments
    BY <2>1, <2>2, SequenceFacts
  <2>5. SubSeq(fields, 1, m.arguments) = [i \in 1 .. m.arguments |-> fields[i]]
    BY <2>1, <2>3, SequenceFacts
  <2>6. \A i \in 1 .. m.arguments : fields[i] = Incoming(i, rsp - 1)
    BY <1>2, <2>1, <2>3 DEF m
  <2>. QED
    BY <2>2, <2>4, <2>5, <2>6 DEF fields
<1>. QED
  BY <1>3, <1>5, <1>6, <1>7, <1>8, <1>9 DEF A!Enter, A!Depth, old

LEMMA AssignRefines ==
  ASSUME NEW frames, Stack(frames), NEW f \in Destinations, NEW value \in Results,
         Assign(f, value)
  PROVE  A!Assign
<1>1. /\ Stack(frames)'
      /\ \A k \in 1 .. depth :
           Fields(frames[k], memory') = IF k = depth
                                        THEN [Fields(frames[k], memory) EXCEPT ![f] = value]
                                        ELSE Fields(frames[k], memory)
  BY AssignStep
<1>2. pc.at = "running" /\ pc' = pc /\ depth' = depth
  BY DEF Assign
<1>3. /\ depth \in Nat /\ depth > 0 /\ pc.method = frames[depth].method
      /\ f \in 1 .. FieldCount(frames[depth].method)
      /\ FieldCount(frames[depth].method) \in Nat
  <2>1. Body(frames)
    BY <1>2 DEF Stack, At, Entering, Back, AtEnd, Code
  <2>2. Chain(frames, depth, memory) /\ depth \in Nat /\ depth =< MaxDepth
    BY StackIsLargeEnough DEF Stack, Typed
  <2>3. depth > 0 /\ pc.method = frames[depth].method
    BY <2>1 DEF Body, Code
  <2>4. frames[depth].method \in Methods
    BY <2>2, <2>3, FrameFacts
  <2>. QED
    BY <2>2, <2>3, <2>4, MethodFacts DEF Destinations
<1>4. PICK old : /\ old = MappedActivations
                 /\ old = [k \in 1 .. depth |-> Fields(frames[k], memory)]
  BY <1>2, PlainNow
<1>5. PICK new : /\ new = MappedActivations'
                 /\ new = [k \in 1 .. depth |-> Fields(frames[k], memory')]
  BY <1>1, <1>2, PlainNext
<1>6. Len(old) = depth /\ Len(new) = depth
  BY <1>3, <1>4, <1>5, SequenceFacts
<1>7. Len(old[depth]) = FieldCount(frames[depth].method)
  <2>1. old[depth] = [g \in 1 .. FieldCount(frames[depth].method) |-> memory[frames[depth].base - g]]
    BY <1>3, <1>4 DEF Fields
  <2>. QED
    BY <1>3, <2>1, SequenceFacts
<1>8. new[depth] = [old[depth] EXCEPT ![f] = new[depth][f]]
  <2>1. old[depth] = Fields(frames[depth], memory)
        /\ new[depth] = [Fields(frames[depth], memory) EXCEPT ![f] = value]
    BY <1>1, <1>3, <1>4, <1>5
  <2>2. f \in DOMAIN Fields(frames[depth], memory)
    BY <1>3 DEF Fields
  <2>3. new[depth][f] = value
    BY <2>1, <2>2
  <2>. QED
    BY <2>1, <2>3
<1>9. new = [old EXCEPT ![depth][f] = new[depth][f]]
  <2>1. \A k \in 1 .. depth : k # depth => new[k] = old[k]
    BY <1>1, <1>4, <1>5
  <2>2. new = [k \in 1 .. depth |-> new[k]] /\ old = [k \in 1 .. depth |-> old[k]]
    BY <1>4, <1>5
  <2>3. PICK v : v = new[depth][f]
    OBVIOUS
  <2>4. [old EXCEPT ![depth][f] = v] = [old EXCEPT ![depth] = [old[depth] EXCEPT ![f] = v]]
    OBVIOUS
  <2>5. new = [old EXCEPT ![depth] = [old[depth] EXCEPT ![f] = v]]
    BY <1>3, <1>8, <2>1, <2>2, <2>3
  <2>. QED
    BY <2>3, <2>4, <2>5
<1>. QED
  BY <1>2, <1>3, <1>4, <1>5, <1>6, <1>7, <1>9 DEF A!Assign, A!Depth, A!Running

LEMMA CleanUpRefines ==
  ASSUME NEW frames, Stack(frames), CleanUp
  PROVE  A!Resume
<1>1. /\ Stack(frames)'
      /\ \A k \in 1 .. depth :
           Fields(frames[k], memory') = IF k = depth
                                        THEN [Fields(frames[k], memory)
                                                EXCEPT ![pc.site.destination] = rax]
                                        ELSE Fields(frames[k], memory)
  BY CleanUpStep
<1>2. pc.at = "returned" /\ pc'.at = "running" /\ depth' = depth
  BY DEF CleanUp, Code
<1>3. MappedActivations
        = [k \in 1 .. depth |->
             IF k = depth THEN [Fields(frames[k], memory) EXCEPT ![pc.site.destination] = rax]
             ELSE Fields(frames[k], memory)]
  BY <1>2, ReturningNow
<1>4. MappedActivations' = [k \in 1 .. depth |-> Fields(frames[k], memory')]
  BY <1>1, <1>2, PlainNext
<1>5. MappedActivations' = MappedActivations
  BY <1>1, <1>3, <1>4
<1>. QED
  BY <1>2, <1>5 DEF A!Resume

LEMMA ReturnRefines ==
  ASSUME NEW frames, Stack(frames), NEW result \in Results, Return(result)
  PROVE  A!Return \/ A!ReturnFromMain
<1>1. Stack(frames)'
  BY ReturnStep
<1>2. /\ pc.at = "running" /\ depth' = depth - 1 /\ memory' = memory
      /\ pc'.at \in {"ended", "returned"}
  BY DEF Return, Code
<1>3. /\ depth \in Nat /\ depth > 0
  <2>1. Body(frames)
    BY <1>2 DEF Stack, At, Entering, Back, AtEnd, Code
  <2>. QED
    BY <2>1, StackIsLargeEnough DEF Body, Stack, Typed
<1>4. PICK old : /\ old = MappedActivations
                 /\ old = [k \in 1 .. depth |-> Fields(frames[k], memory)]
  BY <1>2, PlainNow
<1>5. Len(old) = depth
  BY <1>3, <1>4, SequenceFacts
<1>6. CASE pc'.at = "ended"
  <2>1. depth' = 0
    BY <1>1, <1>6 DEF Stack, At, Entering, Body, Back, AtEnd, Code
  <2>2. MappedActivations' = [k \in 1 .. 0 |-> Fields(frames[k], memory')]
    BY <1>1, <1>6, <2>1, PlainNext
  <2>3. MappedActivations' = <<>>
    BY <2>2
  <2>4. Len(old) = 1
    BY <1>2, <1>3, <1>5, <2>1
  <2>. QED
    BY <1>2, <1>4, <1>6, <2>3, <2>4 DEF A!ReturnFromMain, A!Depth
<1>7. CASE pc'.at = "returned"
  <2>. DEFINE destination == pc'.site.destination
  <2>1. depth' > 0
    BY <1>1, <1>7 DEF Stack, At, Entering, Body, Back, AtEnd, Code
  <2>2. depth > 1 /\ depth - 1 \in 0 .. depth
    BY <1>2, <1>3, <2>1
  <2>3. MappedActivations'
          = [k \in 1 .. depth - 1 |->
               IF k = depth - 1 THEN [Fields(frames[k], memory) EXCEPT ![destination] = rax']
               ELSE Fields(frames[k], memory)]
    BY <1>1, <1>2, <1>7, ReturningNext
  <2>4. SubSeq(old, 1, depth - 1) = [k \in 1 .. depth - 1 |-> Fields(frames[k], memory)]
    <3>1. SubSeq(old, 1, depth - 1) = [k \in 1 .. depth - 1 |-> old[k]]
      BY <1>3, <1>4, <2>2, SequenceFacts
    <3>2. \A k \in 1 .. depth - 1 : old[k] = Fields(frames[k], memory)
      BY <1>3, <1>4
    <3>. QED
      BY <3>1, <3>2
  <2>. HIDE DEF destination
  <2>5. MappedActivations' = [SubSeq(old, 1, depth - 1) EXCEPT ![depth - 1][destination] = rax']
    <3>1. PICK r : r = rax'
      OBVIOUS
    <3>2. PICK t : /\ t = SubSeq(old, 1, depth - 1)
                   /\ t = [k \in 1 .. depth - 1 |-> Fields(frames[k], memory)]
      BY <2>4
    <3>3. [t EXCEPT ![depth - 1][destination] = r]
            = [t EXCEPT ![depth - 1] = [t[depth - 1] EXCEPT ![destination] = r]]
      OBVIOUS
    <3>4. MappedActivations'
            = [t EXCEPT ![depth - 1] = [t[depth - 1] EXCEPT ![destination] = r]]
      BY <2>2, <2>3, <3>1, <3>2
    <3>. QED
      BY <3>1, <3>2, <3>3, <3>4
  <2>. QED
    BY <1>2, <1>4, <1>5, <1>7, <2>2, <2>5 DEF A!Return, A!Depth, destination
<1>. QED
  BY <1>2, <1>6, <1>7

LEMMA NextRefines == IInv /\ [Next]_vars => [A!Next]_(A!vars)
<1>. SUFFICES ASSUME IInv, [Next]_vars
              PROVE  [A!Next]_(A!vars)
  OBVIOUS
<1>. PICK frames : Stack(frames)
  BY DEF IInv
<1>1. ASSUME NEW callee \in Methods, NEW destination \in Destinations, Call(callee, destination)
      PROVE  A!Next
  BY <1>1, CallRefines DEF A!Next
<1>2. CASE Enter
  BY <1>2, EnterRefines DEF IInv, A!Next
<1>3. ASSUME NEW f \in Destinations, NEW value \in Results, Assign(f, value)
      PROVE  A!Next
  BY <1>3, AssignRefines DEF A!Next
<1>4. ASSUME NEW result \in Results, Return(result)
      PROVE  A!Next
  BY <1>4, ReturnRefines DEF A!Next
<1>5. CASE CleanUp
  BY <1>5, CleanUpRefines DEF A!Next
<1>6. CASE UNCHANGED vars
  <2>1. MappedActivations' = MappedActivations
    BY <1>6 DEF vars, MappedActivations, Settled, FieldsOf, FieldAddress, Frames
  <2>. QED
    BY <1>6, <2>1 DEF vars, A!vars
<1>. QED
  BY <1>1, <1>2, <1>3, <1>4, <1>5, <1>6 DEF Next, Ended

\* The printed code implements calls: a callee's first fields are the arguments it was
\* passed, in order, nobody but a method itself changes its fields, through calls of
\* any depth, and the result arrives in the field that the call names.
THEOREM RefinesActivations == Spec => ImplementsActivations
<1>1. Init => A!Init
  BY InitRefines
<1>2. IInv /\ [Next]_vars => [A!Next]_(A!vars)
  BY NextRefines
<1>3. Spec => []IInv
  BY Invariance
<1>. QED
  BY <1>1, <1>2, <1>3, PTL DEF Spec, ImplementsActivations, A!Spec
===============================================================================
