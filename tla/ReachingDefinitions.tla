------------------------- MODULE ReachingDefinitions -------------------------
(***************************************************************************)
(* find_definitions of src/src/optimizations/cf.c and cp.c: the backward   *)
(* search, along block->predecessors, for the assignments that define a    *)
(* field read at assignment i of block b.  Each block is searched from its *)
(* end at most once; the starting block first from i - 1, and a second     *)
(* time from its end when a loop leads back to it.                         *)
(***************************************************************************)
EXTENDS Llir, FiniteSetsExt

Destination(program, b, i) == program[b].assignments[i].destination
Predecessors(program, b) == {program[b].predecessors[k] : k \in DOMAIN program[b].predecessors}

\* Assignments 1 .. last of block b: the latest that defines f, or 0.
DefinitionIn(program, b, last, f) ==
  Max({0} \cup {i \in 1 .. last : Destination(program, b, i) = f})

\* The blocks searched from their end: reached backwards from block b through
\* blocks that do not define f.
Visited(program, b, i, f) ==
  LET Defines(c) == DefinitionIn(program, c, Len(program[c].assignments), f) # 0
      within[n \in 0 .. Len(program)] ==
        IF n = 0
          THEN IF DefinitionIn(program, b, i - 1, f) # 0 THEN {} ELSE Predecessors(program, b)
          ELSE LET known == within[n - 1]
               IN  known \cup UNION {Predecessors(program, c) : c \in {d \in known : ~ Defines(d)}}
  IN  within[Len(program)]

\* The stretches of assignments the search walks over, as <<block, last>>.
Stretches(program, b, i, f) ==
  {<<b, i - 1>>} \cup {<<c, Len(program[c].assignments)>> : c \in Visited(program, b, i, f)}

\* The assignments found.
Definitions(program, b, i, f) ==
  {program[s[1]].assignments[DefinitionIn(program, s[1], s[2], f)] :
     s \in {t \in Stretches(program, b, i, f) : DefinitionIn(program, t[1], t[2], f) # 0}}

\* The destinations of the assignments walked over on the way (cp.c only).
Mutated(program, b, i, f) ==
  UNION {{Destination(program, s[1], k) : k \in (DefinitionIn(program, s[1], s[2], f) + 1) .. s[2]} :
           s \in Stretches(program, b, i, f)}
=============================================================================
