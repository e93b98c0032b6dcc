------------------------------- MODULE Passes -------------------------------
(***************************************************************************)
(* Three passes of the compiler qbc (lib/qbc.cpp) over what the statements *)
(* ask of them, which Assembler says: giving resources their indices,      *)
(* giving the variables of a function their registers, and gathering the   *)
(* code of a function, whose jumps are measured last.                      *)
(***************************************************************************)
EXTENDS Integers, Sequences, FiniteSets, Statement

-----------------------------------------------------------------------------
(* A std::map that has been given a value for a key.                       *)
put(map, key, value) == [x \in DOMAIN map \cup {key} |-> IF x = key THEN value ELSE map[x]]

(***************************************************************************)
(* The resources are in a std::map.  They have keys, sequences of numbers  *)
(* that are compared lexicographically, and indices in the order of the    *)
(* keys, from 1.                                                           *)
(***************************************************************************)
KeyLess(a, b) ==
    \E i \in DOMAIN b :
        /\ \A j \in 1 .. i - 1 : j \in DOMAIN a /\ a[j] = b[j]
        /\ i \in DOMAIN a => a[i] < b[i]

Ascending(keys) ==
    LET place == [k \in keys |-> 1 + Cardinality({j \in keys : KeyLess(j, k)})]
    IN  [i \in 1 .. Cardinality(keys) |-> CHOOSE k \in keys : place[k] = i]

-----------------------------------------------------------------------------
(***************************************************************************)
(* RegAlloc: names to numbers, counted in 8 bits.  A register that cannot  *)
(* be resolved ends the program (DIE).                                     *)
(***************************************************************************)
RegAlloc(argc) == [registry |-> <<>>, argc |-> argc, counter |-> 0, died |-> FALSE]

(* Defect: the number is taken from the size of the registry.              *)
declare_arg_late(ra, name) ==
    [ra EXCEPT !.registry = put(@, name, Cardinality(DOMAIN @) + 1), !.counter = (@ + 1) % 256]
declare_arg(ra, name) ==
    [ra EXCEPT !.registry = put(@, name, ra.counter), !.counter = (@ + 1) % 256]

OutOfBounds(ra, reg) == reg.idx >= ra.argc
Named(reg) == reg.idx < 0 /\ reg.specialid = 0
Resolved(ra, reg) == ~Named(reg) \/ reg.name \in DOMAIN ra.registry

assign_src(ra, reg) == [ra EXCEPT !.died = @ \/ OutOfBounds(ra, reg) \/ ~Resolved(ra, reg)]

alloc_dst(ra, reg) ==
    IF OutOfBounds(ra, reg) THEN [ra EXCEPT !.died = TRUE]
    ELSE IF Resolved(ra, reg) THEN ra
    ELSE declare_arg(ra, reg.name)

(* A function counts its parameters in 8 bits, too.                        *)
argc_of(params) == Len(params) % 256

(* The parameters of a function come first, then the registers of its      *)
(* statements, each as a source or a destination.                          *)
Asked(params, regs) == [k \in DOMAIN params |-> [use |-> "arg", reg |-> var(params[k])]] \o regs

Answer(ra, asked) ==
    CASE asked.use = "arg" -> declare_arg(ra, asked.reg.name)
      [] asked.use = "src" -> assign_src(ra, asked.reg)
      [] asked.use = "dst" -> alloc_dst(ra, asked.reg)

Allocation(params, regs) ==
    LET all == Asked(params, regs)
        ra[n \in 0 .. Len(all)] == IF n = 0 THEN RegAlloc(argc_of(params)) ELSE Answer(ra[n - 1], all[n])
    IN  ra[Len(all)]

(* AsmReg::operator reg_t: the index is an int8_t by now.                  *)
reg_t(registry, reg) ==
    LET idx == IF reg.idx >= 0 THEN reg.idx ELSE int8(registry[reg.name])
    IN  CASE reg.reg_type \in {"c", "s"} -> reg.specialid
          [] reg.reg_type \in {"%", "$"} /\ reg.ext < 0 -> PRIMARY_REG(idx)
          [] reg.reg_type \in {"%", "$"} /\ reg.ext >= 0 -> SECONDARY_REG(idx, reg.ext)

-----------------------------------------------------------------------------
(***************************************************************************)
(* Code.  An AsmFunc gathers its instructions, the place of every label    *)
(* and the jumps with their labels.  A label given twice ends the program. *)
(***************************************************************************)
NoCode == [code |-> <<>>, label |-> <<>>, jump |-> <<>>, died |-> FALSE]

Generate(f, do) ==
    LET i == [op |-> do.op, args |-> do.args]
    IN  CASE do.do = "instruction" -> [f EXCEPT !.code = Append(@, i)]
          [] do.do = "jump" ->
               [f EXCEPT !.code = Append(@, i),
                         !.jump = Append(@, [label |-> do.label, jump_offset |-> Len(f.code)])]
          [] do.do = "label" ->
               IF do.label \in DOMAIN f.label THEN [f EXCEPT !.died = TRUE]
               ELSE [f EXCEPT !.label = put(@, do.label, Len(f.code))]

Gather(dos) ==
    LET f[n \in 0 .. Len(dos)] == IF n = 0 THEN NoCode ELSE Generate(f[n - 1], dos[n])
    IN  f[Len(dos)]

int16(i) == ((i + 32768) % 65536) - 32768

(* A label nobody defines has the index -1.                                *)
label_index(labels, name) == IF name \in DOMAIN labels THEN labels[name] ELSE -1

(* The bytes of some instructions from one on.                             *)
Bytes_passed(code, from, count) ==
    LET sum[n \in 0 .. count] == IF n = 0 THEN 0 ELSE sum[n - 1] + isize(code[from + n - 1])
    IN  sum[count]

(* Defect: a backward jump is counted from the instruction after it.       *)
count_jump_bytes_after(code, at, jump_count) ==
    int16(IF jump_count < 0 THEN 0 - Bytes_passed(code, at + jump_count + 1, 0 - jump_count)
          ELSE Bytes_passed(code, at, jump_count))

(* The distance in bytes of a jump over some instructions.                 *)
count_jump_bytes(code, at, jump_count) ==
    int16(IF jump_count < 0 THEN 0 - Bytes_passed(code, at + jump_count, 0 - jump_count)
          ELSE Bytes_passed(code, at, jump_count))

(* Only these opcodes are measured.                                        *)
measured == {"goto", "if", "ifnot", "iffail", "ifnotfail", "match", "matchargs", "fork"}

(* First every jump gets its count of instructions, then bytes.            *)
Counted(f) ==
    [k \in DOMAIN f.code |->
        IF \E j \in DOMAIN f.jump : f.jump[j].jump_offset = k - 1
        THEN LET j == CHOOSE j \in DOMAIN f.jump : f.jump[j].jump_offset = k - 1
             IN  setjump(f.code[k], int16(label_index(f.label, f.jump[j].label) - (k - 1)))
        ELSE f.code[k]]

measure_jump_bytes(code) ==
    [k \in DOMAIN code |->
        IF code[k].op \in measured
        THEN setjump(code[k], count_jump_bytes(code, k, jump(code[k])))
        ELSE code[k]]

measure_function_jumps(f) == [f EXCEPT !.code = measure_jump_bytes(Counted(f))]

-----------------------------------------------------------------------------
(***************************************************************************)
(* Properties.                                                             *)
(***************************************************************************)
(* What the statements ask for: an index is an int8_t, and a variable has  *)
(* neither an index nor a special number.                                  *)
IsAsked(regs) ==
    \A k \in DOMAIN regs :
        LET reg == regs[k].reg
        IN  /\ regs[k].use \in {"src", "dst"}
            /\ reg.idx \in -128 .. 127 /\ reg.ext \in -128 .. 127
            /\ reg.reg_type \in {"%", "$"} => reg.specialid = 0

Room(params, regs) == argc_of(params) + ((Allocation(params, regs).counter - argc_of(params)) % 256)
PrimaryOf(r) == IF REG_IS_PRIMARY(r) THEN REG_EXTRACT_PRIMARY(r) ELSE REG_EXTRACT_SECONDARY1(r)

(* The parameters come first, in order; every name has a register of its   *)
(* own; a frame with the room that is written into the header of the       *)
(* function has every register the statements name.                        *)
Apart(params, regs) ==
    LET registry == Allocation(params, regs).registry
        number(name) == reg_t(registry, var(name))
    IN  /\ \A k \in DOMAIN params : number(params[k]) = PRIMARY_REG(k - 1)
        /\ \A x, y \in DOMAIN registry : number(x) = number(y) => x = y
        /\ \A k \in DOMAIN regs :
              regs[k].reg.reg_type \in {"%", "$"} =>
                 PrimaryOf(reg_t(registry, regs[k].reg)) < Room(params, regs)

(* A variable is read only behind a place that writes it.                  *)
Written(params, regs, k, name) ==
    \/ \E p \in DOMAIN params : params[p] = name
    \/ \E j \in 1 .. k - 1 : regs[j].use = "dst" /\ regs[j].reg.name = name

WrittenFirst(params, regs) ==
    \A k \in DOMAIN regs :
        regs[k].use = "src" /\ Named(regs[k].reg) => Written(params, regs, k, regs[k].reg.name)

(* What the statements generate: labels, and instructions of which those   *)
(* with a jump are the measured ones.                                      *)
IsCode(dos) ==
    \A k \in DOMAIN dos :
        /\ dos[k].do \in {"instruction", "jump", "label"}
        /\ dos[k].do # "label" => dos[k].op \in DOMAIN WRITER
        /\ dos[k].do = "instruction" => dos[k].op \notin measured
        /\ dos[k].do = "jump" => dos[k].op \in measured /\ 1 \in DOMAIN dos[k].args

(* The instructions before some place of a function, and their bytes.      *)
Ahead(dos, i) == Cardinality({k \in 1 .. i - 1 : dos[k].do # "label"})
Offset(code, n) == Bytes_passed(code, 1, n)

(* Every jump, forward or back, over instructions of any size, ends at the *)
(* first instruction behind its label.                                     *)
Lands(dos) ==
    LET code == measure_function_jumps(Gather(dos)).code
    IN  \A i, j \in DOMAIN dos :
            dos[i].do = "jump" /\ dos[j].do = "label" /\ dos[j].label = dos[i].label =>
               Offset(code, Ahead(dos, i)) + jump(code[Ahead(dos, i) + 1]) = Offset(code, Ahead(dos, j))

(* The instructions are those of the statements, in order, and measuring   *)
(* changes nothing but jumps.                                              *)
InOrder(dos) ==
    LET code == measure_function_jumps(Gather(dos)).code
    IN  /\ Len(code) = Ahead(dos, Len(dos) + 1)
        /\ \A i \in DOMAIN dos :
              LET it == code[Ahead(dos, i) + 1]
              IN  dos[i].do # "label" =>
                     /\ it.op = dos[i].op /\ DOMAIN it.args = DOMAIN dos[i].args
                     /\ \A k \in DOMAIN it.args :
                           ~(dos[i].do = "jump" /\ k = 1) => it.args[k] = dos[i].args[k]
=============================================================================
