# A TLA+ verification project for the AES processor

The repository builds a CV32E40P (RI5CY) RISC-V core with custom AES-128
instructions, its memory and control logic on a PYNQ-Z1, and the program that
encrypts with them. This directory models that system in TLA+, checks the
models with TLC on small instances and proves the main results with TLAPS for
all instances.

## 1. The system

All paths are relative to `src/`; `riscy/` is `hardware/src/design/riscy/`,
`zynq_system/` its neighbour, and the prefix `cv32e40p_` is left out after `_`.

| Component | State | Operations | Correct when |
|---|---|---|---|
| AES units `_aes_ks`, `_aes_state` | round key `krk_q`, counter `rcnt_q`, cipher state `st_q` | load a word, expand, round, read | each instruction takes effect exactly once, in order |
| AES byte units `_aes`, `_aes_fi` | none | `aes32esmi`, `aes32esi` | same AES as the other two paths |
| Execute stage: `_ex_stage`, `_alu`, `_mult`, `_alu_div`, ID/EX register of `_id_stage` | ID/EX and EX/WB registers, FSMs of divider and multiplier | one clock edge: advance, bubble, stall, split access, multi-cycle hold | holds one instruction, no FSM outlives it, never waits for itself |
| Register file and forwarding: `_register_file_ff`, stalls of `_controller` | registers, two write ports | forward from EX or WB, stall, write | every operand is the latest value in program order |
| AES software `software/main.c` | buffers, loop counters | `aes128_ecb_encrypt`, reference functions, `main` | output = AES-128 of the input; the host can read the result and believe it |
| Instruction prefetch: `_prefetch_controller`, `_fifo`, `_obi_interface` | FIFO, transaction and flush counters, OBI register | request, grant, response, branch, fetch | core sees the words of the current path, in order, once |
| Aligner and IF stage | `aligner` FSM, leftover half-word, PC | take a word, branch | each instruction and its PC come out once |
| Controller | FSM, debug FSM, `jump_done_q` | trap, interrupt, debug, jump, branch, xret, wfi, fence.i | no instruction of a wrong path commits, none is lost, no request is forgotten |
| Decoder, compressed decoder | none | decode | an illegal instruction has no effect |
| Load/store unit, `core_2_bram` | transaction counter, FSM of the bridge | request, response, split access | responses meet their requests |
| Sleep unit, interrupt controller | `fetch_enable_q`, `irq_q` | start, sleep, wake | no wake-up is lost |
| CSRs | status, epc, cause, counters | access, save, restore | traps nest as specified |
| `mem_snoop_match`, `axi_reg_bank_controller` | match, cycle counter, registers one cycle behind, read FSM | watch a store, count, answer a read | the count belongs to the match |
| `reboot_riscv`, its AXI slave | write FSM, `input_signal` | accept a write | the core starts when told to and not before |
| Host: `zynq_tb.sv`, `base_riscy.ipynb` | what it has read | load, start, poll, stop, read | reports the run that it started |
| C library and startup: `software/include`, `crt0.riscv.S` | RAM, `mstatus`, `mie`, stack | copy, set, compare, enable, sleep; interrupt stubs | each call does what its header says, and returns |

The components of the core work in lock step on one clock; valid signals go
forward through the pipeline, ready signals backward, and the controller halts
or flushes stages. Memory answers after an open number of cycles. The
processing system of the Zynq talks to the core only through reset, fetch
enable, the dual-ported memories and the register bank that shows the end of
the program.

What is hard here: a stall that lasts while a unit is about to commit; enables
that go off while the operands they guard stay; responses that arrive after
the branch that made them useless; the order of interrupts, debug requests and
branches in neighbouring cycles; the reset of the core between any two
instructions; the counter of a hidden register that must be in step with a
program counter; a value compared with a register number that is not of this
instruction; a host that polls a bank which lags behind, and gives up; library
functions between whose accesses interrupts come. `PROJECT.json` lists them
line by line under `hazards`.

## 2. Modules

| Module | Models |
|---|---|
| `AesUnits` | registers and operations of the two stateful units; the 128-bit arithmetic is a parameter |
| `AesInOrder` | abstract: AES instructions handed over are executed once each, in order |
| `ExecuteStage` | ID/EX register, handshake, commit gate, FSMs of divider and multiplier; one action per kind of clock edge |
| `AesCipher` | abstract: what a caller of `aes128_ecb_encrypt` may rely on |
| `AesRounds` | the cipher in the steps of the units, and the 33 instructions of a block |
| `AesBlock` | those instructions on `ExecuteStage`: what a block that the stage has performed computes |
| `AesEncrypt` | `aes128_ecb_encrypt`, one AES instruction per action |
| `AesDatapath` | the bits: key expansion, round, byte instructions; a byte is the set of its one bits |
| `AesSoftware` | the bits: byte-array functions and byte-instruction path of `main.c`, `_double_byte` |
| `AesAgreement` | `AesEncrypt` on that data path beside the two software implementations, round for round |
| `InstructionStream` | abstract: ID gets the instructions of the current path with their addresses, once, in order |
| `PrefetchBuffer` | prefetch controller, fetch FIFO, OBI interface, the memory behind the bus |
| `FetchStage` | the IF stage: `PrefetchBuffer`, aligner, IF/ID register |
| `MemoryAccess` | what one load or store means; no state |
| `DataMemory` | abstract: accesses take effect one at a time, whole, in program order |
| `LoadStoreUnit` | registers and signals of the load/store unit, with the access in EX and the one in WB |
| `DataBus` | `LoadStoreUnit` on any memory that keeps the protocol of the bus |
| `DataBram` | `LoadStoreUnit`, the bridge `core_2_bram`, the block RAM |
| `InstructionSet` | what an instruction does to the PC and the CSRs, as far as the controller tells instructions apart; no state |
| `Hart` | abstract: one instruction after the other, interrupts and debug entries between them |
| `CorePipeline` | controller FSM, debug FSM, IF/ID, ID/EX and WB, CSRs, the registered interrupt line; one action per FSM state or case of it |
| `Operands` | register file, forwarding from EX and WB, the stalls of ID, the two write ports |
| `EndDetector` | `mem_snoop_match` and the register bank |
| `RebootBlock` | control register, its AXI write channel, the sticky fetch enable |
| `TestProgram` | `main()` as far as the data RAM shows it |
| `TestRun` | these three and the host; one clock edge per step, sessions with and without a download |
| `LibraryInterface` | the calls of `software/include` and what each may leave behind; no state |
| `LibraryCalls` | abstract: each call is answered in one step |
| `Library` | a hart that executes the calls access by access, with interrupts, vectors and stubs |
| `AesUnits_proofs` | theorems about `ExecuteStage`, `AesBlock`, `AesEncrypt` and `AesAgreement`, on the units they share |
| `FetchStage_proofs` | theorems about `PrefetchBuffer` and `FetchStage` |
| `DataBus_proofs`, `DataBram_proofs`, `CorePipeline_proofs`, `Operands_proofs`, `TestRun_proofs`, `Library_proofs` | theorems about the module of that name |
| `MCExecuteStage`, `MCAesEncrypt`, `MCFetchStage`, `MCDataBus`, `MCDataBram`, `MCCorePipeline`, `MCOperands`, `MCTestRun` | instances for TLC |

How they fit: the units of `AesUnits` are used by `ExecuteStage`, which
implements `AesInOrder`. `AesInOrder` is what allows `AesEncrypt` to run the
program on the same units one instruction at a time. `AesEncrypt` implements
`AesCipher`, where the cipher is any function made of the steps that the
units take (`CipherAssumption` in `AesRounds`, which TLC evaluates on the real
datapath); that with the data path of the units this function is the one of the software
in `main.c` is what `AesAgreement` says, and `ExpectedOutput` that it is the
one the program expects. `AesBlock` closes the chain from the other end: it
takes the 33 instructions that `AesEncrypt` hands to the units for a block
(`ExecutesBlock`) and says what the pipelined stage computes when it performs
them. `FetchStage` extends `PrefetchBuffer` and implements
`InstructionStream`, which is all that ID has to know of the fetch side.
`DataBus` and `DataBram` put two different memories behind the same
`LoadStoreUnit`. `DataBus` implements `DataMemory`, which is all that a program
has to know of the data side; `DataBram` implements `DataBus` at every read
latency, with the state of the bridge mapped to the answers that the memory of
`DataBus` owes, and through it `DataMemory`.
`CorePipeline` steers the three stages that `FetchStage`, `ExecuteStage` and
`DataBus` model and implements `Hart`; both take the meaning of instructions
from `InstructionSet`. For `CorePipeline` the IF stage is a source of any
instructions at consecutive addresses (what `InstructionStream` promises), the
units of EX and the access in WB are busy for some cycles, and an operand may
be missing for a while; when it is, and what is taken when it is not, is
`Operands`. `TestRun` composes `TestProgram`, `RebootBlock` and `EndDetector`
and takes from the others that the program runs as written: the result of
`aes128_ecb_encrypt` is a parameter, right or wrong. `Library` implements
`LibraryCalls`.

### Correspondence

*Registers.* `krk`, `rcnt`, `st` are `krk_q`, `rcnt_q`, `st_q`. Variables of
`ExecuteStage` that end in `_ex` are the ID/EX flip-flops of the same name
(`mulh_ex`: `mult_operator_ex_o` is `MUL_H`; `split_ex`: the address of the
access in EX crosses a word; `alu_operator_ex` carries the operands that are
captured with it). `mulh_CS`, `div_CS` are the two FSMs. `issued`, `done` and
`results` are history.

*A clock edge* is one step. The combinational signals of the cycle (`ex_ready`,
`id_valid`, `alu_ready`, `mult_ready`, `data_misaligned`) are operators with
the names of the code. The five ways the ID/EX register can be updated are the
five actions `SecondHalf`, `MultHold`, `Advance`, `InsertBubble`, `Stall`, in
the priority of the code.

*Bytes.* In the data path a byte is the set of its one bits: exclusive or is
the symmetric difference, a shift moves the members, `Bits(n)` are those of a
number. A word is a tuple with the least significant byte first (`w[8*r +: 8]`
is `w[r + 1]`), a register a function of the column; byte `i` of an array of
`main.c` is element `i + 1`, and `AsQuad`, `AsBytes` are the access to it as
`uint32_t`.

*What is left open.* Which bundle decode offers, whether decode is held (load,
jump-register and CSR stalls, `halt_id`; `Operands` has the first two), when
the LSU and write-back are ready and when a division ends are inputs, chosen
freely in every cycle. The model therefore allows more than the real controller
does; what holds here holds under it. Two inputs are pinned where they cannot
matter, to save states: the LSU is ready when it is not asked, a division ends
only when one runs.

*The program.* `pc` and `step` stand for the 33 instructions of
`aes128_encrypt_block`; `block` is `i / 16`. `Call` chooses the key, the
buffers (separate or the same) and the length anew; the units keep whatever
the last call left in them. `Reset` can happen at any time and models
`rst_n`, after which the program starts again.

*The fetch side.* Variables of `PrefetchBuffer` and `FetchStage` are the
flip-flops of the same name; `obi_state_q`, `obi_addr_q` are `state_q` and
`obi_addr_q` of `cv32e40p_obi_interface`. `granted` is the memory: the requests
it has accepted and not answered. `owed` is history, the word of the current
path that the aligner is to take next. A word is its address and a half-word
is its address, because memory does not change under the program: a wrong,
repeated or stale word is then a wrong number. `Wide` is the program, the
half-words whose two low bits are `11`. One step is one clock edge, with the
inputs of the cycle in a record: `req` (`instr_req_o`), `branch` and `pc`
(`pc_set_i`, `branch_addr_n`), `gnt`, `rvalid`, `go` (`id_ready_i & ~halt_if_i`),
`clear` (`clear_instr_valid_i`). Inputs are free but for what the code
guarantees: `pc_set_o` comes with `instr_req_o`; `instr_req_o` is low only in
`RESET` (left through the branch to the boot address of `BOOT_SET`),
`WAIT_SLEEP` and `SLEEP` (both with `halt_if_o`); memory answers granted
requests, in order, in a later cycle. The term `!aligner_ready_q` of the state
`MISALIGNED16` is absorbed: `if_valid` already implies `fetch_valid`. Parts for
hardware loops (`PULP_XPULP=0`) and for the legacy bus (`PULP_OBI=0`) are not
built.

*The data side.* `ex` and `data_misaligned_ex` are the fields of the ID/EX
register that the load/store unit sees; `data_type_q` (in bytes),
`rdata_offset_q`, `data_sign_ext_q`, `data_we_q`, `rdata_q`, `cnt_q` and
`regfile_we_lsu` are the flip-flops of the same name; `state` and `lat_cnt` are
those of `core_2_bram`. Addresses are pairs of word and lane. `delivered` is
history: what the register file has when an access is over. The hardware also
writes the register when the first half of a split load is answered; the second
half, then still in EX with the same register, overwrites it before anybody can
read it, so only the last write is recorded. A cycle offers an instruction
`next` to EX; stalls, bubbles and everything that keeps decode from offering
one appear as `NoInstr`. Instructions that do not touch memory are one
instruction, branches a second one, because `ex_ready` treats them apart;
stalls of other units in EX are left out, the next access simply comes later.
The memory of `DataBus` performs a request when it accepts it, a write perhaps
as soon as it sees it, and answers accepted requests in order, at the earliest
in the next cycle. The early write is what the block RAM does: `DataBram` reads
and writes its RAM in every cycle, as the wires do, and the write lanes do not
wait for the grant. It is harmless because the request is held until it is
accepted (`RequestStable`) and nothing else reads the memory meanwhile.
Accesses past the last word, which wrap around, are left out. `data_reg_offset`
is always 0 and the sign extension `2'b10` is never decoded here.

*The controller.* Variables of `CorePipeline` are the flip-flops of the same
name; `pc_if` is the PC of the aligner, `ex` the instruction that the ID/EX
register holds (`Killed`: one that was disarmed on its way), `minstret` is
`mhpmevent_minstret_o`, the event by which the core counts a retired
instruction. `csr` has the one-bit fields as a set and the address registers.
An action is a state of the FSM, or a case of `DECODE` and `FLUSH_WB`; the
operators under it (`Stages`, `NextState`, `JumpDone`) are the registers that
every clock edge writes. `is(kind)` is the decoder: as in the hardware, it
looks at the IF/ID register whether its valid bit is set or not, which is how
`FLUSH_EX`, `FLUSH_WB` and `XRET_JUMP` know what they flush for. The program is
not fixed: whenever IF hands over an instruction, any of `Instructions` may
come, also at an address seen before. Immediates replace operands: a branch is
`branch` (taken) or `not_taken`, a CSR instruction carries the value that it
leaves behind. `in.stall` may claim a load stall whenever there is a load or
store around, and a jump-register stall for any jump with something ahead of
it. For `Hart` an instruction has happened when it leaves ID; what it changes
later (its CSR write in EX, the save and restore in `FLUSH_EX` and `FLUSH_WB`,
the end of debug mode in `XRET_JUMP`) is anticipated by `ArchPc`, `ArchCsr`,
`ArchDebug`. An abstract step retires the instruction of `minstret`, so one
lost or repeated would show. `debug_req_i` is tied to 0 in
`riscv_top_bram.v`; debug mode is modelled because the core has it and its
priorities are entangled with those of interrupts. `pipeline_irq` is the core
as built.

*Operands.* `mem`, `regfile_waddr_ex` are the flip-flops of the same name; `ex`
and `wb` are the ID/EX and EX/WB registers, `rd` in `wb` is `regfile_waddr_lsu`
and stays when nothing new is written to it, as in the code. A value is the
number of the instruction whose result it is, so a stale one is a wrong
number; `Junk` is what a port shows while its result is not there. `again`
marks an instruction that has been in EX for a cycle: a CSR access that waits
reads back what it wrote, and `Stall` clears its write enable
(`cv32e40p_id_stage.sv:1614`). ID offers any instruction in any cycle; which
of its stalls comes from elsewhere is `id_hold`. Only the registers read
matter, not the port: the third operand belongs to multiply-accumulate and to
the address of the second half of a split access, and neither is decoded or
forwarded in this configuration.

*The test.* `clk_counter`, `match_found`, `registers`, `rstate`, `rdata`,
`wstate`, `input_signal`, `fetch_enable_q` are the flip-flops of the same name.
`input_signal` is the set of its two connected bits. `pc` is the place in
`main()`, one store or one comparison per step, `go` the cycles in which the
core makes one; `host` is the next access of the host, `beat` the cycles in
which it moves on. Test bench and notebook are one host with the choices of
both: reboot first or not, lower `fetch_enable` after the last poll or not. The
RAM has the words that `main()` and the host touch; the address of `ciphertext`
is one place on the stack below 0x108000. `fresh`, `started` and `since` are
history. `Download` resets everything. `RunAgain` runs the cells again without
it: `restart` reaches the port `REBOOT` of `riscv_top_bram.v`, which nothing
uses, so the core stays in `eoc()`, the match stays found, and the second test
reports the first. The notebook says there "Now that the riscv core is rebooted
and stalling" (`base_riscy.ipynb:151`).

*The library.* `at` is the place in the function that is being executed,
`i` and `acc` its locals. A byte is a set of bits; `mstatus` is the set of its
interrupt bits. An interrupt can come before any access. The event unit
(`event.h`) does not exist in this system; its base 0xA103000 falls into the
data RAM at offset 0x3000, and `IER`, `ICP`, `SCR` are bytes of RAM here.
A stub saves its registers in a frame of 96 bytes, of which 18 words are
written before `csrr x28, 0x7B0` (`crt0.riscv.S:201`): the hardware loops of an
older core, the debug CSR `dcsr` here, illegal outside debug mode. The
exception goes to the base of the vectors (`crt0` has its handlers at 0x84 and
0x88, but this core sends exceptions to the base), from there over 23 `nop` to
the first stub. As built all interrupt lines are 0 and `mtvec_addr_i` is not
connected, so none of this is reached by the test of `main()`.

Where the headers and the code part: `_copy` returns `from_len`, where
`tcutils.h:55` says `TC_CRYPTO_SUCCESS`, and so 0, which is `TC_CRYPTO_FAIL`,
for an empty copy; `int_disable()` clears the whole of `mstatus`, and its
comment says "By writing 1" of a bit that it clears; `get_core_num()` is 0;
`int.h` declares `ISR_TB_OVR` where `int.c` has `ISR_TB_OVF`. `__riscv__` is
defined by `int.h` alone, so `sleep()` means `wfi` only for a file that
includes `int.h` first; the model is that of such a file.

## 3. Runs

| Run | Question | Bounds |
|---|---|---|
| `aes_stage` | does the execute stage implement `AesInOrder`, do `IInv` and `CanFinish` hold, does everything in EX finish, and is a block encrypted whatever went before it? | 2 AES instructions of 5 classes, then the 33 of a block, words of three values |
| `aes_block` | does the call keep its promise, does `main()` get `expected_output`, and do the three implementations agree after every round? | real data: 3 keys, 2 texts, 2 blocks, lengths 8, 16, 32; any number of calls and resets |
| `fetch_stage` | the invariant of the fetch side with the word held back by the aligner, can each of its parts always go on, does the IF stage implement `InstructionStream`, and is the next instruction delivered in the end? | FIFO of 2 as built, 2 words, one program all wide, one wide across the words; branches to both halves of a word |
| `data_bus` | invariant of the load/store unit, stable requests, and does it implement `DataMemory` on any such bus? | 2 words of distinct bytes, half of them negative; 10 accesses of every size, inside a word, at its end and split |
| `data_bram` | are bridge and RAM such a memory, cycle by cycle (and so an implementation of `DataMemory`), and does every access finish? | read latencies 1 (as built) and 3; 7 accesses |
| `pipeline_irq` | interrupts, exceptions, returns, sleep: does the pipeline implement `Hart`; is it drained where the controller relies on that; is every interrupt served? | 4 addresses, 11 instructions, accesses of up to 2 cycles, interrupt line free |
| `pipeline_step` | the same with a debugger: halt, single step, `ebreak`? | 3 addresses, 15 instructions, interrupt line high, debug request free |
| `pipeline_trigger` | the same with triggers and writes of `dpc`, behind slow loads; is every debug request served? All of `IInv` and `FlowInv` | 3 addresses, 9 instructions, accesses of up to 3 cycles, debug request free |
| `operands` | does every operand and every jump target have the latest value? | 3 registers with `x0`, 5 instructions of 7 kinds |
| `test_run` | does the host report what happened, and do both come to an end? | the right ciphertext and a wrong one, 2 polls, a counter of one bit; any number of sessions |
| `library` | the invariant of the loops and the mask, does every call do what it promises, and return? | bytes of one bit, 3 bytes of buffer, a RAM of 7 bytes, frames of 3 with 1 saved before the trap and 1 more at the top |
| `trigger_access` | are the trigger registers written from debug mode only? (no, see below) | 3 instructions, accesses of up to 4 cycles |

Why the bounds are enough. The ID/EX register holds one instruction, so the two
AES instructions before the block cover a predecessor, the instruction and its
successor with any other instructions between them, and leave behind any state,
round key and counter that two instructions can; the three-valued words tell
the arguments apart, and the real ones come in `aes_block`. Two blocks make every case of the
buffers in `AesEncrypt`: read, in progress, not yet read; length 8 is the
refused one. With a FIFO of two, at most two requests are in flight; two words
tell a word from its neighbour, and addresses wrap, which only adds behaviours.
At most two data accesses are under way at once (one in EX, one in WB) and a
split one touches two words, so two words and two accesses meet in every way;
latency 3 makes the bridge wait, count and start again. The theorems cover
other sizes. In the pipeline an instruction can meet those in IF, EX and WB,
all of any kind that the run has; with four addresses the target of a jump, the
handler, the next instruction and the returned-to one can all differ. The two
debugger runs split the instructions so that each has what interferes:
interrupts with single steps (`stepie`), triggers with the registers that the
debugger writes. `pipeline_irq` checks a single invariant and `pipeline_step`
none, because checking all of `IInv` and `FlowInv` is the question of
`pipeline_trigger`; this run has the three cycles of latency at which the
boundary of `TriggerWritesInTime` lies, and `trigger_access` the four beyond
it. In `operands` a reader meets at most one writer in EX and one in WB; the
fourth and fifth instructions make the older writes that must have reached the
register file. The counter of `test_run` wraps at two, so that every order of
match, bank and read occurs for either count; the comparison goes through all
sixteen bytes. In `library` three bytes give every overlap of two ranges; seven
bytes of RAM are no multiple of the frame of three, as 32768 is none of 96,
which is why the frames come to cover all of it.

One run finds a divergence. `cv32e40p_cs_registers.sv:1323` presents `tdata1`
with `dmode`, "access from D mode only". The write enables (lines 1301, 1302)
look at the mode of the cycle in which the CSR instruction is in EX. If it
waits there behind a slow load while a debug request is served, debug mode
begins under it and its write, issued outside debug mode, takes effect:
`trigger_access` shows it for a load of four cycles. With up to three it does
not happen (`TriggersFromDebugOnlyHolds`), nor in this system, where a load
takes one and `debug_req_i` is 0.

Three properties have a limit that the code sets. `VerdictHonest` speaks of
sessions that began with a download, because of `RunAgain`, and of runs whose
end the host saw: of the others the test bench prints "Test PASSED" if both
ciphertexts read the same (`zynq_tb.sv:246`), as they do while both are zero.
`ImplementsLibrary` promises nothing about what `memcpy` leaves in a target
that begins inside its source. `TrapRunsAway` states no promise of the code but what
it does: it is there so that the other properties need not speak of what
follows an interrupt.

### Fairness

`aes_stage` uses `SF_vars(ReadyClock)`: a cycle in which LSU and
write-back are ready and a running division is in its last cycle happens again
and again as long as it is possible again and again. The clock runs freely; a
granted access is answered (the bridge answers in the next cycle) and the
divider counts down at most 32 cycles. No fairness is assumed of decode.
`fetch_stage` uses weak fairness of three kinds of cycle: the bus grants
(`core_2_bram` grants whenever it is idle), it answers, and ID takes a word
that is offered (the execute stage always gets free, see `EverythingFinishes`;
a core that sleeps for ever is excluded here). No fairness is assumed of
branches: `KeepsDelivering` lets a new path cut in. `data_bram` assumes only
that the clock ticks (`WF_vars(Next)`): grants and answers come from the bridge
itself. `pipeline_irq` and `pipeline_trigger` use weak fairness of a cycle in
which the instruction in EX finishes, the access in WB is answered, IF has an
instruction, no operand is missing and the interrupt line stays as it is
(`Ready`): `EverythingFinishes`, `AccessesFinish` and `KeepsDelivering` are
what justifies it, and what has become ready stays so until ID moves. Nothing
is assumed of the line itself: `InterruptServed` allows it to fall. The reset
state is left by `fetch_enable_i`, of which nothing is assumed;
`DebugRequestServed` begins after it. `test_run` assumes that cycles in which
the core makes its next step and the host's transfer moves on go on happening
(`WF_vars(Edge(TRUE, TRUE))`): instructions finish, and the host is a sequential
program whose accesses are answered. `library` assumes that the hart goes on
(`WF_vars(Step)`); nothing makes an interrupt come, and `CallsEnd` excepts a
core that sleeps with no enabled interrupt there.

Each property has a mutant, an operator whose comment begins with `Mutant` and
which stands before the definition it would replace. It is the definition with
a plausible mistake; with it, TLC finds the property violated.

## 4. Proofs

`AesUnits_proofs` holds for every data path, every number of instructions,
keys, texts and blocks, its last part for the data path of the units and every
128-bit key and text; `FetchStage_proofs` for every program, memory size and
FIFO depth from 2 (its last theorem for the depth of 2 that is built); `DataBus_proofs` and `DataBram_proofs` for every set of
instructions, memory size and contents, the latter for every read latency;
`CorePipeline_proofs` for every program, every set of addresses and handlers
and every memory latency; `Operands_proofs` for every set of registers and
every program; `TestRun_proofs` for every expected and computed ciphertext,
every number of polls and every width of the counter; `Library_proofs` for
every size of byte, buffer, RAM and frame. What each rests on is the `ASSUME`s
of its modules, which TLC evaluates for the instances.

*Execute stage.* `IInv` joins the type invariant, `OneInstructionInEx`,
`BusyForInstructionInEx` and `ExactlyOnce`. None of the last three is
inductive alone: that an AES instruction is not repeated while a division
waits needs that the divider is only busy for a `div` in EX, which needs that
EX holds one instruction. `HInv` adds what the history says of its own shape.
`Refinement` is `Spec => ImplementsInOrder`: a commit maps to `Execute`, a
commit with an advance to `ExecuteAndHandOver`, an advance to `HandOver`, and
everything else to a stutter. Because nothing is assumed about the inputs, the
result does not depend on memory latency, on the hazard logic or on the
controller.

*Block.* `BlockInStep` says for every prefix of the 33 instructions what the
units hold when the last instructions that the stage performed are this prefix
(`UnitsAfter`). It is what makes `BlockEncrypts` inductive, and it needs nothing
of the past before the block: the four loads of the text replace the state, the
four of the key replace the round key and restart the Rcon counter, and no
prefix is inside another one in a way that contradicts this. `CommitByOp` and
`UnitsStep` are the step of the units, `PerformedStep` relates the history
before and after a commit; every other clock edge leaves both alone, by `HInv`.
`BlockEncryptsHolds` follows, `Spec => []BlockEncrypts`, and with the data path
of the units `StageComputesReference`: from the registers of the execute stage
to the byte-array software of `main.c` in one statement. That the program does
hand over such blocks, end to end, in place and across calls, is
`ExecutesBlockHolds`.

*Program.* `EncryptInv` says what the key unit, the state unit and the buffers hold
at each program point. From `CipherAssumption` (the round keys and the cipher
states are made of the steps of the units, mode 2, then nine times mode 0,
then mode 1) follow `CiphertextOnReturnHolds` and `EncryptRefinement`,
`EncryptSpec => ImplementsCipher`. The names begin with `Encrypt` so that the
module can be read beside `ExecuteStage`, on whose units it runs.

*Data path.* `DatapathAssumption` gives `KeyWord` and `RoundWord` the bits of
`AesDatapath`, and `SoftwareAssumption` says that the round keys and the states
of the two implementations in `main.c` are made by their functions, one loop
pass or round after the other: these sequences are constants because a theorem
about a recursive definition would need an induction that the provers cannot
do. Ten steps suffice here, so they are written out (`ScheduleOf`, `StateOf`).
A step of the key unit is four passes of the loop of `expand_key`
(`UnitExpansion`: the counter selects `rcon[i / 16 - 1]`). A round of the state
unit is brought to one form per column (`UnitRound`); `ReferenceRound` and
`InstructionRound` bring the byte arrays and the chains of four byte
instructions to the same one. Between them stand the permutation of
`shift_rows` (`ShiftedArray`), the order of the terms of the column mixing, and
`gf_mult`: after `i` passes its registers hold the multiple by the low `i` bits
and by bit `i` (`Pass`), because `xtime` is linear (`XtimeFacts`); so `gf_mult`
by two and three is what the units wire (`GfMultiples`, `TimesTwo`). With
`EncryptInv` follow `SchedulesAgreeHolds`, `StatesAgreeHolds` and
`ReferenceOnReturn`. Nothing in this depends on the entries of the S-box table,
which hardware and software share.

*Fetch side.* `BufferInv` counts the words the buffer has or will get on the
current path (`LiveWords`: FIFO entries and requests in flight, less the stale
ones) and says that they continue the path from the word that is owed. The
lemmas follow the data: `RequestsShift` for the requests, `EntriesShift` for
the FIFO and its wrapping pointers, `LiveShift` and `BranchStart` for both
together; `BufferStep` is the step of the whole buffer. That the FIFO never
overflows (`NeverFull`) needs that the stale requests are counted exactly. On
top, `AlignerInStep` relates `pc_q` to the owed word, and `HeldWordKept` keeps
the one that the aligner needs twice (`FetchInvariance`); `Refinement` follows,
`Spec => ImplementsStream`.

*Data side.* `CounterExact` says that the counter is the number of answers
owed and that with two of them the second is for the access in EX; it needs
`HalvesTogether`, that behind a second half only its first half is in WB.
`StorePerformed` and `LoadAnswered` say what the memory has already done for
the access in EX, which is what the refinement needs: `Committed` counts a
store in EX as done, although its halves reach the memory in different cycles,
and `Owed` gives the load in WB the bytes that its answer will give it. The
lemmas on `Stored`, `Loaded` and `Extended` show that halves compose to the whole
access; a cycle maps to a step of `DataMemory` in which the oldest access may
finish and the next may start, or to a stutter (`Spec => ImplementsDataMemory`).
`RequestStableHolds` justifies building the bus interface with `TRANS_STABLE=1`.

*Bridge.* `BridgeInStep` is `IInv` of `DataBus` with the answers owed replaced
by what the state of the bridge and the stages of the RAM stand for
(`Pending`). `BridgeCycle` shows that a cycle of bridge and RAM is a cycle of
`DataBus`: that the bridge grants and answers as the protocol allows, and that
the word at the end of the read pipeline, `latency` cycles after the request,
is the one that was asked for. With it `ImplementsBusHolds` follows, and
everything proved of `DataBus` holds of the built system by instantiation,
`Refinement` (`Spec => ImplementsDataMemory`) among it. `DataBus` had to
be made more liberal for this: a write may reach the memory before its grant.

*Controller.* `IInv` has seven parts, one step of the proof per action.
`Drained` says that the pipeline is empty where a trap, a return or a wake-up is
carried out; `FlushKnowsWhy` that the decoder, which then looks at an
instruction that is no longer valid, still sees the one that is being served.
Neither stands alone: `FLUSH_EX` ends when EX is free, and that EX is then
empty needs that nothing but the flushing instruction was in it
(`FlushKnowsWhy`), and that no branch was (`BranchIsSeen`). That the decoder
sees the same in the next cycle (`DecoderKept`) needs that outside debug mode
nothing in EX writes `dcsr`, `dpc` or the triggers (`StatusWriteAlone`), and
that in turn is what makes `single_step` in `DBG_TAKEN_IF` the bit by which
`DECODE` went there (`DebugEntryHasReason`). The case of `DECODE` rests on
`AfterDecode`, which says for every next state why it was chosen.
`DrainedHolds`, `JumpDoneIsForIdHolds` and `DebugEntryHasReasonHolds` follow.

For the refinement this is not enough, because `IInv` says nothing about the
addresses of the instructions that follow each other, and `FlowInv` adds it.
`FetchInStep`: IF stands right behind ID, or at the target of the jump in ID.
`StepAlone`: behind the instruction of a single step nothing comes.
`WriteBehindAccess`: a CSR write that the entry of the debugger meets in EX
has waited for an access in WB since the flush began. `FlowInv` is inductive
with `IInv`. One lemma per FSM state, or case of it, then maps a clock edge to
a step of `Hart` or to none; the abstract registers anticipate what is still
in EX (`ArchPc`, `ArchCsr`, `ArchDebug`), so most edges of a trap are stutters.
`Implementation` is `TriggerWritesInTime => (Spec => ImplementsHart)`. The
hypothesis is the boundary of the divergence of section 3, no more: memory
answers within three cycles, or the program has no instruction that names
`tdata1` or `tdata2`. As built it holds twice over. `TriggersFromDebugOnlyHolds` has the
same hypothesis, and `trigger_access` is the run in which it is false.

*Operands.* `ResultsInStep` says where the latest value of each register is:
at the ALU port of EX if the instruction there is the latest writer, with the
load in EX or WB if that is, and else in the register file (`Settled`). The
point that a reader of the code doubts is `load_stall`: it compares with
`regfile_waddr_ex`, which only loads update. Behind a load in WB it is still the
register of that load, and this is part of the invariant. `NoStall` draws from
an instruction that may leave ID that no load it needs is under way, and that
two writers of one register cannot overtake each other; `Settles` says what
the two write ports do. The three kinds of clock edge are `HandOverKeeps`,
`BubbleKeeps` and `WaitKeeps`; `Currency` and `Targets` follow.

*Test run.* Three invariants, each of which needs those before it.
`ProgramInStep`: the words that `main()` has stored up to its place, which
needs that no two of its targets share a word of the RAM (`Layout`,
`FlagLayout`, by arithmetic on the addresses of program and host).
`DetectorInStep`: the match is exactly the end of the program (`EndIsMatch`: no
other store has the address and the data of the end word), and the counter is
the number of cycles since the start for as long as the host has not lowered
`fetch_enable`. `HostInStep`: what the host has in hands. The two meet in the
bank: it is one cycle behind, so a match that is seen there is older than the
count that is read after it (`BankStep`), and the count does not move any more
(`AfterMatch`). `Honesty` is the last line of that.

*Library.* `ControlInStep` ties the place of the hart to the function called
and bounds its counter; `LoopsInStep` says what a loop has done after `i`
passes and that no other byte of the RAM has moved; `MaskKnown`, that the bit
in `mstatus` is what the caller last asked for, except in the step in which
`int_disable()` takes effect. Each needs the others: that a call which returns
leaves what it promises (`EndsKept`) is `LoopsInStep` at `i = len`, which is
`ControlInStep`. For a copy that overruns its source, `LoopsInStep` says only
that bytes outside the target are intact, as `Leaves` does. `InterruptLoses` is
where `MaskKnown` is needed: an interrupt comes from a program that has not
masked it. `Refinement` is `Spec => ImplementsLibrary`; what goes on in the
vectors and stubs is a stutter of it.

*Liveness.* Two liveness properties are theorems as well, because the number of
stages that lead to the goal is fixed. Under its fairness each is proved from
an invariant that says which cycles are possible when they are needed; that one
speaks of `ENABLED`, which the provers do not handle, and is checked by TLC.
`EverythingFinishesHolds` is `FairSpec /\ []CanFinish => EverythingFinishes`:
`ReadyEdge` says where a cycle takes the FSMs of multiplier and divider when
LSU, write-back and the division are ready, `OnlyForward` that no other cycle
takes them back. (AES instructions may follow each other without a gap, so the
first part of the property speaks of an EX that is never again without one:
they keep committing.) `KeepsDeliveringHolds` is the same for `CanProceed` and
`KeepsDelivering`: while an instruction is wanted, stale answers only run out
(`WaitBus`), what is fetched for it is kept (`Phases`), and at most two words
are taken before it is there. The depth of two is the one that is built; in a
memory of a single word, where the property would be false, an instruction of
two half-words is followed by itself.

*Only model-checked.* `CanFinish` and `CanProceed`, for the reason above. The
liveness whose number of stages is not fixed, which would need an induction over
temporal formulas: `AccessesFinish` (read latency), `DebugRequestServed`,
`InterruptServed`, `TestEnds`, `CallsEnd`, `TrapRunsAway`. And two facts about
particular bytes: that the entries of the look-up table are the inverses of the
field (`FieldArithmetic`, 256 cases) and that one text has the expected
ciphertext (`ExpectedOutput`). Every other invariant and action property of the
runs, and every refinement but for its liveness, is a theorem. Some theorems
state what no run lists: parts of what one does (`StepAloneHolds`,
`HeldWordKeptHolds`), what follows from it (`Refinement` of `DataBram_proofs`,
`StageComputesReference`), and `ExecutesBlockHolds`, the link between the
program and the block on the pipeline.

## 5. Not modelled

Arithmetic of the other instructions, the bit patterns of the encodings and
decompression: tables and functions without state. Hardware loops, APU and FPU
(`PULP_XPULP=0`, `FPU=0`: not built). Of the load/store unit: PMP, bus errors,
atomics, post-increment and load events, none of which this configuration
decodes. Of the CSRs: `mcause`, writes of `mtvec`, scratch registers and
performance counters. The priority among interrupt lines: one line stands for
all, and as built they are constant 0. The clock gate of the sleep unit: the
source replaces it by a wire. Of the AXI slave of the reboot block: its read
channel, `ap_start` and the interrupt registers, which the host never writes
and nothing listens to; of the bank, the write channel, which changes nothing.
Of the software: `spr-defs.h` and the branches for OR1K, which are not compiled;
`cpu_perf_set` and `cpu_perf_get`, under a macro that `utils.c` does not define;
the handlers of `int.c` and `exceptions.c` and the end of `crt0.riscv.S`, which
the stubs never reach (`TrapRunsAway`); clearing of `.bss`. Compiler patches,
scripts, and the tests of the memories alone in `zynq_tb.sv`.

## 6. What could follow

1. The composition in one theorem: that the pipeline of `CorePipeline`, with
   the fetch side, the operands and the data side in place of its free inputs,
   still implements `Hart` (each part is proved for inputs freer than those).
2. The entries of the look-up table, for all 256 bytes: a prover that computes
   would do, the ones used here do not.
3. Priority of interrupts and the performance counters, should a later
   configuration connect them.
