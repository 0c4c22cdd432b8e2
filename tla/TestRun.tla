------------------------------- MODULE TestRun -------------------------------
(***************************************************************************)
(* A test on the system: the host (task main_core_execution of the test    *)
(* bench, the cells of the notebook), the control register, the program on *)
(* the core and the detector of its end.  One step is one clock edge.      *)
(*                                                                         *)
(* In one cycle the rest of the system decides                             *)
(*   go     the core makes its next step of main()                         *)
(*   beat   the host's transfer moves on                                   *)
(*                                                                         *)
(* A session begins by downloading the system into the FPGA, or, without   *)
(* that, by starting the cells (the test bench) over.                      *)
(***************************************************************************)
EXTENDS TestProgram, RebootBlock

CONSTANT MaxPolls     \* how often the host looks for the end: 8000, or 1 in the notebook

ASSUME PollsAssumption == MaxPolls \in Nat \ {0}

VARIABLES
  host, i,                  \* the host's next access, and its loop counter
  seen,                     \* the end bit as it was polled
  cycles,                   \* what the host reads: the number of cycles,
  expected_datas,           \* the expected
  read_data,                \* and the calculated ciphertext
  verdict,                  \* and the verdict of the program
  fresh, started, since     \* history: a session after a download; the core was told to
                            \* start; the cycles from then until the end word

hostVars    == <<host, i, seen, cycles, expected_datas, read_data, verdict>>
historyVars == <<fresh, started, since>>
vars        == <<detectorVars, rebootVars, programVars, hostVars, historyVars>>

ZeroWords == [k \in 0..3 |-> Zero]

(* The notebook reboots the core and loads its RAM; the test bench has the *)
(* RAM loaded in the simulation and just starts.                           *)
FirstAccess == {"reboot1", "start"}

Init ==
  /\ DetectorInit /\ RebootInit /\ ProgramInit
  /\ host \in FirstAccess /\ i = 0 /\ seen = FALSE
  /\ cycles = 0 /\ expected_datas = ZeroWords /\ read_data = ZeroWords /\ verdict = Zero
  /\ fresh = TRUE /\ started = FALSE /\ since = 0

(* ---- the host ------------------------------------------------------------*)
Goes(h, k) == host' = h /\ i' = k

(* The host writes the control register, polls the bank, or does neither.  *)
Request == [ reboot1 |-> {"restart"}, reboot0 |-> {}, start |-> {"fetch_enable"}, stop |-> {} ]

writing == host \in DOMAIN Request
reading == host \in {"poll", "count"}

bank_register == IF host = "count" THEN 1 ELSE 0

WriteDone(beat) ==
  /\ writing /\ written(beat)
  /\ Goes(CASE host = "reboot1" -> "reboot0"
            [] host = "reboot0" -> "load"
            [] host = "start"   -> "poll"
            [] host = "stop"    -> IF seen THEN "count" ELSE "late", 0)
  /\ UNCHANGED <<seen, cycles, expected_datas, read_data, verdict>>

(* All words of data.coe; the core is not looking yet.                     *)
Load(beat) ==
  /\ host = "load" /\ beat
  /\ Goes("start", 0)
  /\ UNCHANGED <<seen, cycles, expected_datas, read_data, verdict>>

(* The test bench stops the core after the last poll, the notebook does    *)
(* not; nobody reads the count of a run whose end was not seen.            *)
Poll(beat) ==
  /\ host = "poll" /\ read_answered(beat)
  /\ seen' = (rdata % 2 = 1)
  /\ IF rdata % 2 = 0 /\ i < MaxPolls - 1 THEN Goes("poll", i + 1)
     ELSE \E h \in {"stop", IF rdata % 2 = 1 THEN "count" ELSE "late"} : Goes(h, 0)
  /\ UNCHANGED <<cycles, expected_datas, read_data, verdict>>

ReadCount(beat) ==
  /\ host = "count" /\ read_answered(beat)
  /\ cycles' = rdata
  /\ Goes("expected", 0)
  /\ UNCHANGED <<seen, expected_datas, read_data, verdict>>

(* The end word is looked at once more.                                    *)
ReadLate(beat) ==
  /\ host = "late" /\ beat
  /\ Goes("expected", 0)
  /\ UNCHANGED <<seen, cycles, expected_datas, read_data, verdict>>

base_addr_data       == 1107296256               \* 0x42000000
expected_result_addr == base_addr_data + 8240    \* 0x2030
result_addr          == base_addr_data + 8256    \* 0x2040
result_check_addr    == base_addr_data + 8196    \* 0x2004

ReadExpected(beat) ==
  /\ host = "expected" /\ beat
  /\ expected_datas' = [expected_datas EXCEPT ![i] = ram[WordAt(expected_result_addr + 4 * i)]]
  /\ IF i < 3 THEN Goes("expected", i + 1) ELSE Goes("cipher", 0)
  /\ UNCHANGED <<seen, cycles, read_data, verdict>>

ReadCipher(beat) ==
  /\ host = "cipher" /\ beat
  /\ read_data' = [read_data EXCEPT ![i] = ram[WordAt(result_addr + 4 * i)]]
  /\ IF i < 3 THEN Goes("cipher", i + 1) ELSE Goes("check", 0)
  /\ UNCHANGED <<seen, cycles, expected_datas, verdict>>

ReadVerdict(beat) ==
  /\ host = "check" /\ beat
  /\ verdict' = ram[WordAt(result_check_addr)]
  /\ Goes("done", 0)
  /\ UNCHANGED <<seen, cycles, expected_datas, read_data>>

HostWaits(beat) ==
  /\ \/ host = "done" \/ ~beat
     \/ writing /\ wstate # "WRRESP"
     \/ reading /\ rstate # "RDDATA"
  /\ UNCHANGED hostVars

HostEdge(beat) ==
  \/ WriteDone(beat) \/ Load(beat) \/ Poll(beat) \/ ReadCount(beat) \/ ReadLate(beat)
  \/ ReadExpected(beat) \/ ReadCipher(beat) \/ ReadVerdict(beat) \/ HostWaits(beat)

(* ---- one clock edge of the system --------------------------------------- *)
History(beat) ==
  /\ started' = (started \/ (host = "start" /\ w_hs(beat)))
  /\ since' = IF fresh /\ started /\ pc # "eoc" THEN (since + 1) % CountRange ELSE since
  /\ fresh' = fresh

Edge(go, beat) ==
  /\ SnoopEdge(fetch_enable, Port(go))
  /\ BankEdge(beat /\ reading, bank_register)
  /\ WriteEdge(beat /\ writing, IF writing THEN Request[host] ELSE {})
  /\ StartEdge
  /\ ProgramEdge(go, fetch_enable_q)
  /\ RamEdge(go, IF host = "load" /\ beat THEN Erased ELSE ram)
  /\ result' = result
  /\ HostEdge(beat)
  /\ History(beat)

(* ---- sessions -------------------------------------------------------------*)
(* The next cells, or the test bench, are run after a download of the      *)
(* system, which resets it and its RAM,                                    *)
Download ==
  /\ host = "done"
  /\ clk_counter' = 0 /\ match_found' = FALSE
  /\ registers' = [r \in 0..1 |-> 0] /\ rstate' = "RDRESET" /\ rdata' = 0
  /\ wstate' = "WRRESET" /\ input_signal' = {} /\ fetch_enable_q' = FALSE
  /\ pc' = "wait" /\ n' = 0 /\ value' = CAFEBABE /\ ram' = Erased
  /\ result' \in Results
  /\ \E h \in FirstAccess : Goes(h, 0)
  /\ seen' = FALSE
  /\ cycles' = 0 /\ expected_datas' = ZeroWords /\ read_data' = ZeroWords /\ verdict' = Zero
  /\ fresh' = TRUE /\ started' = FALSE /\ since' = 0

(* or on the system as it is: the reboot that the host asks for reaches    *)
(* nothing.                                                                *)
RunAgain ==
  /\ host = "done"
  /\ Goes("reboot1", 0)
  /\ seen' = FALSE
  /\ cycles' = 0 /\ expected_datas' = ZeroWords /\ read_data' = ZeroWords /\ verdict' = Zero
  /\ fresh' = FALSE /\ since' = 0
  /\ UNCHANGED <<detectorVars, rebootVars, programVars, started>>

Next ==
  \/ \E go, beat \in BOOLEAN : Edge(go, beat)
  \/ Download
  \/ RunAgain

Spec == Init /\ [][Next]_vars

(* The core runs and the host's transfers move on.                         *)
FairSpec == Spec /\ WF_vars(Edge(TRUE, TRUE))

-----------------------------------------------------------------------------
Order ==
  [ wait |-> 0, encrypt |-> 1, expected |-> 2, cipher |-> 3, compare |-> 4, check |-> 5,
    end |-> 6, eoc |-> 7 ]

HostOrder ==
  [ reboot1 |-> 0, reboot0 |-> 1, load |-> 2, start |-> 3, poll |-> 4, stop |-> 5, late |-> 6,
    count |-> 6, expected |-> 7, cipher |-> 8, check |-> 9, done |-> 10 ]

Loops(p) == p \in {"encrypt", "expected", "cipher"}

TypeOK ==
  /\ clk_counter \in 0..(CountRange - 1) /\ match_found \in BOOLEAN
  /\ registers \in [0..1 -> Nat] /\ registers[0] \in 0..1 /\ rdata \in Nat
  /\ rstate \in {"RDRESET", "RDIDLE", "RDDATA"}
  /\ wstate \in {"WRRESET", "WRIDLE", "WRDATA", "WRRESP"}
  /\ input_signal \subseteq Signals /\ fetch_enable_q \in BOOLEAN
  /\ pc \in DOMAIN Order
  /\ n \in IF Loops(pc) THEN 0..3 ELSE IF pc = "compare" THEN 0..15 ELSE {0}
  /\ value \in {CAFEBABE, BAAAAAAD}
  /\ result \in Results
  /\ ram = [w \in RamWords |-> ram[w]]
  /\ host \in DOMAIN HostOrder
  /\ i \in IF host = "poll" THEN 0..(MaxPolls - 1)
           ELSE IF host \in {"expected", "cipher"} THEN 0..3 ELSE {0}
  /\ seen \in BOOLEAN
  /\ expected_datas = [k \in 0..3 |-> expected_datas[k]]
  /\ read_data = [k \in 0..3 |-> read_data[k]]
  /\ fresh \in BOOLEAN /\ started \in BOOLEAN /\ since \in 0..(CountRange - 1)

(* Store k of a stage of the program has been made.                        *)
Made(p, k) == Order[pc] > Order[p] \/ (pc = p /\ k < n)

Verdict == IF result = expected_output THEN CAFEBABE ELSE BAAAAAAD

(* After a download: the program has stored what its place in main() says, *)
(* and no store has overwritten another; it has not run before it was told *)
(* to.                                                                     *)
ProgramInStep ==
  fresh =>
    /\ \A k \in 0..3 :
         /\ Made("encrypt", k)  => ram[WordAt(CIPHERTEXT + 4 * k)] = vector_word(result, k)
         /\ Made("expected", k) => ram[WordAt(EXPECTED + 4 * k)] = vector_word(expected_output, k)
         /\ Made("cipher", k)   => ram[WordAt(CIPHER + 4 * k)] = vector_word(result, k)
    /\ pc = "compare" =>
         value = CAFEBABE /\ \A j \in 1..n : result[j] = expected_output[j]
    /\ Order[pc] > Order["compare"] => value = Verdict
    /\ Order[pc] > Order["check"] => ram[WordAt(CHECK)] = Verdict
    /\ pc = "wait" \/ fetch_enable_q

(* After a download: the match is the end of the program, the count the    *)
(* cycles until then for as long as the host has not given up, and the     *)
(* bank shows no end without the final count.                              *)
DetectorInStep ==
  fresh =>
    /\ match_found <=> pc = "eoc"
    /\ fetch_enable_q => started
    /\ started \/ (~fetch_enable /\ since = 0)
    /\ HostOrder[host] < HostOrder["poll"] => (started => host = "start" /\ wstate = "WRRESP")
    /\ HostOrder[host] \in HostOrder["start"]..HostOrder["poll"] => (started <=> fetch_enable)
    /\ HostOrder[host] \in HostOrder["start"]..HostOrder["poll"] \/ seen \/ ~started
         => clk_counter = since
    /\ registers[0] = 1 => match_found /\ registers[1] = clk_counter

(* After a download: what the host has in hands is what it says.           *)
HostInStep ==
  fresh =>
    /\ host = "poll" /\ rstate = "RDDATA" /\ rdata % 2 = 1 => registers[0] = 1
    /\ seen => registers[0] = 1
    /\ host = "count" => seen /\ (rstate = "RDDATA" => rdata = since)
    /\ HostOrder[host] <= HostOrder["poll"] \/ host = "late" => ~seen
    /\ seen /\ HostOrder[host] > HostOrder["count"] =>
         /\ cycles = since
         /\ \A k \in 0..3 :
              /\ HostOrder[host] > HostOrder["expected"] \/ (host = "expected" /\ k < i)
                   => expected_datas[k] = vector_word(expected_output, k)
              /\ HostOrder[host] > HostOrder["cipher"] \/ (host = "cipher" /\ k < i)
                   => read_data[k] = vector_word(result, k)
         /\ host = "done" => verdict = Verdict
    /\ rstate = "RDDATA" => reading
    /\ wstate \in {"WRDATA", "WRRESP"} => writing

IInv == TypeOK /\ ProgramInStep /\ DetectorInStep /\ HostInStep

(* What the host reports of a run whose end it saw is what happened in     *)
(* that run: both ciphertexts, the program's verdict on them, and the      *)
(* cycles from the start to the end word, although the bank lags behind    *)
(* the detector and the count is read long after.                          *)
VerdictHonest ==
  host = "done" /\ fresh /\ seen =>
    /\ expected_datas = [k \in 0..3 |-> vector_word(expected_output, k)]
    /\ read_data = [k \in 0..3 |-> vector_word(result, k)]
    /\ verdict = Verdict
    /\ cycles = since

(* Every session of the host comes to its end, and a program that was      *)
(* started comes to its own even when the host has given up and lowered    *)
(* fetch_enable before the core looked.                                    *)
TestEnds ==
  /\ host # "done" ~> host = "done"
  /\ started ~> match_found \/ ~started
==============================================================================
