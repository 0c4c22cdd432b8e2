---------------------------- MODULE TestRun_proofs ----------------------------
(***************************************************************************)
(* Proofs about TestRun, for every ciphertext, right or wrong, every       *)
(* number of polls and every width of the counter.                         *)
(***************************************************************************)
EXTENDS TestRun, Integers, TLAPS

(* ---- the layout of the RAM ---------------------------------------------- *)
(* The result words and the array ciphertext are apart, and the addresses  *)
(* of the program and of the host name the same words.                     *)
LEMMA Layout ==
  ASSUME NEW k \in 0..3
  PROVE  /\ WordAt(CIPHERTEXT + 4 * k) = 8176 + k
         /\ WordAt(EXPECTED + 4 * k) = 2060 + k
         /\ WordAt(CIPHER + 4 * k) = 2064 + k
         /\ WordAt(expected_result_addr + 4 * k) = 2060 + k
         /\ WordAt(result_addr + 4 * k) = 2064 + k
BY SMT DEF WordAt, Offset, CIPHERTEXT, EXPECTED, CIPHER, Sram, expected_result_addr, result_addr,
       base_addr_data

LEMMA FlagLayout ==
  WordAt(END) = 2048 /\ WordAt(CHECK) = 2049 /\ WordAt(result_check_addr) = 2049
BY SMT DEF WordAt, Offset, END, CHECK, Sram, result_check_addr, base_addr_data

LEMMA RamLayout ==
  RamWords = {2048, 2049} \cup (2060..2067) \cup (8176..8179)
<1>1. \A w \in RamWords : w \in {2048, 2049} \cup (2060..2067) \cup (8176..8179)
  BY SMT, Layout, FlagLayout DEF RamWords
<1>2. ASSUME NEW w \in 2060..2063 PROVE w \in RamWords
  <2>1. w - 2060 \in 0..3 /\ WordAt(EXPECTED + 4 * (w - 2060)) = w
    BY SMT, Layout
  <2> QED BY SMT, <2>1 DEF RamWords
<1>3. ASSUME NEW w \in 2064..2067 PROVE w \in RamWords
  <2>1. w - 2064 \in 0..3 /\ WordAt(CIPHER + 4 * (w - 2064)) = w
    BY SMT, Layout
  <2> QED BY SMT, <2>1 DEF RamWords
<1>4. ASSUME NEW w \in 8176..8179 PROVE w \in RamWords
  <2>1. w - 8176 \in 0..3 /\ WordAt(CIPHERTEXT + 4 * (w - 8176)) = w
    BY SMT, Layout
  <2> QED BY SMT, <2>1 DEF RamWords
<1>5. 2048 \in RamWords /\ 2049 \in RamWords
  BY SMT, FlagLayout DEF RamWords
<1> QED BY SMT, <1>1, <1>2, <1>3, <1>4, <1>5

(* A store on the port of the RAM.                                         *)
LEMMA PortStore ==
  ASSUME NEW a \in Nat, NEW d
  PROVE  /\ write_to_address(a, d).wen /\ write_to_address(a, d).data = d
         /\ write_to_address(a, d).addr = a % 32768
         /\ write_to_address(a, d).addr \div 4 = WordAt(a)
BY SMT DEF write_to_address, StoreOf, Offset, WordAt

(* Byte 4 * k + m of an array is byte m of its word k, and byte j of the   *)
(* array ciphertext is in word j \div 4 of it.                             *)
LEMMA BytesOfWord ==
  ASSUME NEW k \in 0..3, NEW m \in 0..3, NEW r
  PROVE  vector_word(r, k)[m + 1] = r[4 * k + m + 1]
<1>1. CASE m = 0 BY SMT, <1>1 DEF vector_word
<1>2. CASE m = 1 BY SMT, <1>2 DEF vector_word
<1>3. CASE m = 2 BY SMT, <1>3 DEF vector_word
<1>4. CASE m = 3 BY SMT, <1>4 DEF vector_word
<1> QED BY <1>1, <1>2, <1>3, <1>4

LEMMA WordOfByte ==
  ASSUME NEW j \in 0..15
  PROVE  /\ j \div 4 \in 0..3 /\ j % 4 \in 0..3 /\ j = 4 * (j \div 4) + (j % 4)
         /\ WordAt(CIPHERTEXT + j) = 8176 + j \div 4
<1>1. j \in Int /\ 0 <= j /\ j <= 15
  OBVIOUS
<1>2. j % 4 \in 0..3
  BY <1>1
<1>3. j = 4 * (j \div 4) + (j % 4)
  BY <1>1
<1>4. j \div 4 \in 0..3
  BY <1>1
<1>5. Offset(CIPHERTEXT + j) = 32704 + j
  BY SMT DEF Offset, CIPHERTEXT, Sram
<1>6. (32704 + j) \div 4 = 8176 + j \div 4
  BY SMT
<1> QED BY SMT, <1>2, <1>3, <1>4, <1>5, <1>6 DEF WordAt

(* ---- types --------------------------------------------------------------- *)
(* The first states are as the invariant says.                             *)
LEMMA InitInvariant == Init => IInv
<1> SUFFICES ASSUME Init PROVE IInv
  OBVIOUS
<1> USE DEF Init, DetectorInit, RebootInit, ProgramInit, FirstAccess
<1>1. CountRange \in Nat /\ CountRange > 0 /\ MaxPolls \in Nat /\ MaxPolls > 0
  BY CountAssumption, PollsAssumption
<1>2. TypeOK
  <2>1. ram = [w \in RamWords |-> ram[w]]
    BY DEF Erased
  <2>2. expected_datas = [k \in 0..3 |-> expected_datas[k]]
    BY DEF ZeroWords
  <2>3. read_data = [k \in 0..3 |-> read_data[k]]
    BY DEF ZeroWords
  <2>4. /\ pc \in DOMAIN Order /\ n = 0 /\ host \in DOMAIN HostOrder /\ i = 0
        /\ host \notin {"expected", "cipher"} /\ ~Loops(pc) /\ pc # "compare"
        /\ value \in {CAFEBABE, BAAAAAAD}
    BY DEF Order, HostOrder, Loops
  <2>5. registers \in [0..1 -> Nat] /\ registers[0] \in 0..1 /\ rdata \in Nat
    OBVIOUS
  <2>6. /\ match_found \in BOOLEAN /\ fetch_enable_q \in BOOLEAN
        /\ seen \in BOOLEAN /\ fresh \in BOOLEAN /\ started \in BOOLEAN
    OBVIOUS
  <2>7. /\ rstate = "RDRESET" /\ wstate = "WRRESET" /\ clk_counter = 0 /\ since = 0
        /\ result \in Results /\ input_signal = {}
    OBVIOUS
  <2> HIDE DEF Init, DetectorInit, RebootInit, ProgramInit, FirstAccess
  <2> QED BY <1>1, <2>1, <2>2, <2>3, <2>4, <2>5, <2>6, <2>7 DEF TypeOK
<1>3. ProgramInStep
  BY DEF ProgramInStep, Made, Order
<1>4. DetectorInStep
  BY DEF DetectorInStep, HostOrder, fetch_enable
<1>5. HostInStep
  BY DEF HostInStep, HostOrder
<1> QED BY <1>2, <1>3, <1>4, <1>5 DEF IInv

(* The detector, the bank and the control register keep their types.       *)
LEMMA DetectorType ==
  ASSUME TypeOK, NEW go \in BOOLEAN, NEW beat \in BOOLEAN, Edge(go, beat)
  PROVE  /\ clk_counter' \in 0..(CountRange - 1) /\ match_found' \in BOOLEAN
         /\ registers' \in [0..1 -> Nat] /\ registers'[0] \in 0..1 /\ rdata' \in Nat
         /\ rstate' \in {"RDRESET", "RDIDLE", "RDDATA"}
         /\ wstate' \in {"WRRESET", "WRIDLE", "WRDATA", "WRRESP"}
         /\ input_signal' \subseteq Signals /\ fetch_enable_q' \in BOOLEAN
         /\ started' \in BOOLEAN /\ since' \in 0..(CountRange - 1)
<1>1. CountRange \in Nat /\ CountRange > 0
  BY CountAssumption
<1>2. clk_counter' \in 0..(CountRange - 1)
  <2>1. clk_counter' \in {(clk_counter + 1) % CountRange, clk_counter}
    BY DEF Edge, SnoopEdge
  <2> QED BY <1>1, <2>1 DEF TypeOK
<1>3. match_found' \in BOOLEAN
  BY DEF Edge, SnoopEdge
<1>4. registers' \in [0..1 -> Nat] /\ registers'[0] \in 0..1
  BY DEF Edge, BankEdge, TypeOK
<1>5. rdata' \in Nat
  BY DEF Edge, BankEdge, TypeOK, bank_register
<1>6. rstate' \in {"RDRESET", "RDIDLE", "RDDATA"}
  BY DEF Edge, BankEdge, TypeOK
<1>7. wstate' \in {"WRRESET", "WRIDLE", "WRDATA", "WRRESP"}
  BY DEF Edge, WriteEdge, TypeOK
<1>8. input_signal' \subseteq Signals /\ fetch_enable_q' \in BOOLEAN
  BY DEF Edge, WriteEdge, StartEdge, TypeOK, Signals, Request, writing
<1>9. started' \in BOOLEAN
  BY DEF Edge, History
<1>10. since' \in 0..(CountRange - 1)
  <2>1. since' \in {(since + 1) % CountRange, since}
    BY DEF Edge, History
  <2> QED BY <1>1, <2>1 DEF TypeOK
<1> QED BY <1>2, <1>3, <1>4, <1>5, <1>6, <1>7, <1>8, <1>9, <1>10

(* The program keeps its types.                                            *)
LEMMA ProgramType ==
  ASSUME TypeOK, NEW go \in BOOLEAN, NEW beat \in BOOLEAN, Edge(go, beat)
  PROVE  /\ pc' \in DOMAIN Order
         /\ n' \in IF Loops(pc') THEN 0..3 ELSE IF pc' = "compare" THEN 0..15 ELSE {0}
         /\ value' \in {CAFEBABE, BAAAAAAD}
         /\ result' \in Results
         /\ ram' = [w \in RamWords |-> ram'[w]]
<1> USE DEF TypeOK
<1>1. result' \in Results
  BY DEF Edge
<1>2. ram' = [w \in RamWords |-> ram'[w]]
  <2>1. \E contents : /\ contents = [w \in RamWords |-> contents[w]]
                      /\ RamEdge(go, contents)
    BY DEF Edge, Erased
  <2> QED BY <2>1 DEF RamEdge
<1>3. /\ pc' \in DOMAIN Order
      /\ n' \in IF Loops(pc') THEN 0..3 ELSE IF pc' = "compare" THEN 0..15 ELSE {0}
      /\ value' \in {CAFEBABE, BAAAAAAD}
  <2>1. CASE UNCHANGED <<pc, n, value>>
    BY <2>1 DEF Loops
  <2>2. CASE ProgramStep(fetch_enable_q)
    <3> USE DEF Order, Loops, Goto, NextWord
    <3>1. CASE Boot(fetch_enable_q) BY <3>1 DEF Boot
    <3>2. CASE Encrypt BY <3>2 DEF Encrypt
    <3>3. CASE PutExpected BY <3>3 DEF PutExpected
    <3>4. CASE PutCipher BY <3>4 DEF PutCipher
    <3>5. CASE Compare BY <3>5 DEF Compare
    <3>6. CASE PutCheck BY <3>6 DEF PutCheck
    <3>7. CASE PutEnd BY <3>7 DEF PutEnd
    <3> QED BY <2>2, <3>1, <3>2, <3>3, <3>4, <3>5, <3>6, <3>7 DEF ProgramStep
  <2> QED BY <2>1, <2>2 DEF Edge, ProgramEdge
<1> QED BY <1>1, <1>2, <1>3

(* The host keeps its types.                                               *)
LEMMA HostType ==
  ASSUME TypeOK, NEW go \in BOOLEAN, NEW beat \in BOOLEAN, Edge(go, beat)
  PROVE  /\ host' \in DOMAIN HostOrder
         /\ i' \in IF host' = "poll" THEN 0..(MaxPolls - 1)
                   ELSE IF host' \in {"expected", "cipher"} THEN 0..3 ELSE {0}
         /\ seen' \in BOOLEAN
         /\ expected_datas' = [k \in 0..3 |-> expected_datas'[k]]
         /\ read_data' = [k \in 0..3 |-> read_data'[k]]
         /\ fresh' \in BOOLEAN
<1>1. MaxPolls \in Nat /\ MaxPolls > 0
  BY PollsAssumption
<1>2. fresh' \in BOOLEAN
  BY DEF Edge, History, TypeOK
<1> USE DEF TypeOK, HostOrder, Goes
<1>3. CASE WriteDone(beat) BY <1>1, <1>2, <1>3 DEF WriteDone, writing, Request
<1>4. CASE Load(beat) BY <1>1, <1>2, <1>4 DEF Load
<1>5. CASE Poll(beat) BY <1>1, <1>2, <1>5 DEF Poll
<1>6. CASE ReadCount(beat) BY <1>1, <1>2, <1>6 DEF ReadCount
<1>7. CASE ReadLate(beat) BY <1>1, <1>2, <1>7 DEF ReadLate
<1>8. CASE ReadExpected(beat)
  <2>1. expected_datas' = [k \in 0..3 |-> expected_datas'[k]]
    BY <1>8 DEF ReadExpected
  <2>2. /\ host' \in DOMAIN HostOrder /\ seen' \in BOOLEAN
        /\ i' \in IF host' = "poll" THEN 0..(MaxPolls - 1)
                  ELSE IF host' \in {"expected", "cipher"} THEN 0..3 ELSE {0}
        /\ read_data' = read_data
    BY <1>1, <1>8 DEF ReadExpected
  <2> QED BY <1>2, <2>1, <2>2
<1>9. CASE ReadCipher(beat)
  <2>1. read_data' = [k \in 0..3 |-> read_data'[k]]
    BY <1>9 DEF ReadCipher
  <2>2. /\ host' \in DOMAIN HostOrder /\ seen' \in BOOLEAN
        /\ i' \in IF host' = "poll" THEN 0..(MaxPolls - 1)
                  ELSE IF host' \in {"expected", "cipher"} THEN 0..3 ELSE {0}
        /\ expected_datas' = expected_datas
    BY <1>1, <1>9 DEF ReadCipher
  <2> QED BY <1>2, <2>1, <2>2
<1>10. CASE ReadVerdict(beat) BY <1>1, <1>2, <1>10 DEF ReadVerdict
<1>11. CASE HostWaits(beat) BY <1>2, <1>11 DEF HostWaits, hostVars
<1> QED
  BY <1>3, <1>4, <1>5, <1>6, <1>7, <1>8, <1>9, <1>10, <1>11 DEF Edge, HostEdge

(* Every clock edge keeps the types.                                       *)
LEMMA TypeStep ==
  ASSUME TypeOK, NEW go \in BOOLEAN, NEW beat \in BOOLEAN, Edge(go, beat)
  PROVE  TypeOK'
BY DetectorType, ProgramType, HostType DEF TypeOK

(* ---- the program --------------------------------------------------------- *)
(* Until it is started, in a session after a download, the program waits.  *)
LEMMA WaitsUntilStarted ==
  ASSUME IInv, fresh, NEW go \in BOOLEAN, NEW beat \in BOOLEAN, Edge(go, beat),
         host = "load" \/ ~fetch_enable_q
  PROVE  pc' = "wait" /\ ~fetch_enable_q
<1>1. ~fetch_enable_q
  BY DEF IInv, DetectorInStep, HostOrder
<1>2. pc = "wait"
  BY <1>1 DEF IInv, ProgramInStep
<1> QED BY <1>1, <1>2 DEF Edge, ProgramEdge, Halted

(* A step of the program stores its word and leaves the others alone.      *)
LEMMA RamStep ==
  ASSUME IInv, fresh, fetch_enable_q, NEW go \in BOOLEAN, NEW beat \in BOOLEAN, Edge(go, beat)
  PROVE  ram' = IF Port(go).wen THEN [ram EXCEPT ![Port(go).addr \div 4] = Port(go).data]
                ELSE ram
<1>1. host # "load"
  BY WaitsUntilStarted
<1> QED BY <1>1 DEF Edge, RamEdge

(* ProgramInStep with the words by their numbers.                          *)
ProgramWords ==
  fresh =>
    /\ \A k \in 0..3 :
         /\ Made("encrypt", k)  => ram[8176 + k] = vector_word(result, k)
         /\ Made("expected", k) => ram[2060 + k] = vector_word(expected_output, k)
         /\ Made("cipher", k)   => ram[2064 + k] = vector_word(result, k)
    /\ pc = "compare" =>
         value = CAFEBABE /\ \A j \in 1..n : result[j] = expected_output[j]
    /\ Order[pc] > Order["compare"] => value = Verdict
    /\ Order[pc] > Order["check"] => ram[2049] = Verdict
    /\ pc = "wait" \/ fetch_enable_q

LEMMA InNumbers == ProgramInStep <=> ProgramWords
<1>1. WordAt(CHECK) = 2049
  BY FlagLayout
<1>2. \A k \in 0..3 : /\ WordAt(CIPHERTEXT + 4 * k) = 8176 + k
                      /\ WordAt(EXPECTED + 4 * k) = 2060 + k
                      /\ WordAt(CIPHER + 4 * k) = 2064 + k
  BY Layout
<1> QED BY SMT, <1>1, <1>2 DEF ProgramInStep, ProgramWords

(* The words that the program stores, by their numbers.                    *)
LEMMA WrittenWords ==
  ASSUME TypeOK
  PROVE  /\ pc = "encrypt" => /\ Written.wen /\ Written.addr \div 4 = 8176 + n
                              /\ Written.data = vector_word(result, n)
         /\ pc = "expected" => /\ Written.wen /\ Written.addr \div 4 = 2060 + n
                               /\ Written.data = vector_word(expected_output, n)
         /\ pc = "cipher" => /\ Written.wen /\ Written.addr \div 4 = 2064 + n
                             /\ Written.data = ram[8176 + n]
         /\ pc = "check" => Written.wen /\ Written.addr \div 4 = 2049 /\ Written.data = value
         /\ pc = "end" => Written.wen /\ Written.addr \div 4 = 2048 /\ Written.data = DEADBEEF
         /\ pc \in {"wait", "compare", "eoc"} => ~Written.wen
<1>1. /\ CIPHERTEXT \in Nat /\ EXPECTED \in Nat /\ CIPHER \in Nat /\ CHECK \in Nat /\ END \in Nat
  BY SMT DEF CIPHERTEXT, EXPECTED, CIPHER, CHECK, END, Sram
<1>2. pc \in {"encrypt", "expected", "cipher"} =>
        /\ n \in 0..3 /\ CIPHERTEXT + 4 * n \in Nat /\ EXPECTED + 4 * n \in Nat
        /\ CIPHER + 4 * n \in Nat
  BY SMT, <1>1 DEF TypeOK, Loops
<1>3. CASE pc = "encrypt"
  BY SMT, <1>2, <1>3, Layout, PortStore DEF Written
<1>4. CASE pc = "expected"
  BY SMT, <1>2, <1>4, Layout, PortStore DEF Written
<1>5. CASE pc = "cipher"
  BY SMT, <1>2, <1>5, Layout, PortStore DEF Written
<1>6. CASE pc = "check"
  BY SMT, <1>1, <1>6, FlagLayout, PortStore DEF Written
<1>7. CASE pc = "end"
  BY SMT, <1>1, <1>7, FlagLayout, PortStore DEF Written
<1>8. CASE pc \in {"wait", "compare", "eoc"}
  BY SMT, <1>8 DEF Written, NoStore
<1>9. pc \in {"encrypt", "expected", "cipher", "check", "end", "wait", "compare", "eoc"}
  BY DEF TypeOK, Order
<1> QED BY <1>3, <1>4, <1>5, <1>6, <1>7, <1>8, <1>9

(* A step without a store leaves the RAM alone.                            *)
LEMMA QuietStep ==
  ASSUME IInv, fresh, fetch_enable_q, NEW go \in BOOLEAN, NEW beat \in BOOLEAN, Edge(go, beat),
         ~go \/ pc \in {"wait", "compare", "eoc"}
  PROVE  ram' = ram
BY RamStep, WrittenWords DEF IInv, Port, NoStore

(* A step that stores.                                                     *)
LEMMA StoringStep ==
  ASSUME IInv, fresh, fetch_enable_q, NEW beat \in BOOLEAN, Edge(TRUE, beat), Written.wen
  PROVE  ram' = [ram EXCEPT ![Written.addr \div 4] = Written.data]
BY RamStep DEF Port

(* Comparing byte by byte finds the first difference, if there is one.     *)
LEMMA CompareStep ==
  ASSUME IInv, fresh, fetch_enable_q, NEW beat \in BOOLEAN, Edge(TRUE, beat), Compare
  PROVE  /\ pc' = "compare" => value' = CAFEBABE /\ \A j \in 1..n' : result[j] = expected_output[j]
         /\ pc' # "compare" => pc' = "check" /\ value' = Verdict
<1>1. /\ pc = "compare" /\ n \in 0..15 /\ value = CAFEBABE
      /\ \A j \in 1..n : result[j] = expected_output[j]
      /\ \A k \in 0..3 : ram[8176 + k] = vector_word(result, k)
  BY InNumbers DEF IInv, TypeOK, Compare, Loops, ProgramWords, Made, Order
<1>2. ciphertext(n) = result[n + 1]
  <2>1. /\ n \div 4 \in 0..3 /\ n % 4 \in 0..3 /\ n = 4 * (n \div 4) + (n % 4)
        /\ WordAt(CIPHERTEXT + n) = 8176 + n \div 4
    BY <1>1, WordOfByte
  <2>2. PICK k \in 0..3, m \in 0..3 : k = n \div 4 /\ m = n % 4
    BY <2>1
  <2>3. n = 4 * k + m /\ WordAt(CIPHERTEXT + n) = 8176 + k
    BY <2>1, <2>2
  <2>4. ciphertext(n) = vector_word(result, k)[m + 1]
    BY <1>1, <2>2, <2>3 DEF ciphertext
  <2>5. vector_word(result, k)[m + 1] = result[4 * k + m + 1]
    BY BytesOfWord
  <2> QED BY <2>3, <2>4, <2>5
<1>3. result \in Block /\ expected_output \in Block
  BY BlockAssumption DEF IInv, TypeOK
<1>4. CASE result[n + 1] # expected_output[n + 1]
  <2>1. result # expected_output
    BY <1>4
  <2> QED BY <1>2, <1>4, <2>1 DEF Compare, Goto, Verdict
<1>5. CASE result[n + 1] = expected_output[n + 1] /\ n < 15
  BY <1>1, <1>2, <1>5 DEF Compare, Goto
<1>6. CASE result[n + 1] = expected_output[n + 1] /\ n = 15
  <2>1. \A j \in 1..16 : result[j] = expected_output[j]
    BY <1>1, <1>6
  <2>2. result = expected_output
    BY <1>3, <2>1 DEF Block
  <2> QED BY <1>1, <1>2, <1>6, <2>2 DEF Compare, Goto, Verdict
<1> QED BY <1>1, <1>4, <1>5, <1>6

(* Every clock edge keeps the program in step with its RAM.                *)
LEMMA ProgramKeeps ==
  ASSUME IInv, NEW go \in BOOLEAN, NEW beat \in BOOLEAN, Edge(go, beat)
  PROVE  ProgramInStep'
<1>1. ProgramInStep' <=> ProgramWords'
  BY InNumbers, PTL
<1>2. fresh' = fresh
  BY DEF Edge, History
<1> SUFFICES ASSUME fresh PROVE ProgramWords'
  BY <1>1, <1>2 DEF ProgramWords
<1>3. go => Edge(TRUE, beat)
  BY Zenon
<1>4. result' = result /\ fresh' = fresh /\ (fetch_enable_q => fetch_enable_q')
  BY DEF Edge, History, StartEdge
<1>5. CASE ~fetch_enable_q
  <2>1. pc' = "wait"
    BY <1>5, WaitsUntilStarted
  <2> QED BY <2>1 DEF ProgramWords, Made, Order
<1>6. CASE fetch_enable_q
  <2> DEFINE Words ==
        /\ \A k \in 0..3 :
             /\ Made("encrypt", k)  => ram[8176 + k] = vector_word(result, k)
             /\ Made("expected", k) => ram[2060 + k] = vector_word(expected_output, k)
             /\ Made("cipher", k)   => ram[2064 + k] = vector_word(result, k)
        /\ pc = "compare" =>
             value = CAFEBABE /\ \A j \in 1..n : result[j] = expected_output[j]
        /\ Order[pc] > Order["compare"] => value = Verdict
        /\ Order[pc] > Order["check"] => ram[2049] = Verdict
  <2>1. TypeOK /\ TypeOK' /\ Words
    BY InNumbers, TypeStep DEF IInv, ProgramWords
  <2>2. ram = [w \in RamWords |-> ram[w]] /\ fetch_enable_q'
    BY <1>4, <1>6, <2>1 DEF TypeOK
  <2>3. SUFFICES Words'
    BY <2>2 DEF ProgramWords
  <2>4. go /\ Written.wen => ram' = [ram EXCEPT ![Written.addr \div 4] = Written.data]
    BY <1>6, <1>3, StoringStep
  <2>5. CASE UNCHANGED <<pc, n, value>> /\ (~go \/ pc = "eoc")
    <3>1. ram' = ram
      BY <1>6, <2>5, QuietStep
    <3> QED BY <1>4, <2>1, <2>5, <3>1 DEF Made, Verdict
  <2>6. CASE go /\ Boot(fetch_enable_q)
    BY <2>6 DEF Boot, Goto, Made, Order
  <2>7. CASE go /\ Encrypt
    <3>1. pc = "encrypt" /\ n \in 0..3 /\ ram' = [ram EXCEPT ![8176 + n] = vector_word(result, n)]
      BY <2>1, <2>7, <2>4, WrittenWords DEF Encrypt, TypeOK, Loops
    <3>2. \A k \in 0..3 : k <= n => ram'[8176 + k] = vector_word(result, k)
      BY <2>1, <2>2, <3>1, RamLayout DEF Made
    <3> QED BY <1>4, <2>1, <2>7, <3>1, <3>2 DEF Encrypt, NextWord, Goto, Made, Order
  <2>8. CASE go /\ PutExpected
    <3>1. /\ pc = "expected" /\ n \in 0..3
          /\ ram' = [ram EXCEPT ![2060 + n] = vector_word(expected_output, n)]
      BY <2>1, <2>8, <2>4, WrittenWords DEF PutExpected, TypeOK, Loops
    <3>2. \A k \in 0..3 : k <= n => ram'[2060 + k] = vector_word(expected_output, k)
      BY <2>1, <2>2, <3>1, RamLayout DEF Made
    <3>3. \A k \in 0..3 : ram'[8176 + k] = vector_word(result, k)
      BY <2>1, <2>2, <3>1, RamLayout DEF Made, Order
    <3> QED BY <1>4, <2>1, <2>8, <3>1, <3>2, <3>3 DEF PutExpected, NextWord, Goto, Made, Order
  <2>9. CASE go /\ PutCipher
    <3>1. /\ pc = "cipher" /\ n \in 0..3
          /\ ram' = [ram EXCEPT ![2064 + n] = vector_word(result, n)]
      <4>1. pc = "cipher" /\ n \in 0..3
        BY <2>1, <2>9 DEF PutCipher, TypeOK, Loops
      <4>2. ram[8176 + n] = vector_word(result, n)
        BY <2>1, <4>1 DEF Made, Order
      <4> QED BY <2>1, <2>9, <2>4, <4>1, <4>2, WrittenWords
    <3>2. \A k \in 0..3 : k <= n => ram'[2064 + k] = vector_word(result, k)
      BY <2>1, <2>2, <3>1, RamLayout DEF Made
    <3>3. \A k \in 0..3 : /\ ram'[8176 + k] = vector_word(result, k)
                          /\ ram'[2060 + k] = vector_word(expected_output, k)
      BY <2>1, <2>2, <3>1, RamLayout DEF Made, Order
    <3>4. pc' = "compare" => n' = 0 /\ value' = CAFEBABE
      BY <2>9, <3>1 DEF PutCipher, NextWord, Goto
    <3> QED BY <1>4, <2>1, <2>9, <3>1, <3>2, <3>3, <3>4 DEF PutCipher, NextWord, Goto, Made, Order
  <2>10. CASE go /\ Compare
    <3>1. ram' = ram /\ pc = "compare"
      BY <1>6, <2>10, QuietStep DEF Compare
    <3>2. /\ pc' = "compare" => value' = CAFEBABE /\ \A j \in 1..n' : result[j] = expected_output[j]
          /\ pc' # "compare" => pc' = "check" /\ value' = Verdict
      BY <1>6, <2>10, CompareStep
    <3> QED BY <1>4, <2>1, <3>1, <3>2 DEF Made, Order, Verdict
  <2>11. CASE go /\ PutCheck
    <3>1. pc = "check" /\ pc' = "end" /\ value' = value
      BY <2>11 DEF PutCheck, Goto
    <3>2. ram' = [ram EXCEPT ![2049] = value]
      BY <2>1, <2>11, <2>4, <3>1, WrittenWords
    <3> QED BY <1>4, <2>1, <2>2, <3>1, <3>2, RamLayout DEF Made, Order, Verdict
  <2>12. CASE go /\ PutEnd
    <3>1. pc = "end" /\ pc' = "eoc" /\ value' = value
      BY <2>12 DEF PutEnd, Goto
    <3>2. ram' = [ram EXCEPT ![2048] = DEADBEEF]
      BY <2>1, <2>12, <2>4, <3>1, WrittenWords
    <3> QED BY <1>4, <2>1, <2>2, <3>1, <3>2, RamLayout DEF Made, Order, Verdict
  <2>13. CASE ~go \/ Halted(fetch_enable_q)
    <3>1. UNCHANGED <<pc, n, value>>
      BY <2>13 DEF Edge, ProgramEdge
    <3> QED BY <1>6, <2>5, <2>13, <3>1 DEF Halted
  <2>14. CASE go /\ ~Halted(fetch_enable_q)
    <3>1. ProgramStep(fetch_enable_q)
      BY <2>14 DEF Edge, ProgramEdge
    <3> QED BY <2>6, <2>7, <2>8, <2>9, <2>10, <2>11, <2>12, <2>14, <3>1 DEF ProgramStep
  <2> QED BY <2>13, <2>14
<1> QED BY <1>5, <1>6

(* ---- the detector -------------------------------------------------------- *)
(* The store of the end word is the match, and no other store is.          *)
LEMMA EndIsMatch ==
  ASSUME TypeOK, NEW go \in BOOLEAN
  PROVE  is_match(Port(go)) <=> go /\ pc = "end"
<1>1. ~NoStore.wen
  BY DEF NoStore
<1>2. CASE ~go
  BY <1>1, <1>2 DEF Port, is_match
<1>3. CASE go /\ pc = "end"
  <2>1. END \in Nat /\ END % 32768 = 8192
    BY SMT DEF END, Sram
  <2>2. Port(go) = write_to_address(END, DEADBEEF)
    BY <1>3 DEF Port, Written
  <2>3. /\ write_to_address(END, DEADBEEF).wen
        /\ write_to_address(END, DEADBEEF).addr = 8192
        /\ write_to_address(END, DEADBEEF).data = DEADBEEF
    BY SMT, <2>1, PortStore
  <2>4. C_SNOOP_ADDR = 8192 /\ C_SNOOP_DATA = DEADBEEF
    BY SMT DEF C_SNOOP_ADDR, C_SNOOP_DATA, DEADBEEF
  <2>5. is_match(write_to_address(END, DEADBEEF))
    BY SMT, <2>3, <2>4 DEF is_match
  <2> QED BY <1>3, <2>2, <2>5
<1>4. CASE go /\ pc # "end" /\ Written.wen
  <2>1. Written.addr \div 4 # 2048
    <3>1. pc \in {"encrypt", "expected", "cipher", "check", "end", "wait", "compare", "eoc"}
      BY DEF TypeOK, Order
    <3>2. pc \in {"encrypt", "expected", "cipher"} => n \in 0..3
      BY DEF TypeOK, Loops
    <3> QED BY <1>4, <3>1, <3>2, WrittenWords
  <2>2. Written.addr # 8192
    BY SMT, <2>1
  <2> QED BY <1>4, <2>2 DEF Port, is_match, C_SNOOP_ADDR
<1>5. CASE go /\ pc # "end" /\ ~Written.wen
  BY <1>5 DEF Port, is_match
<1> QED BY <1>2, <1>3, <1>4, <1>5

(* The program gets to its end by that store.                              *)
LEMMA EndStep ==
  ASSUME TypeOK, NEW go \in BOOLEAN, NEW beat \in BOOLEAN, Edge(go, beat)
  PROVE  pc' = "eoc" <=> pc = "eoc" \/ (go /\ pc = "end")
<1>1. CASE ~go \/ Halted(fetch_enable_q)
  <2>1. pc' = pc
    BY <1>1 DEF Edge, ProgramEdge
  <2> QED BY <1>1, <2>1 DEF Halted
<1>2. CASE go /\ ~Halted(fetch_enable_q)
  <2>1. ProgramStep(fetch_enable_q)
    BY <1>2 DEF Edge, ProgramEdge
  <2> QED
    BY <1>2, <2>1
    DEF ProgramStep, Boot, Encrypt, PutExpected, PutCipher, Compare, PutCheck, PutEnd, Goto, NextWord
<1> QED BY <1>1, <1>2

(* While the core runs as it was told to, or has stored the end word, the  *)
(* counter counts what it should.                                          *)
LEMMA CountStep ==
  ASSUME IInv, fresh, NEW go \in BOOLEAN, NEW beat \in BOOLEAN, Edge(go, beat),
         clk_counter = since, match_found \/ (started <=> fetch_enable)
  PROVE  clk_counter' = since'
<1>1. match_found <=> pc = "eoc"
  BY DEF IInv, DetectorInStep
<1>2. clk_counter' = IF fetch_enable /\ ~match_found THEN (clk_counter + 1) % CountRange
                     ELSE clk_counter
  BY DEF Edge, SnoopEdge
<1>3. since' = IF started /\ pc # "eoc" THEN (since + 1) % CountRange ELSE since
  BY DEF Edge, History
<1> QED BY <1>1, <1>2, <1>3

(* What a clock edge does to the host's place in its script.               *)
LEMMA HostMoves ==
  ASSUME TypeOK, NEW go \in BOOLEAN, NEW beat \in BOOLEAN, Edge(go, beat)
  PROVE  \/ /\ host' = host /\ seen' = seen
            /\ ~(writing /\ written(beat)) /\ ~(reading /\ read_answered(beat))
         \/ /\ writing /\ written(beat) /\ seen' = seen
            /\ \/ host = "reboot1" /\ host' = "reboot0"
               \/ host = "reboot0" /\ host' = "load"
               \/ host = "start" /\ host' = "poll"
               \/ host = "stop" /\ host' = IF seen THEN "count" ELSE "late"
         \/ host = "load" /\ host' = "start" /\ seen' = seen
         \/ /\ host = "poll" /\ read_answered(beat) /\ (seen' <=> rdata % 2 = 1)
            /\ \/ host' = "poll" /\ ~seen'
               \/ host' = "stop" \/ (host' = IF seen' THEN "count" ELSE "late")
         \/ /\ HostOrder[host] >= 6 /\ HostOrder[host'] > HostOrder[host] /\ seen' = seen
            /\ host = "count" => read_answered(beat)
<1> USE DEF Goes
<1>1. CASE WriteDone(beat)
  <2>1. host \in {"reboot1", "reboot0", "start", "stop"}
    BY <1>1 DEF WriteDone, writing, Request
  <2> QED BY <1>1, <2>1 DEF WriteDone
<1>2. CASE Load(beat) BY <1>2 DEF Load
<1>3. CASE Poll(beat)
  <2>1. host = "poll" /\ read_answered(beat) /\ (seen' <=> rdata % 2 = 1)
    BY <1>3 DEF Poll
  <2>2. rdata % 2 \in 0..1
    BY DEF TypeOK
  <2> QED BY <1>3, <2>1, <2>2 DEF Poll
<1>4. CASE ReadCount(beat) BY <1>4 DEF ReadCount, HostOrder
<1>5. CASE ReadLate(beat) BY <1>5 DEF ReadLate, HostOrder
<1>6. CASE ReadExpected(beat) BY <1>6 DEF ReadExpected, HostOrder, writing, Request, reading
<1>7. CASE ReadCipher(beat) BY <1>7 DEF ReadCipher, HostOrder, writing, Request, reading
<1>8. CASE ReadVerdict(beat) BY <1>8 DEF ReadVerdict, HostOrder
<1>9. CASE HostWaits(beat)
  <2>1. host' = host /\ seen' = seen
    BY <1>9 DEF HostWaits, hostVars
  <2>2. host = "done" => ~writing /\ ~reading
    BY DEF writing, reading, Request
  <2>3. writing => ~reading
    BY DEF writing, reading, Request
  <2> QED BY <1>9, <2>1, <2>2, <2>3 DEF HostWaits, written, read_answered
<1> QED BY <1>1, <1>2, <1>3, <1>4, <1>5, <1>6, <1>7, <1>8, <1>9 DEF Edge, HostEdge

(* After the match neither the count nor the program moves.                *)
LEMMA AfterMatch ==
  ASSUME IInv, fresh, NEW go \in BOOLEAN, NEW beat \in BOOLEAN, Edge(go, beat), match_found
  PROVE  /\ match_found' /\ pc = "eoc" /\ clk_counter' = clk_counter /\ since' = since
         /\ registers'[0] = 1 /\ registers'[1] = clk_counter
<1>1. pc = "eoc"
  BY DEF IInv, DetectorInStep
<1>2. clk_counter' = clk_counter /\ match_found'
  BY DEF Edge, SnoopEdge
<1>3. since' = since
  BY <1>1 DEF Edge, History
<1> QED BY <1>1, <1>2, <1>3 DEF Edge, BankEdge

(* The end that the host sees is the match.                                *)
LEMMA SeenIsMatch ==
  ASSUME IInv, fresh, NEW go \in BOOLEAN, NEW beat \in BOOLEAN, Edge(go, beat),
         seen \/ seen'
  PROVE  match_found /\ registers[0] = 1 /\ registers[1] = clk_counter /\ clk_counter = since
<1>1. CASE seen
  BY <1>1 DEF IInv, DetectorInStep, HostInStep
<1>2. CASE ~seen /\ seen'
  <2>1. host = "poll" /\ read_answered(beat) /\ rdata % 2 = 1
    BY <1>2, HostMoves DEF IInv
  <2>2. registers[0] = 1
    BY <2>1 DEF IInv, HostInStep, read_answered
  <2> QED BY <2>1, <2>2 DEF IInv, DetectorInStep, HostOrder
<1> QED BY <1>1, <1>2

(* A write of the control register, and the start of the core, at an edge. *)
LEMMA ControlStep ==
  ASSUME IInv, fresh, NEW go \in BOOLEAN, NEW beat \in BOOLEAN, Edge(go, beat)
  PROVE  /\ started' <=> started \/ (host = "start" /\ w_hs(beat))
         /\ ~(writing /\ w_hs(beat)) => (fetch_enable' <=> fetch_enable)
         /\ writing /\ w_hs(beat) => (fetch_enable' <=> host = "start")
<1>1. started' <=> started \/ (host = "start" /\ w_hs(beat))
  BY DEF Edge, History
<1>2. input_signal' = IF w_hs(beat /\ writing) THEN IF writing THEN Request[host] ELSE {}
                      ELSE input_signal
  BY DEF Edge, WriteEdge
<1>3. w_hs(beat /\ writing) <=> writing /\ w_hs(beat)
  BY DEF w_hs
<1>4. writing => ("fetch_enable" \in Request[host] <=> host = "start")
  BY DEF writing, Request
<1> QED BY <1>1, <1>2, <1>3, <1>4 DEF fetch_enable

(* Every clock edge keeps the detector and its bank in step with the end.  *)
LEMMA DetectorKeeps ==
  ASSUME IInv, NEW go \in BOOLEAN, NEW beat \in BOOLEAN, Edge(go, beat)
  PROVE  DetectorInStep'
<1>1. fresh' = fresh
  BY DEF Edge, History
<1> SUFFICES ASSUME fresh PROVE DetectorInStep'
  BY <1>1 DEF DetectorInStep
<1>2. TypeOK /\ TypeOK' /\ DetectorInStep /\ HostInStep
  BY TypeStep DEF IInv
<1>3. match_found' <=> pc' = "eoc"
  <2>1. match_found' <=> is_match(Port(go)) \/ match_found
    BY DEF Edge, SnoopEdge
  <2> QED BY <1>2, <2>1, EndIsMatch, EndStep DEF DetectorInStep
<1>4. fetch_enable_q' => started'
  <2>1. fetch_enable_q' <=> fetch_enable \/ fetch_enable_q
    BY DEF Edge, StartEdge
  <2> QED BY <1>2, <2>1, ControlStep DEF DetectorInStep
<1>5. started' \/ (~fetch_enable' /\ since' = 0)
  <2>1. SUFFICES ASSUME ~started' PROVE ~fetch_enable' /\ since' = 0
    OBVIOUS
  <2>2. ~started /\ ~fetch_enable /\ since = 0 /\ ~(host = "start" /\ w_hs(beat))
    BY <1>2, <2>1, ControlStep DEF DetectorInStep
  <2>3. ~fetch_enable'
    BY <2>2, ControlStep
  <2>4. since' = since
    BY <2>2 DEF Edge, History
  <2> QED BY <2>2, <2>3, <2>4
<1>6. HostOrder[host'] < HostOrder["poll"] => (started' => host' = "start" /\ wstate' = "WRRESP")
  <2>1. SUFFICES ASSUME HostOrder[host'] < HostOrder["poll"], started'
                 PROVE  host' = "start" /\ wstate' = "WRRESP"
    OBVIOUS
  <2>2. HostOrder[host] < HostOrder["poll"]
    BY <2>1, <1>2, HostMoves DEF HostOrder, TypeOK
  <2>3. host = "start" /\ wstate \in {"WRDATA", "WRRESP"}
    BY <1>2, <2>1, <2>2, ControlStep DEF DetectorInStep, w_hs
  <2>4. ~(wstate = "WRRESP" /\ beat) /\ host' = host
    BY <1>2, <2>1, <2>3, HostMoves DEF HostOrder, writing, Request, written
  <2>5. wstate = "WRDATA" => beat
    BY <1>2, <2>1, <2>2, <2>3, ControlStep DEF DetectorInStep, w_hs
  <2>6. wstate' = "WRRESP"
    BY <2>3, <2>4, <2>5 DEF Edge, WriteEdge, writing, Request
  <2> QED BY <2>3, <2>4, <2>6
<1>7. HostOrder[host'] \in HostOrder["start"]..HostOrder["poll"] => (started' <=> fetch_enable')
  <2>1. SUFFICES ASSUME host' \in {"start", "poll"} PROVE started' <=> fetch_enable'
    BY <1>2 DEF HostOrder, TypeOK
  <2>2. CASE host = "load"
    <3>1. ~started /\ ~fetch_enable /\ ~writing
      BY <1>2, <2>2 DEF DetectorInStep, HostOrder, writing, Request
    <3> QED BY <2>2, <3>1, ControlStep
  <2>3. CASE host \in {"start", "poll"}
    <3>1. started <=> fetch_enable
      BY <1>2, <2>3 DEF DetectorInStep, HostOrder
    <3>2. writing <=> host = "start"
      BY <2>3 DEF writing, Request
    <3> QED BY <2>3, <3>1, <3>2, ControlStep
  <2>4. host \in {"load", "start", "poll"}
    BY <1>2, <2>1, HostMoves DEF HostOrder, TypeOK
  <2> QED BY <2>2, <2>3, <2>4
<1>8. HostOrder[host'] \in HostOrder["start"]..HostOrder["poll"] \/ seen' \/ ~started'
        => clk_counter' = since'
  <2>1. CASE ~started'
    <3>1. ~started /\ ~fetch_enable /\ clk_counter = since
      BY <1>2, <2>1, ControlStep DEF DetectorInStep
    <3> QED BY <3>1, CountStep
  <2>2. CASE seen'
    <3>1. match_found /\ clk_counter = since
      BY <2>2, SeenIsMatch
    <3> QED BY <3>1, AfterMatch
  <2>3. CASE started' /\ host' \in {"start", "poll"}
    <3>1. CASE host = "load"
      <4>1. ~started
        BY <1>2, <3>1 DEF DetectorInStep, HostOrder
      <4> QED BY <2>3, <3>1, <4>1, ControlStep
    <3>2. CASE host \in {"start", "poll"}
      <4>1. clk_counter = since /\ (started <=> fetch_enable)
        BY <1>2, <3>2 DEF DetectorInStep, HostOrder
      <4> QED BY <4>1, CountStep
    <3>3. host \in {"load", "start", "poll"}
      BY <1>2, <2>3, HostMoves DEF HostOrder, TypeOK
    <3> QED BY <3>1, <3>2, <3>3
  <2>4. HostOrder[host'] \in HostOrder["start"]..HostOrder["poll"] => host' \in {"start", "poll"}
    BY <1>2 DEF HostOrder, TypeOK
  <2> QED BY <2>1, <2>2, <2>3, <2>4
<1>9. registers'[0] = 1 => match_found' /\ registers'[1] = clk_counter'
  <2>1. registers'[0] = IF match_found THEN 1 ELSE 0
    BY DEF Edge, BankEdge
  <2> QED BY <2>1, AfterMatch
<1> QED BY <1>3, <1>4, <1>5, <1>6, <1>7, <1>8, <1>9 DEF DetectorInStep

(* ---- the host ------------------------------------------------------------ *)
(* What the host reads in the RAM after the end.                           *)
LEMMA AtTheEnd ==
  ASSUME IInv, fresh, match_found
  PROVE  /\ \A k \in 0..3 :
              /\ ram[WordAt(expected_result_addr + 4 * k)] = vector_word(expected_output, k)
              /\ ram[WordAt(result_addr + 4 * k)] = vector_word(result, k)
         /\ ram[WordAt(result_check_addr)] = Verdict
<1>1. pc = "eoc"
  BY DEF IInv, DetectorInStep
<1>2. ProgramWords
  BY InNumbers DEF IInv
<1>3. Order[pc] > Order["check"] /\ Order[pc] > Order["expected"] /\ Order[pc] > Order["cipher"]
  BY <1>1 DEF Order
<1>4. /\ \A k \in 0..3 : /\ ram[2060 + k] = vector_word(expected_output, k)
                         /\ ram[2064 + k] = vector_word(result, k)
      /\ ram[2049] = Verdict
  BY <1>2, <1>3 DEF ProgramWords, Made
<1>5. \A k \in 0..3 : /\ WordAt(expected_result_addr + 4 * k) = 2060 + k
                      /\ WordAt(result_addr + 4 * k) = 2064 + k
  BY Layout
<1>6. WordAt(result_check_addr) = 2049
  BY FlagLayout
<1> QED BY SMT, <1>4, <1>5, <1>6

(* A read of the bank at an edge.                                          *)
LEMMA BankStep ==
  ASSUME IInv, fresh, NEW go \in BOOLEAN, NEW beat \in BOOLEAN, Edge(go, beat), rstate' = "RDDATA"
  PROVE  /\ reading /\ host' = host /\ seen' = seen
         /\ \/ rstate = "RDDATA" /\ rdata' = rdata
            \/ rstate = "RDIDLE" /\ rdata' = registers[bank_register]
<1>1. HostInStep /\ TypeOK
  BY DEF IInv
<1>2. /\ rstate = "RDDATA" => reading
      /\ rstate' = IF rstate = "RDIDLE" /\ beat /\ reading THEN "RDDATA"
                   ELSE IF rstate = "RDRESET" \/ (rstate = "RDDATA" /\ beat /\ reading)
                   THEN "RDIDLE" ELSE rstate
      /\ rdata' = IF rstate = "RDIDLE" /\ beat /\ reading THEN registers[bank_register] ELSE rdata
  BY <1>1 DEF HostInStep, Edge, BankEdge, read_accepted, read_answered
<1>3. /\ reading /\ ~(rstate = "RDDATA" /\ beat)
      /\ \/ rstate = "RDDATA" /\ rdata' = rdata
         \/ rstate = "RDIDLE" /\ rdata' = registers[bank_register]
  BY <1>1, <1>2 DEF TypeOK
<1>4. host \in {"poll", "count"} /\ ~writing
  BY <1>3 DEF reading, writing, Request
<1>5. host' = host /\ seen' = seen
  BY <1>1, <1>3, <1>4, HostMoves DEF read_answered, HostOrder
<1> QED BY <1>3, <1>5

(* What the host holds after a read, once it has seen the end.             *)
LEMMA HostReads ==
  ASSUME IInv, fresh, NEW go \in BOOLEAN, NEW beat \in BOOLEAN, Edge(go, beat),
         seen', HostOrder[host'] > HostOrder["count"]
  PROVE  /\ cycles' = since
         /\ \A k \in 0..3 :
              /\ HostOrder[host'] > HostOrder["expected"] \/ (host' = "expected" /\ k < i')
                   => expected_datas'[k] = vector_word(expected_output, k)
              /\ HostOrder[host'] > HostOrder["cipher"] \/ (host' = "cipher" /\ k < i')
                   => read_data'[k] = vector_word(result, k)
         /\ host' = "done" => verdict' = Verdict
<1>1. TypeOK /\ HostInStep
  BY DEF IInv
<1>2. match_found /\ registers[1] = clk_counter /\ clk_counter = since
  BY SeenIsMatch
<1>3. /\ \A k \in 0..3 :
           /\ ram[WordAt(expected_result_addr + 4 * k)] = vector_word(expected_output, k)
           /\ ram[WordAt(result_addr + 4 * k)] = vector_word(result, k)
      /\ ram[WordAt(result_check_addr)] = Verdict
  BY <1>2, AtTheEnd
<1>4. host # "late"
  <2>1. host = "late" => ~seen
    BY <1>1 DEF HostInStep
  <2>2. host = "late" => seen' = seen
    BY <1>1, HostMoves DEF HostOrder, writing, Request
  <2> QED BY <2>1, <2>2
<1>5. CASE host = "count"
  <2>1. ReadCount(beat)
    <3>1. ~HostWaits(beat)
      <4>1. HostWaits(beat) => host' = host
        BY DEF HostWaits, hostVars
      <4> QED BY <1>5, <4>1 DEF HostOrder
    <3> QED
      BY <1>5, <3>1
      DEF Edge, HostEdge, WriteDone, Load, Poll, ReadLate, ReadExpected, ReadCipher, ReadVerdict,
          writing, Request
  <2>2. cycles' = since
    BY <1>1, <1>5, <2>1 DEF HostInStep, ReadCount, read_answered
  <2>3. host' = "expected" /\ i' = 0
    BY <2>1 DEF ReadCount, Goes
  <2> QED BY <2>2, <2>3 DEF HostOrder
<1>6. CASE HostOrder[host] > HostOrder["count"]
  <2>1. seen
    <3>1. host \notin {"reboot1", "reboot0", "load", "start", "stop", "poll"}
      BY <1>6 DEF HostOrder
    <3> QED BY <1>1, <3>1, HostMoves
  <2>2. /\ cycles = since
        /\ \A k \in 0..3 :
             /\ HostOrder[host] > HostOrder["expected"] \/ (host = "expected" /\ k < i)
                  => expected_datas[k] = vector_word(expected_output, k)
             /\ HostOrder[host] > HostOrder["cipher"] \/ (host = "cipher" /\ k < i)
                  => read_data[k] = vector_word(result, k)
        /\ host = "done" => verdict = Verdict
    BY <1>1, <1>6, <2>1 DEF HostInStep
  <2>3. CASE ReadExpected(beat)
    <3>1. host = "expected" /\ i \in 0..3
      BY <1>1, <2>3 DEF ReadExpected, TypeOK
    <3>2. expected_datas' = [expected_datas EXCEPT ![i] = vector_word(expected_output, i)]
      BY <1>3, <2>3, <3>1 DEF ReadExpected
    <3>3. \A k \in 0..3 : k <= i => expected_datas'[k] = vector_word(expected_output, k)
      BY <1>1, <2>2, <3>1, <3>2 DEF TypeOK
    <3>4. (host' = "expected" /\ i' = i + 1) \/ (host' = "cipher" /\ i' = 0 /\ i = 3)
      BY <2>3, <3>1 DEF ReadExpected, Goes
    <3>5. cycles' = cycles
      BY <2>3 DEF ReadExpected
    <3> QED BY <2>2, <3>1, <3>3, <3>4, <3>5 DEF HostOrder
  <2>4. CASE ReadCipher(beat)
    <3>1. host = "cipher" /\ i \in 0..3
      BY <1>1, <2>4 DEF ReadCipher, TypeOK
    <3>2. read_data' = [read_data EXCEPT ![i] = vector_word(result, i)]
      BY <1>3, <2>4, <3>1 DEF ReadCipher
    <3>3. \A k \in 0..3 : k <= i => read_data'[k] = vector_word(result, k)
      BY <1>1, <2>2, <3>1, <3>2 DEF TypeOK
    <3>4. (host' = "cipher" /\ i' = i + 1) \/ (host' = "check" /\ i' = 0 /\ i = 3)
      BY <2>4, <3>1 DEF ReadCipher, Goes
    <3>5. cycles' = cycles /\ expected_datas' = expected_datas
      BY <2>4 DEF ReadCipher
    <3>6. \A k \in 0..3 : expected_datas[k] = vector_word(expected_output, k)
      BY <2>2, <3>1 DEF HostOrder
    <3> QED BY <2>2, <3>1, <3>3, <3>4, <3>5, <3>6 DEF HostOrder
  <2>5. CASE ReadVerdict(beat)
    <3>1. verdict' = Verdict /\ host = "check" /\ host' = "done"
      BY <1>3, <2>5 DEF ReadVerdict, Goes
    <3>2. UNCHANGED <<cycles, expected_datas, read_data>>
      BY <2>5 DEF ReadVerdict
    <3>3. \A k \in 0..3 : /\ expected_datas[k] = vector_word(expected_output, k)
                          /\ read_data[k] = vector_word(result, k)
      BY <2>2, <3>1 DEF HostOrder
    <3> QED BY <2>2, <3>1, <3>2, <3>3
  <2>6. CASE HostWaits(beat)
    <3>1. UNCHANGED <<host, i, cycles, expected_datas, read_data, verdict>>
      BY <2>6 DEF HostWaits, hostVars
    <3> QED BY <2>2, <3>1
  <2>7. host \notin {"reboot1", "reboot0", "load", "start", "poll", "stop", "count"}
    BY <1>6 DEF HostOrder
  <2>8. ~WriteDone(beat) /\ ~Load(beat) /\ ~Poll(beat) /\ ~ReadCount(beat) /\ ~ReadLate(beat)
    BY <1>4, <2>7 DEF WriteDone, Load, Poll, ReadCount, ReadLate, writing, Request
  <2>9. ReadExpected(beat) \/ ReadCipher(beat) \/ ReadVerdict(beat) \/ HostWaits(beat)
    BY <2>8 DEF Edge, HostEdge
  <2> QED BY <2>3, <2>4, <2>5, <2>6, <2>9
<1>7. HostOrder[host] >= 6
  <2>1. host' \notin {"reboot1", "reboot0", "load", "start", "poll", "stop", "count", "late"}
    BY DEF HostOrder
  <2>2. host' = host \/ HostOrder[host] >= 6
    BY <1>1, <2>1, HostMoves
  <2>3. HostOrder[host'] >= 6
    BY <1>1, HostType DEF HostOrder
  <2> QED BY <2>2, <2>3
<1> QED BY <1>1, <1>4, <1>5, <1>6, <1>7 DEF HostOrder, TypeOK

(* Every clock edge keeps what the host has in hands true.                 *)
LEMMA HostKeeps ==
  ASSUME IInv, NEW go \in BOOLEAN, NEW beat \in BOOLEAN, Edge(go, beat)
  PROVE  HostInStep'
<1>1. fresh' = fresh /\ result' = result
  BY DEF Edge, History
<1> SUFFICES ASSUME fresh PROVE HostInStep'
  BY <1>1 DEF HostInStep
<1>2. TypeOK /\ TypeOK' /\ DetectorInStep /\ HostInStep
  BY TypeStep DEF IInv
<1>3. match_found => registers'[0] = 1 /\ since' = since
  BY AfterMatch
<1>4. host' = "poll" /\ rstate' = "RDDATA" /\ rdata' % 2 = 1 => registers'[0] = 1
  <2>1. SUFFICES ASSUME host' = "poll", rstate' = "RDDATA", rdata' % 2 = 1
                 PROVE  match_found
    BY <1>3
  <2>2. host = "poll"
    BY <2>1, BankStep
  <2>3. registers[0] = 1
    <3>1. CASE rstate = "RDDATA" /\ rdata' = rdata
      BY <1>2, <2>1, <2>2, <3>1 DEF HostInStep
    <3>2. CASE rdata' = registers[bank_register]
      <4>1. rdata' = registers[0] /\ registers[0] \in 0..1
        BY <1>2, <2>2, <3>2 DEF bank_register, TypeOK
      <4> QED BY <2>1, <4>1
    <3> QED BY <2>1, <3>1, <3>2, BankStep
  <2> QED BY <1>2, <2>3 DEF DetectorInStep
<1>5. seen' => registers'[0] = 1
  BY <1>3, SeenIsMatch
<1>6. host' = "count" => seen' /\ (rstate' = "RDDATA" => rdata' = since')
  <2>1. SUFFICES ASSUME host' = "count" PROVE seen' /\ (rstate' = "RDDATA" => rdata' = since')
    OBVIOUS
  <2>2. seen'
    <3>1. ~(HostOrder[host] >= 6 /\ HostOrder[host'] > HostOrder[host])
      <4>1. HostOrder[host'] = 6 /\ HostOrder[host] \in Nat
        BY <1>2, <2>1 DEF HostOrder, TypeOK
      <4> QED BY <4>1
    <3>2. host = "count" => seen
      BY <1>2 DEF HostInStep
    <3> QED BY <1>2, <2>1, <3>1, <3>2, HostMoves
  <2>3. ASSUME rstate' = "RDDATA" PROVE rdata' = since'
    <3>1. host = "count"
      BY <2>1, <2>3, BankStep
    <3>2. match_found /\ registers[1] = since
      BY <2>2, SeenIsMatch
    <3>3. CASE rstate = "RDDATA" /\ rdata' = rdata
      BY <1>2, <1>3, <3>1, <3>2, <3>3 DEF HostInStep
    <3>4. CASE rdata' = registers[bank_register]
      BY <1>3, <3>1, <3>2, <3>4 DEF bank_register
    <3> QED BY <2>3, <3>3, <3>4, BankStep
  <2> QED BY <2>2, <2>3
<1>7. HostOrder[host'] <= HostOrder["poll"] \/ host' = "late" => ~seen'
  BY <1>2, HostMoves DEF HostInStep, HostOrder, TypeOK
<1>8. rstate' = "RDDATA" => reading'
  BY BankStep DEF reading
<1>9. wstate' \in {"WRDATA", "WRRESP"} => writing'
  <2>1. SUFFICES ASSUME wstate' \in {"WRDATA", "WRRESP"} PROVE writing'
    OBVIOUS
  <2>2. writing /\ ~written(beat)
    BY <1>2, <2>1 DEF Edge, WriteEdge, HostInStep, written, TypeOK
  <2>3. ~reading /\ host \in {"reboot1", "reboot0", "start", "stop"}
    BY <2>2 DEF writing, reading, Request
  <2>4. host' = host
    BY <1>2, <2>2, <2>3, HostMoves DEF HostOrder, reading
  <2> QED BY <2>2, <2>4 DEF writing
<1>10. ASSUME seen', HostOrder[host'] > HostOrder["count"]
       PROVE  /\ cycles' = since'
              /\ \A k \in 0..3 :
                   /\ HostOrder[host'] > HostOrder["expected"] \/ (host' = "expected" /\ k < i')
                        => expected_datas'[k] = vector_word(expected_output, k)
                   /\ HostOrder[host'] > HostOrder["cipher"] \/ (host' = "cipher" /\ k < i')
                        => read_data'[k] = vector_word(result', k)
              /\ host' = "done" => verdict' = Verdict'
  <2>1. since' = since /\ Verdict' = Verdict
    BY <1>1, <1>3, <1>10, SeenIsMatch DEF Verdict
  <2> QED BY <1>1, <1>10, <2>1, HostReads
<1> QED BY <1>4, <1>5, <1>6, <1>7, <1>8, <1>9, <1>10 DEF HostInStep

(* ---- sessions ------------------------------------------------------------- *)
(* A download puts everything back to where it was first.                  *)
LEMMA DownloadKeeps == Download => IInv'
<1>1. Download => Init'
  BY DEF Download, Init, DetectorInit, RebootInit, ProgramInit, Goes
<1>2. Init' => IInv'
  BY InitInvariant, PTL
<1> QED BY <1>1, <1>2

(* Without a download the invariant promises the types only.               *)
LEMMA RunAgainKeeps ==
  ASSUME IInv, RunAgain
  PROVE  IInv'
<1>1. fresh' = FALSE
  BY DEF RunAgain
<1>2. TypeOK'
  <2>1. CountRange \in Nat /\ CountRange > 0
    BY CountAssumption
  <2>2. expected_datas' = [k \in 0..3 |-> expected_datas'[k]]
    BY DEF RunAgain, ZeroWords
  <2>3. read_data' = [k \in 0..3 |-> read_data'[k]]
    BY DEF RunAgain, ZeroWords
  <2>4. host' = "reboot1" /\ i' = 0 /\ since' = 0 /\ seen' \in BOOLEAN /\ fresh' \in BOOLEAN
    BY DEF RunAgain, Goes
  <2>5. UNCHANGED <<clk_counter, match_found, registers, rstate, rdata, wstate, input_signal,
                    fetch_enable_q, pc, n, value, result, ram, started>>
    BY DEF RunAgain, detectorVars, rebootVars, programVars
  <2>6. TypeOK
    BY DEF IInv
  <2>7. host' \in DOMAIN HostOrder /\ host' # "poll" /\ host' \notin {"expected", "cipher"}
    BY <2>4 DEF HostOrder
  <2> QED BY <2>1, <2>2, <2>3, <2>4, <2>5, <2>6, <2>7 DEF TypeOK
<1> QED BY <1>1, <1>2 DEF IInv, ProgramInStep, DetectorInStep, HostInStep

(* Between clock edges nothing moves.                                      *)
LEMMA StutterKeeps ==
  ASSUME IInv, UNCHANGED vars
  PROVE  IInv'
BY DEF IInv, TypeOK, ProgramInStep, DetectorInStep, HostInStep, Made, Verdict, vars, detectorVars,
       rebootVars, programVars, hostVars, historyVars, fetch_enable, reading, writing

(* The inductive invariant holds of every run of every session.            *)
THEOREM Invariance == Spec => []IInv
<1>1. Init => IInv
  BY InitInvariant
<1>2. IInv /\ [Next]_vars => IInv'
  <2>1. ASSUME IInv, NEW go \in BOOLEAN, NEW beat \in BOOLEAN, Edge(go, beat) PROVE IInv'
    BY <2>1, TypeStep, ProgramKeeps, DetectorKeeps, HostKeeps DEF IInv
  <2> QED BY <2>1, DownloadKeeps, RunAgainKeeps, StutterKeeps DEF Next
<1> QED BY <1>1, <1>2, PTL DEF Spec

(* The host's report of a run whose end it saw is true.                    *)
THEOREM Honesty == Spec => []VerdictHonest
<1>1. IInv => VerdictHonest
  <2>1. SUFFICES ASSUME IInv, host = "done", fresh, seen
                 PROVE  /\ expected_datas = [k \in 0..3 |-> vector_word(expected_output, k)]
                        /\ read_data = [k \in 0..3 |-> vector_word(result, k)]
                        /\ verdict = Verdict
                        /\ cycles = since
    BY DEF VerdictHonest
  <2>2. TypeOK /\ HostInStep /\ HostOrder[host] = 10
    BY <2>1 DEF IInv, HostOrder
  <2>3. /\ cycles = since /\ verdict = Verdict
        /\ \A k \in 0..3 : /\ expected_datas[k] = vector_word(expected_output, k)
                           /\ read_data[k] = vector_word(result, k)
    BY <2>1, <2>2 DEF HostInStep, HostOrder
  <2>4. expected_datas = [k \in 0..3 |-> vector_word(expected_output, k)]
    BY <2>2, <2>3 DEF TypeOK
  <2>5. read_data = [k \in 0..3 |-> vector_word(result, k)]
    BY <2>2, <2>3 DEF TypeOK
  <2> QED BY <2>3, <2>4, <2>5
<1> QED BY <1>1, Invariance, PTL
===============================================================================
