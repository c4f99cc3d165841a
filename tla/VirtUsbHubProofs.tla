-------------------------- MODULE VirtUsbHubProofs --------------------------
(***************************************************************************)
(* Proofs about the root hub, for every number of ports, every even word   *)
(* size, every size of the status bytes and every set of threads.          *)
(*                                                                         *)
(*   - the arithmetic of packed speeds: a speed that is set is read back   *)
(*     (SpeedOfSame), and disturbs no other position (SpeedOfOther);       *)
(*   - an inductive invariant of the words, Inv, kept by every handler     *)
(*     whether or not handlers overlap;                                    *)
(*   - from it, that only ports have bits and that what is shown is true;  *)
(*   - for handlers that run one at a time, that the words implement       *)
(*     HubContract, one record per port.                                   *)
(***************************************************************************)
EXTENDS VirtUsbHub, TLAPS

-----------------------------------------------------------------------------
(* Arithmetic of the words.                                                *)

\* A word holds PerWord speeds of two bits.
LEMMA EvenWord == PerWord \in Nat /\ PerWord >= 1 /\ WordBits = 2 * PerWord
  BY HubAssumption DEF PerWord, SpeedBits

\* Division by k of the numbers of two words.
LEMMA DivMod ==
  ASSUME NEW k \in Nat, k >= 1, NEW n \in 0..(2 * k - 1)
  PROVE  /\ n < k => n \div k = 0 /\ n % k = n
         /\ n >= k => n \div k = 1 /\ n % k = n - k
  OBVIOUS

\* VIRTUSB_PACKED_WORD_COUNT of the speeds is two, whatever the word size.
LEMMA WordCountTwo == WordCount = 2
<1>1. MaxPorts + 1 + PerWord - 1 = 3 * PerWord - 1
  BY EvenWord, HubAssumption
<1>2. ASSUME NEW k \in Nat, k >= 1 PROVE (3 * k - 1) \div k = 2
  BY <1>2
<1> QED BY <1>1, <1>2, EvenWord DEF WordCount

Speeds == {"none", "low", "full", "high"}
Positions == 0..MaxPorts
PackedWords == [0..1 -> Word]

\* Where a position is packed.
LEMMA Place ==
  ASSUME NEW n \in Positions
  PROVE  /\ n < PerWord => WordIndex(n) = 0 /\ Shift(n) = 2 * n
         /\ n >= PerWord => WordIndex(n) = 1 /\ Shift(n) = 2 * (n - PerWord)
         /\ WordIndex(n) \in 0..1
         /\ Shift(n) \in Nat /\ Shift(n) + 1 \in 0..(WordBits - 1)
<1>1. n \in 0..(2 * PerWord - 1)
  BY EvenWord, HubAssumption DEF Positions
<1>2. /\ n < PerWord => n \div PerWord = 0 /\ n % PerWord = n
      /\ n >= PerWord => n \div PerWord = 1 /\ n % PerWord = n - PerWord
  BY <1>1, EvenWord, DivMod
<1> HIDE DEF PerWord
<1> QED BY <1>1, <1>2, EvenWord DEF WordIndex, Shift, SpeedBits

\* Two positions share no bit.
LEMMA Apart ==
  ASSUME NEW n \in Positions, NEW p \in Positions, n # p,
         WordIndex(n) = WordIndex(p)
  PROVE  Shift(n) + 1 < Shift(p) \/ Shift(p) + 1 < Shift(n)
  BY Place, EvenWord DEF Positions

\* A speed fits its two bits.
LEMMA EncodeFacts ==
  ASSUME NEW s \in Speeds
  PROVE  Encode(s) \subseteq {0, 1}
  BY DEF Encode, Speeds

\* No speed is no bit.
LEMMA EncodeNone == Encode("none") = {}
  BY DEF Encode

\* virtusb_hub_set_port_speed changes one word, under its mask.
LEMMA SetSpeedWord ==
  ASSUME NEW w \in PackedWords, NEW p \in Positions, NEW s \in Speeds
  PROVE  /\ SetSpeed(w, p, s) \in PackedWords
         /\ \A i \in 0..1 : i # WordIndex(p) => SetSpeed(w, p, s)[i] = w[i]
         /\ SetSpeed(w, p, s)[WordIndex(p)] =
               (w[WordIndex(p)] \ Mask(p)) \cup
                  ({Shift(p) + b : b \in Encode(s)} \cap Mask(p))
<1> DEFINE new == (w[WordIndex(p)] \ Mask(p)) \cup
                  ({Shift(p) + b : b \in Encode(s)} \cap Mask(p))
<1>1. WordIndex(p) \in 0..1  BY Place
<1>2. Mask(p) \in Word
  <2>1. Shift(p) \in 0..(WordBits - 1) /\ Shift(p) + 1 \in 0..(WordBits - 1)
    BY Place, HubAssumption
  <2> QED BY <2>1 DEF Mask, Word
<1>3. new \in Word  BY <1>1, <1>2 DEF Word, PackedWords
<1>4. SetSpeed(w, p, s) = [w EXCEPT ![WordIndex(p)] = new]
  BY <1>1 DEF SetSpeed, PackedWords
<1> HIDE DEF new
<1>5. /\ SetSpeed(w, p, s) \in PackedWords
      /\ \A i \in 0..1 : i # WordIndex(p) => SetSpeed(w, p, s)[i] = w[i]
      /\ SetSpeed(w, p, s)[WordIndex(p)] = new
  BY <1>1, <1>3, <1>4 DEF PackedWords
<1> QED BY <1>5 DEF new

\* Setting the speed of one position leaves every other one alone.
LEMMA SpeedOfOther ==
  ASSUME NEW w \in PackedWords, NEW p \in Positions, NEW s \in Speeds,
         NEW n \in Positions, n # p
  PROVE  GetSpeed(SetSpeed(w, p, s), n) = GetSpeed(w, n)
<1> DEFINE x == SetSpeed(w, p, s)
<1>1. WordIndex(n) \in 0..1 /\ Shift(n) \in Nat /\ Shift(p) \in Nat  BY Place
<1>2. CASE WordIndex(n) # WordIndex(p)
  BY <1>1, <1>2, SetSpeedWord DEF GetSpeed
<1>3. CASE WordIndex(n) = WordIndex(p)
  <2>1. Shift(n) + 1 < Shift(p) \/ Shift(p) + 1 < Shift(n)
    BY <1>3, Apart
  <2>2. ASSUME NEW b \in {0, 1} PROVE Shift(n) + b \notin Mask(p)
    BY <1>1, <2>1, <2>2 DEF Mask
  <2>3. ASSUME NEW b \in {0, 1}
        PROVE  Shift(n) + b \in x[WordIndex(n)] <=> Shift(n) + b \in w[WordIndex(n)]
    BY <1>3, <2>2, SetSpeedWord
  <2>4. ASSUME NEW v \in PackedWords, NEW b
        PROVE  b \in GetSpeed(v, n) <=> b \in {0, 1} /\ Shift(n) + b \in v[WordIndex(n)]
    <3>1. \A c \in v[WordIndex(n)] : c \in Int
      BY <1>1 DEF PackedWords, Word
    <3> QED BY <1>1, <3>1 DEF GetSpeed, SpeedBits
  <2>5. x \in PackedWords  BY SetSpeedWord
  <2> HIDE DEF x
  <2>6. GetSpeed(x, n) = GetSpeed(w, n)
    BY <2>3, <2>4, <2>5
  <2> QED BY <2>6 DEF x
<1> QED BY <1>2, <1>3

\* The speed that was set is the speed that is read.
LEMMA SpeedOfSame ==
  ASSUME NEW w \in PackedWords, NEW p \in Positions, NEW s \in Speeds
  PROVE  GetSpeed(SetSpeed(w, p, s), p) = Encode(s)
<1> DEFINE x == SetSpeed(w, p, s)
<1>1. WordIndex(p) \in 0..1 /\ Shift(p) \in Nat  BY Place
<1>2. x \in PackedWords
      /\ x[WordIndex(p)] = (w[WordIndex(p)] \ Mask(p)) \cup
                             ({Shift(p) + b : b \in Encode(s)} \cap Mask(p))
  BY SetSpeedWord
<1>3. ASSUME NEW b \in {0, 1}
      PROVE  Shift(p) + b \in x[WordIndex(p)] <=> b \in Encode(s)
  <2>1. Shift(p) + b \in Mask(p)  BY <1>1 DEF Mask
  <2>2. Shift(p) + b \in {Shift(p) + c : c \in Encode(s)} <=> b \in Encode(s)
    BY <1>1, EncodeFacts
  <2> QED BY <1>2, <2>1, <2>2
<1>4. ASSUME NEW b
      PROVE  b \in GetSpeed(x, p) <=> b \in {0, 1} /\ Shift(p) + b \in x[WordIndex(p)]
  <2>1. \A c \in x[WordIndex(p)] : c \in Int
    BY <1>1, <1>2 DEF PackedWords, Word
  <2> QED BY <1>1, <2>1 DEF GetSpeed, SpeedBits
<1> HIDE DEF x
<1>5. GetSpeed(x, p) = Encode(s)
  BY <1>3, <1>4, EncodeFacts
<1> QED BY <1>5 DEF x

-----------------------------------------------------------------------------
(* The inductive invariant.                                                *)

\* No word has a bit but those of ports, nor has a word that a handler loaded.
PortBits ==
    /\ usb.enabled \subseteq Ports /\ usb.suspended \subseteq Ports
    /\ usb.reset \subseteq Ports
    /\ usb_change.connected \subseteq Ports /\ usb_change.enabled \subseteq Ports
    /\ usb_change.suspended \subseteq Ports /\ usb_change.reset \subseteq Ports
    /\ usb_change.over_current \subseteq Ports
    /\ \A th \in Threads : call[th].word \subseteq Ports

\* The packed speeds of position 0 and of those beyond the ports are zero.
UnusedSpeeds == \A n \in Positions : n \notin Ports => GetSpeed(speed, n) = {}

\* An enabled port is connected, at the packed speed of its device.
SpeedIsTrue ==
    \A p \in Ports :
        /\ p \in usb.enabled =>
              Connected(p) /\ GetSpeed(speed, p) = Encode(DeterminedSpeed(p))
        /\ ~Connected(p) => GetSpeed(speed, p) = {}

\* The inductive invariant: OnlyPortBits and StatusShown follow from it.
Inv == TypeOK /\ PortBits /\ UnusedSpeeds /\ SpeedIsTrue

\* Ports are positions of the words, and a valid number is a port.
LEMMA PortFacts ==
  /\ Ports \subseteq Positions
  /\ Ports \in Word
  /\ 0 \notin Ports
  /\ \A n \in Indices : Valid(n) => n \in Ports
  /\ Sockets \subseteq Ports /\ Sockets \subseteq Indices
  BY HubAssumption DEF Ports, Positions, Word, Indices, Valid

\* The words of speeds are those TypeOK speaks of.
LEMMA SpeedType == [0..(WordCount - 1) -> Word] = PackedWords
  BY WordCountTwo DEF PackedWords

\* virtusb_hub_determine_port_speed returns a speed.
LEMMA DeterminedIsSpeed ==
  ASSUME NEW p PROVE DeterminedSpeed(p) \in Speeds
  BY DEF DeterminedSpeed, Speeds

\* A hub as it is created: every bit and every packed speed is zero.
LEMMA InitInv == Init => Inv
<1> SUFFICES ASSUME Init PROVE Inv OBVIOUS
<1>1. TypeOK
  <2>1. {} \in Word  BY DEF Word
  <2>2. Idle \in Call  BY <2>1 DEF Idle, Call, Indices
  <2> QED BY <2>1, <2>2 DEF Init, TypeOK
<1>2. PortBits
  BY DEF Init, PortBits, Idle
<1>3. \A n \in Positions : GetSpeed(speed, n) = {}
  <2>1. \A n \in Positions : WordIndex(n) \in 0..1  BY Place
  <2>2. \A n \in Positions : speed[WordIndex(n)] = {}
    BY <2>1, WordCountTwo DEF Init
  <2> QED BY <2>2 DEF GetSpeed
<1>4. UnusedSpeeds /\ SpeedIsTrue
  BY <1>3, PortFacts DEF UnusedSpeeds, SpeedIsTrue, Init
<1> QED BY <1>1, <1>2, <1>4 DEF Inv

-----------------------------------------------------------------------------
(* Every step keeps the invariant.                                         *)

ChangeType == [connected : Word, enabled : Word, suspended : Word,
               reset : Word, over_current : Word]
UsbType == [enabled : Word, suspended : Word, reset : Word]

\* hub_status_data reports positions of the words.
LEMMA NotifyType == Notify /\ told \subseteq Positions => told' \subseteq Positions
  BY DEF Notify, Positions

\* A handler takes a word of ports between its load and its store.
LEMMA EnterType ==
  ASSUME call \in [Threads -> Call], NEW th \in Threads, NEW c \in Call,
         c.word \subseteq Ports, Enter(th, c),
         \A x \in Threads : call[x].word \subseteq Ports
  PROVE  /\ call' \in [Threads -> Call]
         /\ \A x \in Threads : call'[x].word \subseteq Ports
  BY DEF Enter

\* A change of one port's line.
LEMMA LineStep ==
  ASSUME Inv, NEW th \in Threads, NEW p \in Ports, p \in Indices,
         caps' \in [Ports -> Capabilities \cup {{}}], powered' \subseteq Ports,
         \A q \in Ports : q # p =>
            caps'[q] = caps[q] /\ (q \in powered' <=> q \in powered),
         caps[p] # {} /\ caps'[p] # {} => caps'[p] = caps[p],
         MarkIfChanged(th, p)
  PROVE  Inv'
<1>0. TypeOK /\ PortBits /\ UnusedSpeeds /\ SpeedIsTrue /\ p \in Positions
      /\ speed \in PackedWords /\ "none" \in Speeds
  BY PortFacts, SpeedType DEF Inv, TypeOK, Speeds
<1>1. /\ usb' \in UsbType /\ speed' \in PackedWords
      /\ usb'.enabled \subseteq usb.enabled /\ usb'.suspended \subseteq usb.suspended
      /\ usb'.reset \subseteq usb.reset
      /\ \A n \in Positions : n # p => GetSpeed(speed', n) = GetSpeed(speed, n)
      /\ \/ Connected(p) /\ ~Connected(p)' /\ p \notin usb'.enabled
                /\ GetSpeed(speed', p) = {}
         \/ ~(Connected(p) /\ ~Connected(p)') /\ UNCHANGED <<usb, speed>>
  <2>1. CASE Connected(p) /\ ~Connected(p)'
    <3>1. Disconnect(p) BY <2>1 DEF MarkIfChanged
    <3>2. usb' \in UsbType /\ usb'.enabled = usb.enabled \ {p}
          /\ usb'.suspended = usb.suspended \ {p} /\ usb'.reset = usb.reset \ {p}
      BY <1>0, <3>1 DEF Disconnect, TypeOK, UsbType, Word
    <3>3. speed' = SetSpeed(speed, p, "none")  BY <3>1 DEF Disconnect
    <3>4. speed' \in PackedWords /\ GetSpeed(speed', p) = {}
          /\ \A n \in Positions : n # p => GetSpeed(speed', n) = GetSpeed(speed, n)
      BY <1>0, <3>3, SetSpeedWord, SpeedOfSame, SpeedOfOther, EncodeNone
    <3> QED BY <2>1, <3>2, <3>4
  <2>2. CASE ~(Connected(p) /\ ~Connected(p)')
    <3>1. UNCHANGED <<usb, speed>>  BY <2>2 DEF MarkIfChanged
    <3> QED BY <1>0, <2>2, <3>1 DEF TypeOK, UsbType
  <2> QED BY <2>1, <2>2
<1>2. /\ call' \in [Threads -> Call]
      /\ \A x \in Threads : call'[x].word \subseteq Ports
  <2> DEFINE c == [pc |-> "mark", port |-> p, word |-> usb_change.connected \cup {p}]
  <2>1. c \in Call /\ c.word \subseteq Ports
    BY <1>0, PortFacts DEF Call, TypeOK, Word, PortBits
  <2>2. Enter(th, c) \/ UNCHANGED call  BY DEF MarkIfChanged
  <2> HIDE DEF c
  <2> QED BY <1>0, <2>1, <2>2, EnterType DEF TypeOK, PortBits
<1>3. usb_change' = usb_change /\ told' = told  BY DEF MarkIfChanged
<1>4. TypeOK'
  BY <1>0, <1>1, <1>2, <1>3, SpeedType DEF TypeOK, UsbType
<1>5. PortBits'
  BY <1>0, <1>1, <1>2, <1>3 DEF PortBits
<1>6. UnusedSpeeds'
  BY <1>0, <1>1 DEF UnusedSpeeds
<1>7. SpeedIsTrue'
  <2> SUFFICES ASSUME NEW q \in Ports
               PROVE  /\ q \in usb'.enabled => Connected(q)' /\
                            GetSpeed(speed', q) = Encode(DeterminedSpeed(q)')
                      /\ ~Connected(q)' => GetSpeed(speed', q) = {}
    BY DEF SpeedIsTrue
  <2>1. q \in Positions  BY PortFacts
  <2>2. CASE q # p
    <3>1. (Connected(q)' <=> Connected(q)) /\ DeterminedSpeed(q)' = DeterminedSpeed(q)
      BY <2>2 DEF Connected, DeterminedSpeed
    <3> QED BY <1>0, <1>1, <2>1, <2>2, <3>1 DEF SpeedIsTrue
  <2>3. CASE q = p /\ Connected(p) /\ ~Connected(p)'
    BY <1>1, <2>3
  <2>4. CASE q = p /\ ~(Connected(p) /\ ~Connected(p)')
    <3>1. UNCHANGED <<usb, speed>>  BY <1>1, <2>4
    <3>2. Connected(p) => caps'[p] = caps[p]
      BY <2>4 DEF Connected
    <3>3. Connected(p) => DeterminedSpeed(p)' = DeterminedSpeed(p)
      BY <3>2 DEF DeterminedSpeed
    <3> QED BY <1>0, <2>4, <3>1, <3>3 DEF SpeedIsTrue
  <2> QED BY <2>2, <2>3, <2>4
<1> QED BY <1>4, <1>5, <1>6, <1>7 DEF Inv

\* A step that leaves the line, the speeds and PORT_ENABLE of other ports alone.
LEMMA QuietStep ==
  ASSUME Inv, UNCHANGED <<caps, powered, speed>>,
         usb' \in UsbType, usb_change' \in ChangeType, told' \subseteq Positions,
         call' \in [Threads -> Call],
         usb'.enabled \subseteq usb.enabled, usb'.reset \subseteq Ports,
         PortBits'
  PROVE  Inv'
<1>1. TypeOK'
  BY DEF Inv, TypeOK, UsbType, ChangeType, Positions
<1>2. UnusedSpeeds'  BY DEF Inv, UnusedSpeeds
<1>3. SpeedIsTrue'
  <2>1. \A q \in Ports : /\ Connected(q)' <=> Connected(q)
                         /\ DeterminedSpeed(q)' = DeterminedSpeed(q)
    BY DEF Connected, DeterminedSpeed
  <2> QED BY <2>1 DEF Inv, SpeedIsTrue
<1> QED BY <1>1, <1>2, <1>3 DEF Inv

\* A device that appears or goes.
LEMMA SignalInv ==
  ASSUME Inv, NEW th \in Threads, NEW p \in Sockets,
         NEW cs \in Capabilities \cup {{}}, Signal(th, p, cs)
  PROVE  Inv'
<1>1. p \in Ports /\ p \in Indices  BY PortFacts
<1>2. caps \in [Ports -> Capabilities \cup {{}}] /\ powered \subseteq Ports
  BY DEF Inv, TypeOK
<1>3. caps' = [caps EXCEPT ![p] = cs] /\ powered' = powered /\ (caps[p] = {} \/ cs = {})
      /\ MarkIfChanged(th, p)
  BY DEF Signal
<1> QED BY <1>1, <1>2, <1>3, LineStep

\* VBUS, switched by an ioctl or by the hub driver.
LEMMA SetPortPowerInv ==
  ASSUME Inv, NEW th \in Threads, NEW n \in Indices, NEW v \in BOOLEAN,
         SetPortPower(th, n, v)
  PROVE  Inv'
<1>1. n \in Ports  BY PortFacts DEF SetPortPower
<1>2. caps \in [Ports -> Capabilities \cup {{}}] /\ powered \subseteq Ports
  BY DEF Inv, TypeOK
<1>3. caps' = caps /\ (powered' = powered \cup {n} \/ powered' = powered \ {n})
      /\ MarkIfChanged(th, n)
  BY DEF SetPortPower
<1> QED BY <1>1, <1>2, <1>3, LineStep

\* The store of a marked connection change: what was loaded were ports.
LEMMA StoreMarkInv ==
  ASSUME Inv, NEW th \in Threads, StoreMark(th) PROVE Inv'
<1>0. TypeOK /\ PortBits  BY DEF Inv
<1>1. usb_change' = [usb_change EXCEPT !.connected = call[th].word]
      /\ Notify /\ Enter(th, Idle) /\ UNCHANGED <<caps, powered, usb, speed>>
  BY DEF StoreMark
<1>2. call[th].word \in Word /\ call[th].word \subseteq Ports
  BY <1>0 DEF TypeOK, Call, PortBits
<1>3. Idle \in Call /\ Idle.word \subseteq Ports
  BY DEF Idle, Call, Indices, Word
<1>4. call' \in [Threads -> Call] /\ \A x \in Threads : call'[x].word \subseteq Ports
  BY <1>0, <1>1, <1>3, EnterType DEF TypeOK, PortBits
<1>5. usb_change' \in ChangeType  BY <1>0, <1>1, <1>2 DEF TypeOK, ChangeType
<1>6. PortBits'  BY <1>0, <1>1, <1>2, <1>4 DEF PortBits, TypeOK
<1>7. told' \subseteq Positions  BY <1>0, <1>1, NotifyType DEF TypeOK, Positions
<1>8. usb' \in UsbType  BY <1>0, <1>1 DEF TypeOK, UsbType
<1> QED BY <1>0, <1>1, <1>4, <1>5, <1>6, <1>7, <1>8, QuietStep DEF PortBits

\* A reset enables the port at the speed that it packs.
LEMMA ResetPortInv ==
  ASSUME Inv, NEW th \in Threads, NEW n \in Indices, ResetPort(th, n) PROVE Inv'
<1>0. TypeOK /\ PortBits /\ UnusedSpeeds /\ SpeedIsTrue /\ speed \in PackedWords
  BY SpeedType DEF Inv, TypeOK
<1>1. n \in Ports /\ n \in Positions /\ {n} \in Word
  BY PortFacts DEF ResetPort, HubRequest, Word
<1>2. DeterminedSpeed(n) \in Speeds  BY DeterminedIsSpeed
<1>3. speed' = SetSpeed(speed, n, DeterminedSpeed(n))  BY DEF ResetPort
<1>4. speed' \in PackedWords /\ GetSpeed(speed', n) = Encode(DeterminedSpeed(n))
      /\ \A q \in Positions : q # n => GetSpeed(speed', q) = GetSpeed(speed, q)
  BY <1>0, <1>1, <1>2, <1>3, SetSpeedWord, SpeedOfSame, SpeedOfOther
<1>5. usb' = [usb EXCEPT !.enabled = @ \cup {n}, !.suspended = @ \ {n}]
      /\ usb_change' = [usb_change EXCEPT !.reset = @ \cup {n}]
      /\ UNCHANGED <<caps, powered, call>> /\ Connected(n)
  BY DEF ResetPort, LineUnchanged
<1>6. told' \subseteq Positions
  BY <1>0, NotifyType DEF ResetPort, TypeOK, Positions
<1>7. usb' \in UsbType /\ usb_change' \in ChangeType
  BY <1>0, <1>1, <1>5 DEF TypeOK, UsbType, ChangeType, Word
<1>8. TypeOK'
  BY <1>0, <1>4, <1>5, <1>6, <1>7, SpeedType DEF TypeOK, UsbType, ChangeType, Positions
<1>9. PortBits'  BY <1>0, <1>1, <1>5 DEF PortBits, TypeOK
<1>10. UnusedSpeeds'  BY <1>0, <1>1, <1>4 DEF UnusedSpeeds
<1>11. SpeedIsTrue'
  <2>1. \A q \in Ports : /\ Connected(q)' <=> Connected(q)
                         /\ DeterminedSpeed(q)' = DeterminedSpeed(q)
    BY <1>5 DEF Connected, DeterminedSpeed
  <2>2. \A q \in Ports : q # n => (q \in usb'.enabled <=> q \in usb.enabled)
    BY <1>0, <1>5 DEF TypeOK
  <2> QED BY <1>0, <1>1, <1>4, <1>5, <2>1, <2>2, PortFacts DEF SpeedIsTrue
<1> QED BY <1>8, <1>9, <1>10, <1>11 DEF Inv

\* Suspend, resume and disable.
LEMMA PortStateInv ==
  ASSUME Inv, NEW th \in Threads, NEW n \in Indices, PortState(th, n) PROVE Inv'
<1>0. TypeOK /\ PortBits  BY DEF Inv
<1>1. n \in Ports /\ {n} \in Word  BY PortFacts DEF PortState, HubRequest, Word
<1>2. UNCHANGED <<caps, powered, speed, usb_change, told, call>>
  BY DEF PortState, LineUnchanged
<1>3. \/ usb' = [usb EXCEPT !.suspended = @ \cup {n}]
      \/ usb' = [usb EXCEPT !.suspended = @ \ {n}]
      \/ usb' = [usb EXCEPT !.enabled = @ \ {n}]
  BY DEF PortState
<1>4. usb' \in UsbType /\ usb'.enabled \subseteq usb.enabled
      /\ usb'.suspended \subseteq usb.suspended \cup {n} /\ usb'.reset = usb.reset
  BY <1>0, <1>1, <1>3 DEF TypeOK, UsbType, Word
<1>5. PortBits'  BY <1>0, <1>1, <1>2, <1>4 DEF PortBits
<1> QED BY <1>0, <1>2, <1>4, <1>5, QuietStep DEF TypeOK, ChangeType, Positions, PortBits

\* Taking a bit out of one change word.
LEMMA ClearedChange ==
  ASSUME Inv, NEW n,
         NEW f \in {"connected", "enabled", "suspended", "over_current", "reset"},
         usb_change' = [usb_change EXCEPT ![f] = @ \ {n}],
         UNCHANGED <<usb, speed, told, call, caps, powered>>
  PROVE  Inv'
<1>0. TypeOK /\ PortBits  BY DEF Inv
<1>1. usb_change' \in ChangeType
      /\ usb_change'.connected \subseteq usb_change.connected
      /\ usb_change'.enabled \subseteq usb_change.enabled
      /\ usb_change'.suspended \subseteq usb_change.suspended
      /\ usb_change'.reset \subseteq usb_change.reset
      /\ usb_change'.over_current \subseteq usb_change.over_current
  BY <1>0 DEF TypeOK, ChangeType, Word
<1>2. PortBits'  BY <1>0, <1>1 DEF PortBits
<1> QED BY <1>0, <1>1, <1>2, QuietStep DEF TypeOK, UsbType, Positions, PortBits

\* The load of an acknowledgement.
LEMMA ClearConnectionInv ==
  ASSUME Inv, NEW th \in Threads, NEW n \in Indices, ClearConnection(th, n) PROVE Inv'
<1>0. TypeOK /\ PortBits  BY DEF Inv
<1> DEFINE c == [pc |-> "ack", port |-> n, word |-> usb_change.connected \ {n}]
<1>1. c \in Call /\ c.word \subseteq Ports
  BY <1>0 DEF Call, TypeOK, Word, PortBits
<1>2. Enter(th, c) /\ UNCHANGED <<usb, speed, usb_change, told, caps, powered>>
  BY DEF ClearConnection, LineUnchanged
<1> HIDE DEF c
<1>3. call' \in [Threads -> Call] /\ \A x \in Threads : call'[x].word \subseteq Ports
  BY <1>0, <1>1, <1>2, EnterType DEF TypeOK, PortBits
<1>4. PortBits'  BY <1>0, <1>2, <1>3 DEF PortBits
<1> QED BY <1>0, <1>2, <1>3, <1>4, QuietStep
    DEF TypeOK, UsbType, ChangeType, Positions, PortBits

\* The store of an acknowledgement.
LEMMA StoreAckInv ==
  ASSUME Inv, NEW th \in Threads, StoreAck(th) PROVE Inv'
<1>0. TypeOK /\ PortBits  BY DEF Inv
<1>1. usb_change' = [usb_change EXCEPT !.connected = call[th].word]
      /\ Enter(th, Idle) /\ UNCHANGED <<caps, powered, usb, speed, told>>
  BY DEF StoreAck, LineUnchanged
<1>2. call[th].word \in Word /\ call[th].word \subseteq Ports
  BY <1>0 DEF TypeOK, Call, PortBits
<1>3. Idle \in Call /\ Idle.word \subseteq Ports
  BY DEF Idle, Call, Indices, Word
<1>4. call' \in [Threads -> Call] /\ \A x \in Threads : call'[x].word \subseteq Ports
  BY <1>0, <1>1, <1>3, EnterType DEF TypeOK, PortBits
<1>5. usb_change' \in ChangeType  BY <1>0, <1>1, <1>2 DEF TypeOK, ChangeType
<1>6. PortBits'  BY <1>0, <1>1, <1>2, <1>4 DEF PortBits, TypeOK
<1> QED BY <1>0, <1>1, <1>4, <1>5, <1>6, QuietStep
    DEF PortBits, TypeOK, UsbType, Positions

\* The hub driver turns to a port.
LEMMA LookAtInv ==
  ASSUME Inv, NEW p \in Ports, LookAt(p) PROVE Inv'
<1>1. UNCHANGED <<usb, speed, usb_change, call, caps, powered>> /\ told' \subseteq told
  BY DEF LookAt, LineUnchanged
<1>2. PortBits'  BY <1>1 DEF Inv, PortBits
<1> QED BY <1>1, <1>2, QuietStep
    DEF Inv, TypeOK, UsbType, ChangeType, Positions, PortBits

\* Every step, by action.
LEMMA NextInv == Inv /\ [Next]_vars => Inv'
<1> SUFFICES ASSUME Inv, [Next]_vars PROVE Inv' OBVIOUS
<1>1. ASSUME NEW th \in Threads, NEW p \in Sockets, NEW cs \in Capabilities \cup {{}},
             Signal(th, p, cs)
      PROVE  Inv'
  BY <1>1, SignalInv
<1>2. ASSUME NEW th \in Threads, NEW n \in Indices, NEW v \in BOOLEAN,
             SetPortPower(th, n, v)
      PROVE  Inv'
  BY <1>2, SetPortPowerInv
<1>3. ASSUME NEW th \in Threads, NEW n \in Indices,
             ResetPort(th, n) \/ PortState(th, n) \/ ClearConnection(th, n)
      PROVE  Inv'
  BY <1>3, ResetPortInv, PortStateInv, ClearConnectionInv
<1>4. ASSUME NEW th \in Threads, NEW n \in Indices, ClearChange(th, n) PROVE Inv'
  BY <1>4, ClearedChange DEF ClearChange, LineUnchanged
<1>5. ASSUME NEW th \in Threads, ClearHubChange(th) PROVE Inv'
  <2>1. usb_change' = [usb_change EXCEPT !["over_current"] = @ \ {0}]
    BY <1>5 DEF ClearHubChange
  <2> QED BY <1>5, <2>1, ClearedChange DEF ClearHubChange, LineUnchanged
<1>6. ASSUME NEW th \in Threads, StoreMark(th) \/ StoreAck(th) PROVE Inv'
  BY <1>6, StoreMarkInv, StoreAckInv
<1>7. ASSUME NEW p \in Ports, LookAt(p) PROVE Inv'
  BY <1>7, LookAtInv
<1>8. CASE UNCHANGED vars
  BY <1>8 DEF vars, Inv, TypeOK, PortBits, UnusedSpeeds, SpeedIsTrue, Connected,
              DeterminedSpeed
<1> QED BY <1>1, <1>2, <1>3, <1>4, <1>5, <1>6, <1>7, <1>8 DEF Next

\* Inv holds in every reachable state, also when handlers overlap between the
\* load and the store of usb_change.connected (virtusb_hub.c, virtusb_hcd.c).
THEOREM Invariance == Spec => []Inv
  BY InitInv, NextInv, PTL DEF Spec

\* Every word stays within its WordBits bits, and the packed speeds within their
\* two words (hub->usb, hub->usb_change).
THEOREM TypeCorrect == Spec => []TypeOK
<1>1. Inv => TypeOK  BY DEF Inv
<1> QED BY <1>1, Invariance, PTL

\* No sequence of ioctls and hub requests, with valid and invalid port numbers,
\* sets a bit or a packed speed of anything but a port of the hub
\* (virtusb_hub_port_is_valid, virtusb_hcd_hub_control).
THEOREM BitsOfPortsOnly == Spec => []OnlyPortBits
<1>1. Inv => OnlyPortBits
  BY PortFacts DEF Inv, PortBits, UnusedSpeeds, OnlyPortBits, ChangeMask, Positions
<1> QED BY <1>1, Invariance, PTL

-----------------------------------------------------------------------------
(* What is shown.                                                          *)

\* The two bits of each speed.
LEMMA EncodeValues ==
  /\ Encode("none") = {} /\ Encode("low") = {0}
  /\ Encode("full") = {1} /\ Encode("high") = {0, 1}
  BY DEF Encode

\* No two speeds have the same bits.
LEMMA CodesDiffer ==
  /\ {0} # {1} /\ {0} # {0, 1} /\ {1} # {0, 1}
  /\ {} # {0} /\ {} # {1} /\ {} # {0, 1}
<1>1. 0 # 1 OBVIOUS
<1>2. /\ 0 \notin {1} /\ 1 \notin {0} /\ 0 \in {0} /\ 1 \in {1}
      /\ 0 \in {0, 1} /\ 1 \in {0, 1}
  BY <1>1
<1> QED BY <1>2, Zenon

\* The name that is printed determines the bits.
LEMMA SpeedNameFacts ==
  ASSUME NEW v
  PROVE  /\ SpeedName(v) = "low" <=> v = {0}
         /\ SpeedName(v) = "full" <=> v = {1}
         /\ SpeedName(v) = "high" <=> v = {0, 1}
         /\ SpeedName(v) \in Speeds
  BY CodesDiffer, Zenon DEF SpeedName, Speeds

\* The name that is printed is that of the speed that was packed.
LEMMA SpeedNameOfEncode ==
  ASSUME NEW s \in Speeds PROVE SpeedName(Encode(s)) = s
<1>1. SpeedName({}) = "none"
  BY CodesDiffer, SpeedNameFacts DEF Speeds
<1> QED BY <1>1, EncodeValues, SpeedNameFacts DEF Speeds

\* The byte and the bit of a position are within the status bytes.
LEMMA DivByte ==
  ASSUME NEW k \in Nat \ {0}, NEW m \in Nat, NEW n \in 0..m
  PROVE  /\ n \div k \in 0..(((m + k) \div k) - 1)
         /\ n - (n \div k) * k \in 0..(k - 1)
<1>1. n = (n \div k) * k + (n % k) /\ n \div k \in Nat /\ n % k \in 0..(k - 1)
  OBVIOUS
<1>2. m + k = ((m + k) \div k) * k + ((m + k) % k) /\ (m + k) \div k \in Nat
      /\ (m + k) % k \in 0..(k - 1)
  OBVIOUS
<1>3. ASSUME NEW x \in Nat, NEW y \in Nat, NEW r \in 0..(k-1), NEW t \in 0..(k-1),
             n = x * k + r, m + k = y * k + t
      PROVE  x <= y - 1
  <2>1. x * k + r + k <= y * k + t  BY <1>3
  <2>2. SUFFICES ASSUME y <= x PROVE FALSE  OBVIOUS
  <2>3. y * k <= x * k  BY <2>2
  <2> QED BY <2>1, <2>3
<1> QED BY <1>1, <1>2, <1>3

\* The bits of wPortStatus.
LEMMA PortStatusBits ==
  ASSUME NEW p
  PROVE  /\ 0 \in PortStatus(p) <=> Connected(p)
         /\ 1 \in PortStatus(p) <=> p \in usb.enabled
         /\ 2 \in PortStatus(p) <=> p \in usb.suspended
         /\ 3 \notin PortStatus(p)
         /\ 4 \in PortStatus(p) <=> p \in usb.reset
         /\ 8 \in PortStatus(p) <=> p \in powered
         /\ 9 \in PortStatus(p) <=> GetSpeed(speed, p) = Encode("low")
         /\ 10 \in PortStatus(p) <=> GetSpeed(speed, p) = Encode("high")
<1> DEFINE lo == GetSpeed(speed, p) = Encode("low")
           hi == GetSpeed(speed, p) = Encode("high")
           con == Connected(p)
<1>1. PortStatus(p) = UNION {Bits(0, con), Bits(1, p \in usb.enabled),
           Bits(2, p \in usb.suspended), Bits(4, p \in usb.reset),
           Bits(8, p \in powered), Bits(9, lo), Bits(10, hi)}
  BY DEF PortStatus
<1> HIDE DEF lo, hi, con
<1> QED BY <1>1 DEF Bits, lo, hi, con

\* The bits that GET_PORT_STATUS returns for a port.
LEMMA UapiStatusBits ==
  ASSUME NEW p \in Ports
  PROVE  /\ 0 \in PortStateUapi(p).status <=> Connected(p)
         /\ 1 \in PortStateUapi(p).status <=> p \in usb.enabled
         /\ 2 \in PortStateUapi(p).status <=> p \in usb.suspended
         /\ 3 \notin PortStateUapi(p).status
         /\ 4 \in PortStateUapi(p).status <=> p \in usb.reset
         /\ 8 \in PortStateUapi(p).status <=> p \in powered
         /\ PortStateUapi(p).change = PortChange(p)
         /\ PortStateUapi(p).speed = GetSpeed(speed, p)
<1>1. p > 0 /\ p # 0  BY DEF Ports
<1>2. PortStateUapi(p).change = PortChange(p)
  BY DEF PortStateUapi, PortChange
<1>3. PortStateUapi(p).speed = GetSpeed(speed, p)
  BY <1>1 DEF PortStateUapi
<1> DEFINE con == p > 0 /\ Connected(p)
           pow == p > 0 /\ p \in powered
<1>4. PortStateUapi(p).status =
        UNION {Bits(0, con), Bits(1, p \in usb.enabled),
               Bits(2, p \in usb.suspended), Bits(4, p \in usb.reset), Bits(8, pow)}
  BY DEF PortStateUapi
<1>5. (con <=> Connected(p)) /\ (pow <=> p \in powered)  BY <1>1
<1> HIDE DEF con, pow
<1> QED BY <1>2, <1>3, <1>4, <1>5 DEF Bits

\* The flags that virtusbctl prints.
LEMMA FlagFacts ==
  ASSUME NEW w
  PROVE  /\ "connected" \in StatusFlags(w) <=> 0 \in w
         /\ "enabled" \in StatusFlags(w) <=> 1 \in w
         /\ "power" \in StatusFlags(w) <=> 8 \in w
<1>1. 0..4 = {0, 1, 2, 3, 4}  OBVIOUS
<1> QED BY <1>1 DEF StatusFlags, StatusNames

\* The host and virtusbctl read the same words, and Inv says they are true.
LEMMA InvShowsTruth == Inv => StatusShown
<1> SUFFICES ASSUME Inv PROVE StatusShown  OBVIOUS
<1> SUFFICES ASSUME NEW p \in Ports
    PROVE  LET shown == PrintedPorts[p]
               wire == PortStatus(p)
           IN  /\ shown = Printed(GetPortStatus(p).state)
               /\ shown.status = StatusFlags(wire)
               /\ shown.change = ChangeFlags(PortChange(p))
               /\ shown.speed = "low" <=> 9 \in wire
               /\ shown.speed = "high" <=> 10 \in wire
               /\ "enabled" \in shown.status =>
                     /\ {"connected", "power"} \subseteq shown.status
                     /\ shown.speed = DeterminedSpeed(p)
               /\ "connected" \notin shown.status => shown.speed = "none"
  BY DEF StatusShown
<1> DEFINE s == PortStateUapi(p)
<1>1. PrintedPorts[p] = Printed(s)
  <2>1. PrintedPorts[p] = Printed(GetPortStatus(0).ports[p - 1])
    BY DEF PrintedPorts
  <2>2. p - 1 \in 0..(PortCount - 1) /\ (p - 1) + 1 = p
    BY HubAssumption DEF Ports
  <2>3. GetPortStatus(0).ports[p - 1] = PortStateUapi((p - 1) + 1)
    BY <2>2 DEF GetPortStatus
  <2> QED BY <2>1, <2>2, <2>3
<1>2. Printed(GetPortStatus(p).state) = Printed(s)
  BY DEF GetPortStatus
<1>3. /\ Printed(s).status = StatusFlags(s.status)
      /\ Printed(s).change = ChangeFlags(PortChange(p))
      /\ Printed(s).speed = SpeedName(GetSpeed(speed, p))
  BY UapiStatusBits DEF Printed
<1>4. StatusFlags(s.status) = StatusFlags(PortStatus(p))
  <2>1. 0..4 = {0, 1, 2, 3, 4}  OBVIOUS
  <2>2. s.status \cap (0..4) = PortStatus(p) \cap (0..4)
        /\ (8 \in s.status <=> 8 \in PortStatus(p))
    BY <2>1, UapiStatusBits, PortStatusBits
  <2> HIDE DEF s
  <2> QED BY <2>2 DEF StatusFlags
<1>5. /\ SpeedName(GetSpeed(speed, p)) = "low" <=> 9 \in PortStatus(p)
      /\ SpeedName(GetSpeed(speed, p)) = "high" <=> 10 \in PortStatus(p)
  BY SpeedNameFacts, EncodeValues, PortStatusBits
<1>6. ASSUME p \in usb.enabled
      PROVE  Connected(p) /\ p \in powered
             /\ SpeedName(GetSpeed(speed, p)) = DeterminedSpeed(p)
  <2>1. Connected(p) /\ GetSpeed(speed, p) = Encode(DeterminedSpeed(p))
    BY <1>6 DEF Inv, SpeedIsTrue
  <2> QED BY <2>1, DeterminedIsSpeed, SpeedNameOfEncode DEF Connected
<1>7. ASSUME ~Connected(p) PROVE SpeedName(GetSpeed(speed, p)) = "none"
  <2>1. GetSpeed(speed, p) = {}  BY <1>7 DEF Inv, SpeedIsTrue
  <2> QED BY <2>1, EncodeValues, SpeedNameOfEncode DEF Speeds
<1>8. /\ "connected" \in StatusFlags(PortStatus(p)) <=> Connected(p)
      /\ "enabled" \in StatusFlags(PortStatus(p)) <=> p \in usb.enabled
      /\ "power" \in StatusFlags(PortStatus(p)) <=> p \in powered
  BY FlagFacts, PortStatusBits
<1> HIDE DEF s
<1> QED BY <1>1, <1>2, <1>3, <1>4, <1>5, <1>6, <1>7, <1>8

\* What the host reads and what virtusbctl prints of a port agree, and are true of
\* the line, for every word size and number of ports
\* (virtusb_hcd_build_port_status, virtusb_control_build_port_state).
THEOREM ShownIsTrue == Spec => []StatusShown
  BY Invariance, InvShowsTruth, PTL

-----------------------------------------------------------------------------
(* The words implement one record per port.                                *)

\* At most one thread is between a load and a store, and what it is about to
\* store is what the word is now, but for its port.
Serial ==
    /\ \A th, x \in Threads : th # x /\ ~At(th, "idle") => At(x, "idle")
    /\ \A th \in Threads :
          /\ At(th, "mark") =>
                call[th].port \in Ports /\
                call[th].word = usb_change.connected \cup {call[th].port}
          /\ At(th, "ack") =>
                call[th].port \in Ports /\
                call[th].word = usb_change.connected \ {call[th].port}

\* When nobody is between a load and a store, whoever enters is alone.
LEMMA SerialEnters ==
  ASSUME TypeOK, Serial, NEW th \in Threads, \A x \in Threads : At(x, "idle"),
         NEW c, Enter(th, c), usb_change' = usb_change,
         c.pc = "mark" => c.port \in Ports /\ c.word = usb_change.connected \cup {c.port},
         c.pc = "ack" => c.port \in Ports /\ c.word = usb_change.connected \ {c.port}
  PROVE  Serial'
<1>1. \A x \in Threads : call'[x] = IF x = th THEN c ELSE call[x]
  BY DEF Enter, TypeOK
<1> QED BY <1>1 DEF Serial, At

\* Nobody is between a load and a store, before or after.
LEMMA SerialStays ==
  ASSUME TypeOK, Serial, \A x \in Threads : At(x, "idle"), UNCHANGED call
  PROVE  Serial'
  BY DEF Serial, At

\* The one handler that is between a load and a store leaves.
LEMMA SerialLeaves ==
  ASSUME TypeOK, Serial, NEW th \in Threads, ~At(th, "idle"), Enter(th, Idle)
  PROVE  Serial'
<1>1. \A x \in Threads : call'[x] = IF x = th THEN Idle ELSE call[x]
  BY DEF Enter, TypeOK
<1>2. \A x \in Threads : call'[x].pc = "idle"
  BY <1>1 DEF Idle, Serial, At
<1> QED BY <1>2 DEF Serial, At

\* A change of the line, with nobody between a load and a store.
LEMMA SerialLine ==
  ASSUME TypeOK, Serial, NEW th \in Threads, NEW p \in Ports,
         \A x \in Threads : At(x, "idle"), MarkIfChanged(th, p)
  PROVE  Serial'
<1> DEFINE c == [pc |-> "mark", port |-> p, word |-> usb_change.connected \cup {p}]
<1>1. usb_change' = usb_change /\ (Enter(th, c) \/ UNCHANGED call)
  BY DEF MarkIfChanged
<1> QED BY <1>1, SerialEnters, SerialStays

\* One handler at a time: no store is of a word that is stale.
LEMMA NextSerial ==
  ASSUME Serialized, TypeOK, Serial, [Next]_vars
  PROVE  Serial'
<1>0. \A th \in Threads : MayBegin(th) => \A x \in Threads : At(x, "idle")
  BY DEF MayBegin
<1>1. ASSUME NEW th \in Threads, NEW p \in Sockets, NEW cs \in Capabilities \cup {{}},
             Signal(th, p, cs)
      PROVE  Serial'
  BY <1>0, <1>1, SerialLine, PortFacts DEF Signal
<1>2. ASSUME NEW th \in Threads, NEW n \in Indices, NEW v \in BOOLEAN,
             SetPortPower(th, n, v)
      PROVE  Serial'
  BY <1>0, <1>2, SerialLine, PortFacts DEF SetPortPower
<1>3. ASSUME NEW th \in Threads, NEW n \in Indices,
             ResetPort(th, n) \/ PortState(th, n) \/ ClearChange(th, n)
      PROVE  Serial'
  BY <1>0, <1>3, SerialStays DEF ResetPort, PortState, ClearChange, HubRequest
<1>4. ASSUME NEW th \in Threads, NEW n \in Indices, ClearConnection(th, n)
      PROVE  Serial'
  <2> DEFINE c == [pc |-> "ack", port |-> n, word |-> usb_change.connected \ {n}]
  <2>1. n \in Ports /\ usb_change' = usb_change /\ Enter(th, c) /\ MayBegin(th)
    BY <1>4, PortFacts DEF ClearConnection, HubRequest
  <2> QED BY <1>0, <2>1, SerialEnters
<1>5. ASSUME NEW th \in Threads, ClearHubChange(th) PROVE Serial'
  BY <1>0, <1>5, SerialStays DEF ClearHubChange
<1>6. ASSUME NEW th \in Threads, StoreMark(th) \/ StoreAck(th) PROVE Serial'
  BY <1>6, SerialLeaves DEF StoreMark, StoreAck, At
<1>7. ASSUME NEW p \in Ports, LookAt(p) PROVE Serial'
  BY <1>7 DEF LookAt, Serial, At
<1>8. CASE UNCHANGED vars
  BY <1>8 DEF vars, Serial, At
<1> QED BY <1>1, <1>2, <1>3, <1>4, <1>5, <1>6, <1>7, <1>8 DEF Next

-----------------------------------------------------------------------------
(* The bytes that hub_status_data reports.                                 *)

\* The bytes hold every bit of the mask, the last port included.
LEMMA ReportedBits ==
  ASSUME NEW c, ChangeMask(c) \subseteq Ports
  PROVE  {n \in 0..MaxPorts : \E i \in DOMAIN StatusBytes(c) :
              n - i * ByteBits \in StatusBytes(c)[i]} = ChangeMask(c)
<1>1. DOMAIN StatusBytes(c) = 0..(ByteCount - 1)
  BY DEF StatusBytes
<1>2. \A i \in 0..(ByteCount - 1) : StatusBytes(c)[i] =
          {b \in 0..(ByteBits - 1) : b + i * ByteBits \in ChangeMask(c)}
  BY DEF StatusBytes
<1>3. ASSUME NEW n \in 0..MaxPorts, NEW i \in 0..(ByteCount - 1),
             n - i * ByteBits \in StatusBytes(c)[i]
      PROVE  n \in ChangeMask(c)
  <2>1. (n - i * ByteBits) + i * ByteBits \in ChangeMask(c)
    BY <1>2, <1>3
  <2>2. i * ByteBits \in Int /\ n \in Int
    BY HubAssumption
  <2> QED BY <2>1, <2>2
<1>4. ASSUME NEW n \in ChangeMask(c)
      PROVE  n \in 0..MaxPorts /\ \E i \in 0..(ByteCount - 1) :
                n - i * ByteBits \in StatusBytes(c)[i]
  <2>1. n \in 0..PortCount /\ n \in 0..MaxPorts /\ PortCount \in Nat
    BY HubAssumption DEF Ports
  <2> DEFINE i == n \div ByteBits
  <2>2. i \in 0..(ByteCount - 1) /\ n - i * ByteBits \in 0..(ByteBits - 1)
    BY <2>1, HubAssumption, DivByte DEF ByteCount
  <2>3. i * ByteBits \in Int /\ n \in Int
    BY <2>1, <2>2, HubAssumption
  <2> HIDE DEF i
  <2>4. (n - i * ByteBits) + i * ByteBits = n
    BY <2>3
  <2> QED BY <1>2, <2>1, <2>2, <2>4
<1> QED BY <1>1, <1>3, <1>4

\* A notification reaches every port with a pending change.
LEMMA NotifyTellsAll ==
  ASSUME Notify, usb_change' \in ChangeType, PortBits'
  PROVE  told' = told \cup {p \in Ports : PendingChanges(p)' # {}}
<1>1. ChangeMask(usb_change') \subseteq Ports
      /\ \A p \in Ports : p \in ChangeMask(usb_change') <=> PendingChanges(p)' # {}
  BY PortFacts DEF PortBits, ChangeMask, PendingChanges, ChangeType
<1>2. told' = told \cup ChangeMask(usb_change')
  BY <1>1, ReportedBits DEF Notify
<1> QED BY <1>1, <1>2

\* The abstract variables.
LineRec(p) == [powered |-> p \in powered, caps |-> caps[p]]
UsbRec(p) ==
    [enabled |-> p \in usb.enabled, suspended |-> p \in usb.suspended,
     speed |-> SpeedName(GetSpeed(speed, p)), changes |-> PendingChanges(p)]
LineMap == [p \in Ports |-> LineRec(p)]
UsbMap == [p \in Ports |-> UsbRec(p)]

\* What a port's record is made of.
LEMMA UsbRecSame ==
  ASSUME NEW q,
         q \in usb'.enabled <=> q \in usb.enabled,
         q \in usb'.suspended <=> q \in usb.suspended,
         GetSpeed(speed', q) = GetSpeed(speed, q),
         PendingChanges(q)' = PendingChanges(q)
  PROVE  UsbRec(q)' = UsbRec(q)
<1>1. (q \in usb'.enabled) = (q \in usb.enabled)  OBVIOUS
<1>2. (q \in usb'.suspended) = (q \in usb.suspended)  OBVIOUS
<1> QED BY <1>1, <1>2, Zenon DEF UsbRec

\* A port's record after a step, from what it is made of.
LEMMA UsbRecNext ==
  ASSUME NEW q, NEW e \in BOOLEAN, NEW b \in BOOLEAN, NEW v, NEW c,
         q \in usb'.enabled <=> e, q \in usb'.suspended <=> b,
         SpeedName(GetSpeed(speed', q)) = v, PendingChanges(q)' = c
  PROVE  UsbRec(q)' = [enabled |-> e, suspended |-> b, speed |-> v, changes |-> c]
<1>1. (q \in usb'.enabled) = e  OBVIOUS
<1>2. (q \in usb'.suspended) = b  OBVIOUS
<1> QED BY <1>1, <1>2, Zenon DEF UsbRec

\* The Boolean fields of a record, as values.
LEMMA UsbFields ==
  ASSUME NEW q
  PROVE  \E e, b \in BOOLEAN :
            /\ q \in usb.enabled <=> e
            /\ q \in usb.suspended <=> b
            /\ UsbRec(q) = [enabled |-> e, suspended |-> b,
                            speed |-> SpeedName(GetSpeed(speed, q)),
                            changes |-> PendingChanges(q)]
<1>1. (q \in usb.enabled) \in BOOLEAN /\ (q \in usb.suspended) \in BOOLEAN  OBVIOUS
<1> QED BY <1>1, Zenon DEF UsbRec

\* The lines, when nothing is attached, detached or switched.
LEMMA LineSame ==
  ASSUME UNCHANGED <<caps, powered>> PROVE LineMap' = LineMap
  BY DEF LineMap, LineRec

\* The records, when no port's record changes.
LEMMA UsbMapSame ==
  ASSUME \A q \in Ports : UsbRec(q)' = UsbRec(q) PROVE UsbMap' = UsbMap
  BY DEF UsbMap

\* Requests that change neither speeds nor change words.
LEMMA PortStateMaps ==
  ASSUME Inv, NEW th \in Threads, NEW n \in Indices, PortState(th, n)
  PROVE  n \in Ports /\ (Contract!Disable(n) \/ \E b \in BOOLEAN : Contract!Suspend(n, b))
<1>0. n \in Ports /\ TypeOK  BY PortFacts DEF PortState, HubRequest, Inv
<1>1. UNCHANGED <<caps, powered, speed, usb_change, told>>
  BY DEF PortState, LineUnchanged
<1>2. LineMap' = LineMap  BY <1>1, LineSame
<1>3. \A q : PendingChanges(q)' = PendingChanges(q)  BY <1>1 DEF PendingChanges
<1>4. ASSUME NEW b \in BOOLEAN,
             usb' = [usb EXCEPT !.suspended = IF b THEN @ \cup {n} ELSE @ \ {n}]
      PROVE  Contract!Suspend(n, b)
  <2>1. usb'.enabled = usb.enabled
        /\ usb'.suspended = IF b THEN usb.suspended \cup {n} ELSE usb.suspended \ {n}
    BY <1>0, <1>4 DEF TypeOK
  <2>2. \A q \in Ports : q # n => UsbRec(q)' = UsbRec(q)
    BY <1>1, <1>3, <2>1, UsbRecSame
  <2>3. UsbRec(n)' = [UsbRec(n) EXCEPT !.suspended = b]
    <3>1. PICK e, b0 \in BOOLEAN :
            (n \in usb.enabled <=> e) /\
            UsbRec(n) = [enabled |-> e, suspended |-> b0,
                         speed |-> SpeedName(GetSpeed(speed, n)),
                         changes |-> PendingChanges(n)]
      BY UsbFields
    <3>2. UsbRec(n)' = [enabled |-> e, suspended |-> b,
                        speed |-> SpeedName(GetSpeed(speed, n)),
                        changes |-> PendingChanges(n)]
      BY <1>1, <1>3, <2>1, <3>1, UsbRecNext
    <3> QED BY <3>1, <3>2
  <2>4. UsbMap' = [UsbMap EXCEPT ![n].suspended = b]
    BY <1>0, <2>2, <2>3 DEF UsbMap
  <2> QED BY <1>1, <1>2, <2>4 DEF Contract!Suspend, LineMap, UsbMap, LineRec, UsbRec
<1>5. ASSUME usb' = [usb EXCEPT !.enabled = @ \ {n}]
      PROVE  Contract!Disable(n)
  <2>1. usb'.suspended = usb.suspended /\ usb'.enabled = usb.enabled \ {n}
    BY <1>0, <1>5 DEF TypeOK
  <2>2. \A q \in Ports : q # n => UsbRec(q)' = UsbRec(q)
    BY <1>1, <1>3, <2>1, UsbRecSame
  <2>3. PICK x \in BOOLEAN : x = FALSE  BY Zenon
  <2>4. UsbRec(n)' = [UsbRec(n) EXCEPT !.enabled = x]
    <3>1. PICK e, b \in BOOLEAN :
            (n \in usb.suspended <=> b) /\
            UsbRec(n) = [enabled |-> e, suspended |-> b,
                         speed |-> SpeedName(GetSpeed(speed, n)),
                         changes |-> PendingChanges(n)]
      BY UsbFields
    <3>2. UsbRec(n)' = [enabled |-> x, suspended |-> b,
                        speed |-> SpeedName(GetSpeed(speed, n)),
                        changes |-> PendingChanges(n)]
      BY <1>1, <1>3, <2>1, <2>3, <3>1, UsbRecNext
    <3> QED BY <3>1, <3>2
  <2>5. UsbMap' = [UsbMap EXCEPT ![n].enabled = x]
    BY <1>0, <2>2, <2>4 DEF UsbMap
  <2>6. UsbMap' = [UsbMap EXCEPT ![n].enabled = FALSE]
    BY <2>3, <2>5, Zenon
  <2> QED BY <1>1, <1>2, <2>6 DEF Contract!Disable, LineMap, UsbMap, LineRec, UsbRec
<1>6. \/ usb' = [usb EXCEPT !.suspended = IF TRUE THEN @ \cup {n} ELSE @ \ {n}]
      \/ usb' = [usb EXCEPT !.suspended = IF FALSE THEN @ \cup {n} ELSE @ \ {n}]
      \/ usb' = [usb EXCEPT !.enabled = @ \ {n}]
  BY DEF PortState
<1> QED BY <1>0, <1>4, <1>5, <1>6

ChangeNames == {"connected", "enabled", "suspended", "reset", "over_current"}

\* Acknowledging a change, or clearing the bit of the hub itself.
LEMMA ClearedMaps ==
  ASSUME Inv, NEW n, NEW f \in ChangeNames,
         usb_change' = [usb_change EXCEPT ![f] = @ \ {n}],
         UNCHANGED <<usb, speed, told, caps, powered>>
  PROVE  /\ n \in Ports => Contract!Acknowledge(n, f)
         /\ n \notin Ports => UNCHANGED Contract!vars
<1>0. usb_change \in ChangeType  BY DEF Inv, TypeOK, ChangeType
<1>1. \A q \in Ports : PendingChanges(q)' =
          IF q = n THEN PendingChanges(q) \ {f} ELSE PendingChanges(q)
  BY <1>0 DEF PendingChanges, ChangeType, ChangeNames
<1>2. LineMap' = LineMap  BY LineSame
<1>3. \A q \in Ports : q # n => UsbRec(q)' = UsbRec(q)
  BY <1>1, UsbRecSame
<1>4. ASSUME n \in Ports PROVE Contract!Acknowledge(n, f)
  <2>1. UsbRec(n)' = [UsbRec(n) EXCEPT !.changes = @ \ {f}]
    <3>1. PICK e, b \in BOOLEAN :
            (n \in usb.enabled <=> e) /\ (n \in usb.suspended <=> b) /\
            UsbRec(n) = [enabled |-> e, suspended |-> b,
                         speed |-> SpeedName(GetSpeed(speed, n)),
                         changes |-> PendingChanges(n)]
      BY UsbFields
    <3>2. UsbRec(n)' = [enabled |-> e, suspended |-> b,
                        speed |-> SpeedName(GetSpeed(speed, n)),
                        changes |-> PendingChanges(n) \ {f}]
      BY <1>1, <1>4, <3>1, UsbRecNext
    <3> QED BY <3>1, <3>2
  <2>2. UsbMap' = [UsbMap EXCEPT ![n].changes = @ \ {f}]
    BY <1>3, <1>4, <2>1 DEF UsbMap
  <2> QED BY <1>2, <2>2 DEF Contract!Acknowledge, LineMap, UsbMap, LineRec, UsbRec
<1>5. ASSUME n \notin Ports PROVE UNCHANGED Contract!vars
  <2>1. UsbMap' = UsbMap  BY <1>3, <1>5, UsbMapSame
  <2> QED BY <1>2, <2>1 DEF Contract!vars, LineMap, UsbMap, LineRec, UsbRec
<1> QED BY <1>4, <1>5

\* Storing a marked change is ConnectionChange.
LEMMA StoreMarkMaps ==
  ASSUME Inv, Inv', Serial, NEW th \in Threads, StoreMark(th)
  PROVE  \E p \in Ports : Contract!ConnectionChange(p)
<1>0. usb_change \in ChangeType /\ usb_change' \in ChangeType /\ PortBits'
  BY DEF Inv, TypeOK, ChangeType
<1>1. PICK p \in Ports : usb_change' = [usb_change EXCEPT !.connected = @ \cup {p}]
  BY DEF StoreMark, Serial
<1>2. Notify /\ UNCHANGED <<caps, powered, usb, speed>>  BY DEF StoreMark
<1>3. \A q \in Ports : PendingChanges(q)' =
          IF q = p THEN PendingChanges(q) \cup {"connected"} ELSE PendingChanges(q)
  BY <1>0, <1>1 DEF PendingChanges, ChangeType
<1>4. LineMap' = LineMap  BY <1>2, LineSame
<1>5. \A q \in Ports : q # p => UsbRec(q)' = UsbRec(q)
  BY <1>2, <1>3, UsbRecSame
<1>6. UsbRec(p)' = [UsbRec(p) EXCEPT !.changes = @ \cup {"connected"}]
  <2>1. PICK e, b \in BOOLEAN :
          (p \in usb.enabled <=> e) /\ (p \in usb.suspended <=> b) /\
          UsbRec(p) = [enabled |-> e, suspended |-> b,
                       speed |-> SpeedName(GetSpeed(speed, p)),
                       changes |-> PendingChanges(p)]
    BY UsbFields
  <2>2. PendingChanges(p)' = PendingChanges(p) \cup {"connected"}
        /\ usb' = usb /\ speed' = speed
    BY <1>1, <1>2, <1>3
  <2>3. UsbRec(p)' = [enabled |-> e, suspended |-> b,
                      speed |-> SpeedName(GetSpeed(speed, p)),
                      changes |-> PendingChanges(p) \cup {"connected"}]
    BY <2>1, <2>2, UsbRecNext
  <2> QED BY <2>1, <2>3
<1>7. UsbMap' = [UsbMap EXCEPT ![p].changes = @ \cup {"connected"}]
  <2>1. p \in Ports  BY <1>1
  <2> QED BY <2>1, <1>5, <1>6 DEF UsbMap
<1>8. told' = told \cup {q \in Ports : UsbMap'[q].changes # {}}
  <2>1. \A q \in Ports : UsbMap'[q].changes = PendingChanges(q)'
    BY DEF UsbMap, UsbRec
  <2> QED BY <1>0, <1>2, <2>1, NotifyTellsAll
<1> QED BY <1>1, <1>4, <1>7, <1>8
    DEF Contract!ConnectionChange, Contract!TellAll, LineMap, UsbMap, LineRec, UsbRec

\* Connected, of the words and of the record.
LEMMA ConnectedMaps ==
  ASSUME NEW p \in Ports
  PROVE  Contract!Connected(LineMap[p]) <=> Connected(p)
  BY DEF Contract!Connected, LineMap, LineRec, Connected

\* Signaling and power are LineChanges: Disconnect clears the port and no other.
LEMMA LineStepMaps ==
  ASSUME Inv, NEW th \in Threads, NEW p \in Ports,
         caps' \in [Ports -> Capabilities \cup {{}}], powered' \subseteq Ports,
         \A q \in Ports : q # p =>
            caps'[q] = caps[q] /\ (q \in powered' <=> q \in powered),
         MarkIfChanged(th, p)
  PROVE  \E l \in Contract!Line : Contract!LineChanges(p, l)
<1>0. TypeOK /\ speed \in PackedWords /\ "none" \in Speeds /\ p \in Positions
  BY PortFacts, SpeedType DEF Inv, TypeOK, Speeds
<1>1. PICK on \in BOOLEAN : p \in powered' <=> on  OBVIOUS
<1>l. PICK l : l = [powered |-> on, caps |-> caps'[p]]  BY Zenon
<1>2. l \in Contract!Line
  BY <1>l DEF Contract!Line
<1>3. LineMap' = [LineMap EXCEPT ![p] = l]
  <2>1. \A q \in Ports : q # p => LineRec(q)' = LineRec(q)
    <3> SUFFICES ASSUME NEW q \in Ports, q # p PROVE LineRec(q)' = LineRec(q)  OBVIOUS
    <3>1. (q \in powered') = (q \in powered) /\ caps'[q] = caps[q]  OBVIOUS
    <3> QED BY <3>1, Zenon DEF LineRec
  <2>2. LineRec(p)' = l
    <3>1. (p \in powered') = on  BY <1>1
    <3> QED BY <1>l, <3>1, Zenon DEF LineRec
  <2> QED BY <2>1, <2>2 DEF LineMap
<1>4. told' = told /\ usb_change' = usb_change  BY DEF MarkIfChanged
<1>5. \A q : PendingChanges(q)' = PendingChanges(q)  BY <1>4 DEF PendingChanges
<1>6. Contract!Connected(l) <=> Connected(p)'
  BY <1>1, <1>l DEF Contract!Connected, Connected
<1>7. ASSUME Connected(p) /\ ~Connected(p)' PROVE Contract!LineChanges(p, l)
  <2>1. Disconnect(p)  BY <1>7 DEF MarkIfChanged
  <2>2. usb'.enabled = usb.enabled \ {p} /\ usb'.suspended = usb.suspended \ {p}
    BY <2>1 DEF Disconnect
  <2>3. speed' = SetSpeed(speed, p, "none")  BY <2>1 DEF Disconnect
  <2>4. SpeedName(GetSpeed(speed', p)) = "none"
        /\ \A n \in Positions : n # p => GetSpeed(speed', n) = GetSpeed(speed, n)
    BY <1>0, <2>3, SpeedOfSame, SpeedOfOther, SpeedNameOfEncode
  <2>5. \A q \in Ports : q # p => UsbRec(q)' = UsbRec(q)
    BY <1>5, <2>2, <2>4, UsbRecSame, PortFacts
  <2>6. PICK x \in BOOLEAN : x = FALSE  BY Zenon
  <2>7. UsbRec(p)' = [UsbRec(p) EXCEPT !.enabled = x, !.suspended = x, !.speed = "none"]
    <3>1. PICK e, b \in BOOLEAN :
            UsbRec(p) = [enabled |-> e, suspended |-> b,
                         speed |-> SpeedName(GetSpeed(speed, p)),
                         changes |-> PendingChanges(p)]
      BY UsbFields
    <3>2. UsbRec(p)' = [enabled |-> x, suspended |-> x, speed |-> "none",
                        changes |-> PendingChanges(p)]
      BY <1>5, <2>2, <2>4, <2>6, UsbRecNext
    <3>3. PICK r : r = UsbRec(p)  BY Zenon
    <3>4. PICK v, c : v = SpeedName(GetSpeed(speed, p)) /\ c = PendingChanges(p)
      BY Zenon
    <3>5. r = [enabled |-> e, suspended |-> b, speed |-> v, changes |-> c]
      BY <3>1, <3>3, <3>4
    <3>6. [r EXCEPT !.enabled = x, !.suspended = x, !.speed = "none"]
          = [enabled |-> x, suspended |-> x, speed |-> "none", changes |-> c]
      <4>1. [r EXCEPT !.enabled = x, !.suspended = x, !.speed = "none"]
            = [[[r EXCEPT !.enabled = x] EXCEPT !.suspended = x] EXCEPT !.speed = "none"]
        OBVIOUS
      <4>2. PICK r1 : r1 = [r EXCEPT !.enabled = x]  BY Zenon
      <4>3. PICK r2 : r2 = [r1 EXCEPT !.suspended = x]  BY Zenon
      <4>4. r1 = [enabled |-> x, suspended |-> b, speed |-> v, changes |-> c]
        BY <3>5, <4>2
      <4>5. r2 = [enabled |-> x, suspended |-> x, speed |-> v, changes |-> c]
        BY <4>3, <4>4
      <4>6. [r2 EXCEPT !.speed = "none"]
            = [enabled |-> x, suspended |-> x, speed |-> "none", changes |-> c]
        BY <4>5
      <4> QED BY <4>1, <4>2, <4>3, <4>6
    <3> QED BY <3>2, <3>3, <3>4, <3>6, Zenon
  <2>8. UsbMap' = [UsbMap EXCEPT ![p].enabled = x, ![p].suspended = x,
                                 ![p].speed = "none"]
    BY <2>5, <2>7 DEF UsbMap
  <2>9. UsbMap' = [UsbMap EXCEPT ![p].enabled = FALSE, ![p].suspended = FALSE,
                                 ![p].speed = "none"]
    BY <2>6, <2>8, Zenon
  <2>10. Contract!Connected(LineMap[p]) /\ ~Contract!Connected(l)
    BY <1>6, <1>7, ConnectedMaps
  <2> QED BY <1>3, <1>4, <2>9, <2>10
      DEF Contract!LineChanges, LineMap, UsbMap, LineRec, UsbRec
<1>8. ASSUME ~(Connected(p) /\ ~Connected(p)') PROVE Contract!LineChanges(p, l)
  <2>1. UNCHANGED <<usb, speed>>  BY <1>8 DEF MarkIfChanged
  <2>2. UsbMap' = UsbMap  BY <1>5, <2>1, UsbRecSame, UsbMapSame
  <2>3. ~(Contract!Connected(LineMap[p]) /\ ~Contract!Connected(l))
    BY <1>6, <1>8, ConnectedMaps
  <2> QED BY <1>3, <1>4, <2>2, <2>3
      DEF Contract!LineChanges, LineMap, UsbMap, LineRec, UsbRec
<1>9. Contract!LineChanges(p, l)
  <2> QED BY <1>7, <1>8
<1> QED BY <1>2, <1>9, Zenon

\* virtusb_hub_reset_port is Reset.
LEMMA ResetPortMaps ==
  ASSUME Inv, Inv', NEW th \in Threads, NEW n \in Indices, ResetPort(th, n)
  PROVE  n \in Ports /\ Contract!Reset(n)
<1>0. TypeOK /\ speed \in PackedWords /\ n \in Ports /\ n \in Positions
      /\ usb_change \in ChangeType /\ usb_change' \in ChangeType /\ PortBits'
  BY PortFacts, SpeedType DEF Inv, TypeOK, ResetPort, HubRequest, ChangeType
<1>1. Connected(n) /\ DeterminedSpeed(n) # "none" /\ DeterminedSpeed(n) \in Speeds
      /\ speed' = SetSpeed(speed, n, DeterminedSpeed(n))
      /\ usb_change' = [usb_change EXCEPT !.reset = @ \cup {n}]
      /\ UNCHANGED <<caps, powered>>
  BY DeterminedIsSpeed DEF ResetPort, LineUnchanged
<1>2. usb'.enabled = usb.enabled \cup {n} /\ usb'.suspended = usb.suspended \ {n}
  BY <1>0 DEF ResetPort, TypeOK
<1>3. SpeedName(GetSpeed(speed', n)) = DeterminedSpeed(n)
      /\ \A q \in Positions : q # n => GetSpeed(speed', q) = GetSpeed(speed, q)
  BY <1>0, <1>1, SpeedOfSame, SpeedOfOther, SpeedNameOfEncode
<1>4. DeterminedSpeed(n) = Contract!Fastest(LineMap[n].caps)
  BY <1>0, <1>1 DEF DeterminedSpeed, Contract!Fastest, LineMap, LineRec
<1>5. \A q \in Ports : PendingChanges(q)' =
          IF q = n THEN PendingChanges(q) \cup {"reset"} ELSE PendingChanges(q)
  BY <1>0, <1>1 DEF PendingChanges, ChangeType
<1>6. LineMap' = LineMap  BY <1>1, LineSame
<1>7. \A q \in Ports : q # n => UsbRec(q)' = UsbRec(q)
  BY <1>2, <1>3, <1>5, UsbRecSame, PortFacts
<1>8. PICK x, y \in BOOLEAN : x = FALSE /\ y = TRUE  BY Zenon
<1>9. UsbRec(n)' = [enabled |-> y, suspended |-> x, speed |-> DeterminedSpeed(n),
                    changes |-> PendingChanges(n) \cup {"reset"}]
  <2>1. (n \in usb'.enabled <=> y) /\ (n \in usb'.suspended <=> x)
    BY <1>2, <1>8
  <2>2. PendingChanges(n)' = PendingChanges(n) \cup {"reset"}  BY <1>0, <1>5
  <2> QED BY <1>0, <1>3, <2>1, <2>2, UsbRecNext
<1>10. UsbMap[n].changes = PendingChanges(n)  BY <1>0 DEF UsbMap, UsbRec
<1>11. UsbMap' = [UsbMap EXCEPT ![n] =
          [enabled |-> y, suspended |-> x, speed |-> DeterminedSpeed(n),
           changes |-> UsbMap[n].changes \cup {"reset"}]]
  BY <1>0, <1>7, <1>9, <1>10 DEF UsbMap
<1>12. UsbMap' = [UsbMap EXCEPT ![n] =
          [enabled |-> TRUE, suspended |-> FALSE,
           speed |-> Contract!Fastest(LineMap[n].caps),
           changes |-> UsbMap[n].changes \cup {"reset"}]]
  BY <1>4, <1>8, <1>11, Zenon
<1>13. \/ told' = told \cup {q \in Ports : UsbMap'[q].changes # {}}
       \/ told' = told /\ "reset" \in UsbMap[n].changes
  <2>1. \A q \in Ports : UsbMap'[q].changes = PendingChanges(q)'
    BY DEF UsbMap, UsbRec
  <2>2. CASE n \in usb_change.reset
    BY <1>10, <2>2 DEF ResetPort, PendingChanges
  <2>3. CASE n \notin usb_change.reset
    BY <1>0, <2>1, <2>3, NotifyTellsAll DEF ResetPort
  <2> QED BY <2>2, <2>3
<1>14. Contract!Connected(LineMap[n])  BY <1>0, <1>1, ConnectedMaps
<1> QED BY <1>0, <1>6, <1>12, <1>13, <1>14
    DEF Contract!Reset, Contract!TellAll, LineMap, UsbMap, LineRec, UsbRec

\* Storing an acknowledgement is Acknowledge of this port.
LEMMA StoreAckMaps ==
  ASSUME Inv, Serial, NEW th \in Threads, StoreAck(th)
  PROVE  \E p \in Ports : Contract!Acknowledge(p, "connected")
<1>1. PICK p \in Ports : p = call[th].port /\ call[th].word = usb_change.connected \ {p}
  BY DEF StoreAck, Serial
<1>2. usb_change' = [usb_change EXCEPT !["connected"] = @ \ {p}]
      /\ UNCHANGED <<usb, speed, told, caps, powered>>
  BY <1>1 DEF StoreAck, LineUnchanged
<1>3. "connected" \in ChangeNames  BY DEF ChangeNames
<1>4. Contract!Acknowledge(p, "connected")
  BY <1>1, <1>2, <1>3, ClearedMaps
<1> QED BY <1>1, <1>4, Zenon

\* The hub driver turns to a port.
LEMMA LookAtMaps ==
  ASSUME NEW p \in Ports, LookAt(p)
  PROVE  Contract!Look(p)
<1>1. told' = told \ {p} /\ UNCHANGED <<caps, powered, usb, speed, usb_change>>
  BY DEF LookAt, LineUnchanged
<1>2. LineMap' = LineMap  BY <1>1, LineSame
<1>3. UsbMap' = UsbMap  BY <1>1 DEF UsbMap, UsbRec, PendingChanges
<1> QED BY <1>1, <1>2, <1>3 DEF Contract!Look, LineMap, UsbMap, LineRec, UsbRec

\* Steps of the handlers alone are not seen.
LEMMA StutterMaps ==
  ASSUME UNCHANGED <<caps, powered, usb, speed, usb_change, told>>
  PROVE  UNCHANGED Contract!vars
<1>1. LineMap' = LineMap  BY LineSame
<1>2. UsbMap' = UsbMap  BY DEF UsbMap, UsbRec, PendingChanges
<1> QED BY <1>1, <1>2 DEF Contract!vars, LineMap, UsbMap, LineRec, UsbRec

\* A new hub is one whose ports are all disconnected.
LEMMA InitMaps ==
  ASSUME Init PROVE Contract!Init
<1>0. PICK x \in BOOLEAN : x = FALSE  BY Zenon
<1>1. \A p \in Ports : LineRec(p) = [powered |-> x, caps |-> {}]
  <2> SUFFICES ASSUME NEW p \in Ports
               PROVE LineRec(p) = [powered |-> x, caps |-> {}]
    OBVIOUS
  <2>1. (p \in powered) = x /\ caps[p] = {}  BY <1>0 DEF Init
  <2> QED BY <2>1, Zenon DEF LineRec
<1>2. \A p \in Ports : UsbRec(p) = [enabled |-> x, suspended |-> x,
                                    speed |-> "none", changes |-> {}]
  <2> SUFFICES ASSUME NEW p \in Ports
               PROVE UsbRec(p) = [enabled |-> x, suspended |-> x,
                                  speed |-> "none", changes |-> {}]
    OBVIOUS
  <2>1. (p \in usb.enabled) = x /\ (p \in usb.suspended) = x  BY <1>0 DEF Init
  <2>2. PendingChanges(p) = {}  BY DEF Init, PendingChanges
  <2>3. GetSpeed(speed, p) = {}
    <3>1. SpeedIsTrue  BY InitInv DEF Inv
    <3>2. ~Connected(p)  BY DEF Connected, Init
    <3> QED BY <3>1, <3>2 DEF SpeedIsTrue
  <2>4. SpeedName(GetSpeed(speed, p)) = "none"
    BY <2>3, Zenon DEF SpeedName
  <2> QED BY <2>1, <2>2, <2>4, Zenon DEF UsbRec
<1>3. LineMap = [p \in Ports |-> [powered |-> x, caps |-> {}]]
  BY <1>1 DEF LineMap
<1>4. UsbMap = [p \in Ports |-> [enabled |-> x, suspended |-> x,
                                speed |-> "none", changes |-> {}]]
  BY <1>2 DEF UsbMap
<1>5. told = {}  BY DEF Init
<1>6. LineMap = [p \in Ports |-> [powered |-> FALSE, caps |-> {}]]
      /\ UsbMap = [p \in Ports |-> [enabled |-> FALSE, suspended |-> FALSE,
                                    speed |-> "none", changes |-> {}]]
  BY <1>0, <1>3, <1>4, Zenon
<1> QED BY <1>5, <1>6 DEF Contract!Init, LineMap, UsbMap, LineRec, UsbRec

\* Every thread starts idle.
LEMMA InitSerial ==
  ASSUME Init PROVE Serial
  BY DEF Init, Serial, At, Idle

\* Every step of the words is a step of the contract, or unseen.
LEMMA NextMaps ==
  ASSUME Inv, Inv', Serial, [Next]_vars
  PROVE  [Contract!Next]_(Contract!vars)
<1>1. ASSUME NEW th \in Threads, NEW p \in Sockets, NEW cs \in Capabilities \cup {{}},
             Signal(th, p, cs)
      PROVE  Contract!Next
  <2>1. /\ p \in Ports /\ powered' \subseteq Ports
        /\ caps' \in [Ports -> Capabilities \cup {{}}]
        /\ MarkIfChanged(th, p)
    BY <1>1, PortFacts DEF Signal, Inv, TypeOK
  <2>2. \A q \in Ports : q # p =>
          caps'[q] = caps[q] /\ (q \in powered' <=> q \in powered)
    BY <1>1, <2>1 DEF Signal, Inv, TypeOK
  <2>3. \E l \in Contract!Line : Contract!LineChanges(p, l)
    BY <2>1, <2>2, LineStepMaps
  <2> QED BY <2>1, <2>3, Zenon DEF Contract!Next
<1>2. ASSUME NEW th \in Threads, NEW n \in Indices, NEW v \in BOOLEAN,
             SetPortPower(th, n, v)
      PROVE  Contract!Next
  <2>1. /\ n \in Ports /\ powered' \subseteq Ports
        /\ caps' \in [Ports -> Capabilities \cup {{}}]
        /\ MarkIfChanged(th, n)
    BY <1>2, PortFacts DEF SetPortPower, Inv, TypeOK
  <2>2. \A q \in Ports : q # n =>
          caps'[q] = caps[q] /\ (q \in powered' <=> q \in powered)
    BY <1>2, <2>1 DEF SetPortPower, Inv, TypeOK
  <2>3. \E l \in Contract!Line : Contract!LineChanges(n, l)
    BY <2>1, <2>2, LineStepMaps
  <2> QED BY <2>1, <2>3, Zenon DEF Contract!Next
<1>3. ASSUME NEW th \in Threads, NEW n \in Indices, ResetPort(th, n)
      PROVE  Contract!Next
  <2>1. n \in Ports /\ Contract!Reset(n)  BY <1>3, ResetPortMaps
  <2> QED BY <2>1, Zenon DEF Contract!Next
<1>4. ASSUME NEW th \in Threads, NEW n \in Indices, PortState(th, n)
      PROVE  Contract!Next
  <2>1. n \in Ports /\ (Contract!Disable(n) \/ \E b \in BOOLEAN : Contract!Suspend(n, b))
    BY <1>4, PortStateMaps
  <2> QED BY <2>1, Zenon DEF Contract!Next
<1>5. ASSUME NEW th \in Threads, NEW n \in Indices, ClearChange(th, n)
      PROVE  Contract!Next
  <2>1. PICK f \in ChangeNames : usb_change' = [usb_change EXCEPT ![f] = @ \ {n}]
    BY <1>5 DEF ClearChange, ChangeNames
  <2>2. n \in Ports /\ UNCHANGED <<usb, speed, told, caps, powered>>
    BY <1>5, PortFacts DEF ClearChange, HubRequest, LineUnchanged
  <2>3. Contract!Acknowledge(n, f)  BY <2>1, <2>2, ClearedMaps
  <2>4. f \in Contract!Changes  BY DEF ChangeNames, Contract!Changes
  <2> QED BY <2>2, <2>3, <2>4, Zenon DEF Contract!Next
<1>6. ASSUME NEW th \in Threads, NEW n \in Indices, ClearConnection(th, n)
      PROVE  UNCHANGED Contract!vars
  BY <1>6, StutterMaps DEF ClearConnection, LineUnchanged
<1>7. ASSUME NEW th \in Threads, ClearHubChange(th)
      PROVE  UNCHANGED Contract!vars
  <2>1. usb_change' = [usb_change EXCEPT !["over_current"] = @ \ {0}]
        /\ UNCHANGED <<usb, speed, told, caps, powered>>
    BY <1>7 DEF ClearHubChange, LineUnchanged
  <2>2. 0 \notin Ports /\ "over_current" \in ChangeNames
    BY HubAssumption DEF Ports, ChangeNames
  <2> QED BY <2>1, <2>2, ClearedMaps
<1>8. ASSUME NEW th \in Threads, StoreMark(th) PROVE Contract!Next
  <2>1. \E p \in Ports : Contract!ConnectionChange(p)  BY <1>8, StoreMarkMaps
  <2> QED BY <2>1, Zenon DEF Contract!Next
<1>9. ASSUME NEW th \in Threads, StoreAck(th) PROVE Contract!Next
  <2>1. \E p \in Ports : Contract!Acknowledge(p, "connected")  BY <1>9, StoreAckMaps
  <2>2. "connected" \in Contract!Changes  BY DEF Contract!Changes
  <2> QED BY <2>1, <2>2, Zenon DEF Contract!Next
<1>10. ASSUME NEW p \in Ports, LookAt(p) PROVE Contract!Next
  <2>1. Contract!Look(p)  BY <1>10, LookAtMaps
  <2> QED BY <2>1, Zenon DEF Contract!Next
<1>11. CASE UNCHANGED vars
  BY <1>11, StutterMaps DEF vars
<1>12. Contract!Next \/ UNCHANGED Contract!vars
  BY <1>1, <1>2, <1>3, <1>4, <1>5, <1>6, <1>7, <1>8, <1>9, <1>10, <1>11 DEF Next
<1> QED BY <1>12

\* When handlers run one at a time the words of the hub implement one record per
\* port: no request disturbs another port, a disconnected port is disabled, and
\* the host is told of every change (virtusb_hub.c, virtusb_hcd_hub_control).
THEOREM Refinement ==
  ASSUME Serialized
  PROVE  Spec => ImplementsContract
<1>1. Init => Contract!Init  BY InitMaps
<1>2. Init => Serial  BY InitSerial
<1>3. TypeOK /\ Serial /\ [Next]_vars => Serial'  BY NextSerial
<1>4. Inv /\ Inv' /\ Serial /\ [Next]_vars => [Contract!Next]_(Contract!vars)
  BY NextMaps
<1>5. Inv => TypeOK  BY DEF Inv
<1>6. Spec => []Inv  BY Invariance
<1> QED BY <1>1, <1>2, <1>3, <1>4, <1>5, <1>6, PTL
    DEF Spec, ImplementsContract, Contract!Spec

\* When handlers run one at a time a pending connection change is cleared only by
\* the acknowledgement that names its port: the overlap of two handlers is all
\* that loses one (virtusb_hub_mark_port_connection_change,
\* virtusb_hcd_clear_port_feature).
THEOREM AcknowledgedOnly ==
  ASSUME Serialized
  PROVE  Spec => PendingUntilAcknowledged
<1> DEFINE Lost == \A p \in usb_change.connected \ usb_change.connected' :
                     \E th \in Threads :
                        At(th, "ack") /\ call[th].port = p /\ At(th, "idle")'
<1>1. ASSUME Inv, Serial, [Next]_vars PROVE Lost
  <2>0. usb_change \in ChangeType /\ call \in [Threads -> Call]
    BY <1>1 DEF Inv, TypeOK, ChangeType
  <2>1. ASSUME NEW th \in Threads, StoreMark(th) PROVE Lost
    <3>1. usb_change'.connected = usb_change.connected \cup {call[th].port}
      BY <1>1, <2>0, <2>1 DEF StoreMark, Serial, ChangeType
    <3> QED BY <3>1
  <2>2. ASSUME NEW th \in Threads, StoreAck(th) PROVE Lost
    <3>1. usb_change'.connected = usb_change.connected \ {call[th].port}
      BY <1>1, <2>0, <2>2 DEF StoreAck, Serial, ChangeType
    <3>2. At(th, "ack") /\ At(th, "idle")'
      BY <2>0, <2>2 DEF StoreAck, Enter, At, Idle
    <3> QED BY <3>1, <3>2
  <2>3. ASSUME NEW th \in Threads, NEW n \in Indices,
               ResetPort(th, n) \/ ClearChange(th, n)
        PROVE  Lost
    <3>1. usb_change'.connected = usb_change.connected
      BY <2>0, <2>3 DEF ResetPort, ClearChange, ChangeType
    <3> QED BY <3>1
  <2>4. ASSUME NEW th \in Threads, ClearHubChange(th) PROVE Lost
    <3>1. usb_change'.connected = usb_change.connected
      BY <2>0, <2>4 DEF ClearHubChange, ChangeType
    <3> QED BY <3>1
  <2>5. ASSUME usb_change' = usb_change PROVE Lost
    BY <2>5
  <2> HIDE DEF Lost
  <2>6. \/ \E th \in Threads : StoreMark(th) \/ StoreAck(th) \/ ClearHubChange(th)
        \/ \E th \in Threads, n \in Indices : ResetPort(th, n) \/ ClearChange(th, n)
        \/ usb_change' = usb_change
    BY <1>1 DEF Next, vars, Signal, SetPortPower, MarkIfChanged, PortState,
               ClearConnection, LookAt
  <2> QED BY <2>1, <2>2, <2>3, <2>4, <2>5, <2>6
<1>2. Init => Serial  BY InitSerial
<1>3. TypeOK /\ Serial /\ [Next]_vars => Serial'  BY NextSerial
<1>4. Inv => TypeOK  BY DEF Inv
<1>5. Spec => []Inv  BY Invariance
<1>6. Inv /\ Serial /\ [Next]_vars => [Lost]_vars  BY <1>1
<1> QED BY <1>2, <1>3, <1>4, <1>5, <1>6, PTL DEF Spec, PendingUntilAcknowledged
=============================================================================
