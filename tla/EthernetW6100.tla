---------------------------- MODULE EthernetW6100 ---------------------------
(***************************************************************************)
(* eth_w6100.c: the driver of the W6100 Ethernet chip.  The chip keeps     *)
(* received frames in a ring addressed by free-running pointers, sends     *)
(* what it is told to in order, and sets interrupt bits; its pin is active *)
(* while a bit is set, and only a falling edge gives int_sem.  One thread  *)
(* serves the interrupts, the network stack sends from another (one at a   *)
(* time: net_if serialises it), and tx_sem carries the completions.        *)
(*                                                                         *)
(* Assumed of the chip and the bus: a command is accepted before the next  *)
(* SPI transfer, and a frame is on the wire within the 10 ms its sender    *)
(* waits (ten frames fit the transmit memory, see OneAhead).               *)
(***************************************************************************)
EXTENDS Integers, Sequences

CONSTANTS
  RX_MEM,     (* W6100_RX_MEM_SIZE, in cells                               *)
  Wrap,       (* where pointers wrap: 2^16 in the chip, four times RX_MEM  *)
  Frames,     (* frames that arrive: sequences of cells                    *)
  Frag,       (* cells of one net_buf fragment                             *)
  Speeds,     (* what the PHY can negotiate; its other state is Down       *)
  Down,
  Rearm,      (* the chip sets RECV again at a RECV command that leaves    *)
              (* frames behind                                             *)
  SemLimit    (* UINT_MAX                                                  *)

HEADER == 2   (* the two bytes in front of a frame: its length, and theirs *)

ASSUME Assumption ==
  /\ RX_MEM \in Nat \ {0} /\ Wrap \in Nat /\ Wrap % RX_MEM = 0 /\ Wrap > RX_MEM
  /\ Frames \subseteq Seq(Nat) /\ \A f \in Frames : Len(f) \in 1..(RX_MEM - HEADER)
  /\ Frag \in Nat \ {0} /\ Down \notin Speeds /\ Rearm \in BOOLEAN
  /\ SemLimit \in Nat /\ SemLimit > 1

IrBits == {"SENDOK", "RECV"}

VARIABLES
  (* the chip *)
  mode,       (* "reset", "masked" (socket open, SIMR = 0) or "on"         *)
  ir,         (* S0_IR                                                     *)
  mem, wr, rd,(* receive memory, its write pointer and S0_RX_RD            *)
  stored,     (* the frames in it, oldest first                            *)
  txq,        (* frames given to it by SEND and not yet sent               *)
  phy,        (* Down or a speed                                           *)
  (* the driver *)
  int_sem, tx_sem,
  is_up, speed,
  pc,         (* the interrupt thread                                      *)
  irq,        (* its copy of S0_IR                                         *)
  pkt,        (* the frame it is copying, as far as it got                 *)
  snd,        (* the sending thread                                        *)
  starved     (* history: no buffer for the oldest frame since it was seen *)

chip   == <<mode, mem, wr, rd, stored, txq, phy>>
link   == <<is_up, speed>>
thread == <<pc, irq, pkt, starved>>
vars   == <<chip, ir, int_sem, tx_sem, link, thread, snd>>

Pin  == mode = "on" /\ ir # {}                      (* gpio_pin_get_dt     *)
Used == (wr - rd) % Wrap                            (* S0_RX_RSR           *)

(* w6100_init, up to the point where the network stack takes over.         *)
Init ==
  /\ mode = "reset" /\ ir = {}
  /\ mem = [i \in 0..RX_MEM - 1 |-> 0] /\ wr = 0 /\ rd = 0 /\ stored = <<>>
  /\ txq = 0 /\ phy \in Speeds \cup {Down}
  /\ int_sem = 0 /\ tx_sem = 1
  /\ is_up = FALSE /\ speed = 0
  /\ pc = "init" /\ irq = {} /\ pkt = <<>> /\ starved = FALSE /\ snd = "idle"

Given_Unlimited(sem) == sem + 1
Given(sem) == IF sem < SemLimit THEN sem + 1 ELSE sem

(* Bits are set; w6100_gpio_callback runs if that makes the pin fall.      *)
Raise(bits) ==
  /\ ir' = ir \cup bits
  /\ int_sem' = IF mode = "on" /\ ir = {} /\ bits # {} THEN Given(int_sem) ELSE int_sem

-----------------------------------------------------------------------------
(* The chip and the cable.                                                 *)

Receive(f) ==
  LET total == Len(f) + HEADER
      image == <<total \div 256, total % 256>> \o f
      at(i) == ((i - wr) % RX_MEM) + 1
  IN  /\ mode # "reset" /\ phy # Down
      /\ Used + Len(image) <= RX_MEM
      /\ mem' = [i \in DOMAIN mem |-> IF at(i) <= Len(image) THEN image[at(i)] ELSE mem[i]]
      /\ wr' = (wr + Len(image)) % Wrap
      /\ stored' = Append(stored, f)
      /\ Raise({"RECV"})
      /\ UNCHANGED <<mode, rd, txq, phy, tx_sem, link, thread, snd>>

Transmitted ==
  /\ txq > 0 /\ txq' = txq - 1
  /\ Raise({"SENDOK"})
  /\ UNCHANGED <<mode, mem, wr, rd, stored, phy, tx_sem, link, thread, snd>>

PhyChanges ==
  /\ phy' \in (Speeds \cup {Down}) \ {phy}
  /\ UNCHANGED <<mode, mem, wr, rd, stored, txq, ir, int_sem, tx_sem, link, thread, snd>>

-----------------------------------------------------------------------------
(* Bringing the interface up.                                              *)

UpdateLinkStatus ==
  /\ is_up' = (phy # Down)
  /\ speed' = IF phy = Down THEN 0 ELSE phy

IfaceInit ==
  /\ pc = "init" /\ pc' = "sleep"
  /\ UpdateLinkStatus
  /\ UNCHANGED <<chip, ir, int_sem, tx_sem, irq, pkt, starved, snd>>

HwOpen ==
  /\ pc # "init" /\ mode = "reset" /\ mode' = "masked"
  /\ UNCHANGED <<mem, wr, rd, stored, txq, phy, ir, int_sem, tx_sem, link, thread, snd>>

HwUnmask ==
  /\ mode = "masked" /\ mode' = "on"
  /\ int_sem' = IF ir # {} THEN Given(int_sem) ELSE int_sem
  /\ UNCHANGED <<mem, wr, rd, stored, txq, phy, ir, tx_sem, link, thread, snd>>

-----------------------------------------------------------------------------
(* w6100_thread *)

Monitor ==                                          (* 500 ms without one  *)
  /\ pc = "sleep" /\ int_sem = 0
  /\ UpdateLinkStatus
  /\ UNCHANGED <<chip, ir, int_sem, tx_sem, thread, snd>>

Wake_NoUpdate ==
  /\ pc = "sleep" /\ int_sem > 0
  /\ int_sem' = int_sem - 1 /\ pc' = "loop"
  /\ UNCHANGED <<chip, ir, tx_sem, irq, pkt, starved, snd, link>>

Wake ==
  /\ pc = "sleep" /\ int_sem > 0
  /\ int_sem' = int_sem - 1 /\ pc' = "loop"
  /\ IF is_up THEN UNCHANGED link ELSE UpdateLinkStatus
  /\ UNCHANGED <<chip, ir, tx_sem, irq, pkt, starved, snd>>

ReadIr ==
  /\ pc = "loop" /\ Pin
  /\ irq' = ir /\ pc' = "clear"
  /\ UNCHANGED <<chip, ir, int_sem, tx_sem, link, pkt, starved, snd>>

LeaveLoop ==
  /\ pc = "loop" /\ ~Pin /\ pc' = "sleep"
  /\ UNCHANGED <<chip, ir, int_sem, tx_sem, link, irq, pkt, starved, snd>>

ClearIr_All ==
  /\ pc = "clear" /\ pc' = "give"
  /\ ir' = {}
  /\ UNCHANGED <<chip, int_sem, tx_sem, link, irq, pkt, starved, snd>>

ClearIr ==
  /\ pc = "clear" /\ pc' = "give"
  /\ ir' = ir \ irq
  /\ UNCHANGED <<chip, int_sem, tx_sem, link, irq, pkt, starved, snd>>

AfterGive_Once == IF "RECV" \in irq THEN "rx" ELSE "sleep"
AfterGive == IF "RECV" \in irq THEN "rx" ELSE "loop"

GiveTx_Any ==
  /\ pc = "give" /\ pc' = AfterGive
  /\ tx_sem' = Given(tx_sem)
  /\ UNCHANGED <<chip, ir, int_sem, link, irq, pkt, starved, snd>>

GiveTx_ElseIf ==
  /\ pc = "give" /\ pc' = AfterGive
  /\ tx_sem' = IF irq = {"SENDOK"} THEN Given(tx_sem) ELSE tx_sem
  /\ UNCHANGED <<chip, ir, int_sem, link, irq, pkt, starved, snd>>

GiveTx ==
  /\ pc = "give" /\ pc' = AfterGive
  /\ tx_sem' = IF "SENDOK" \in irq THEN Given(tx_sem) ELSE tx_sem
  /\ UNCHANGED <<chip, ir, int_sem, link, irq, pkt, starved, snd>>

-----------------------------------------------------------------------------
(* w6100_rx *)

(* The part up to the end of the memory, then the part from its start.     *)
ReadBuf(offset, len) ==
  LET from  == offset % RX_MEM
      first == IF from + len > RX_MEM THEN RX_MEM - from ELSE len
  IN  [i \in 1..len |-> mem[(IF i <= first THEN from + i - 1 ELSE i - first - 1) % RX_MEM]]

RxLen ==
  LET header == ReadBuf(rd, HEADER) IN (256 * header[1] + header[2] - HEADER) % Wrap

Least(a, b) == IF a < b THEN a ELSE b

RxBegins ==
  /\ pc = "rx" /\ pc' = IF Used = 0 THEN "loop" ELSE "alloc"
  /\ UNCHANGED <<chip, ir, int_sem, tx_sem, link, irq, pkt, starved, snd>>

Allocated ==
  /\ pc = "alloc" /\ pc' = "copy" /\ pkt' = <<>>
  /\ UNCHANGED <<chip, ir, int_sem, tx_sem, link, irq, starved, snd>>

(* 100 ms without a buffer.  The frame stays where it is.                  *)
AllocFails ==
  /\ pc = "alloc" /\ pc' = "loop" /\ starved' = TRUE
  /\ UNCHANGED <<chip, ir, int_sem, tx_sem, link, irq, pkt, snd>>

AfterCopy_Beyond(p) == IF Len(p) > RxLen THEN "deliver" ELSE "copy"
AfterCopy(p)        == IF Len(p) >= RxLen THEN "deliver" ELSE "copy"

CopyFragment ==
  /\ pc = "copy"
  /\ pkt' = pkt \o ReadBuf(rd + HEADER + Len(pkt), Least(Frag, RxLen - Len(pkt)))
  /\ pc' = AfterCopy(pkt')
  /\ UNCHANGED <<chip, ir, int_sem, tx_sem, link, irq, starved, snd>>

(* net_recv_data takes the frame, or refuses it and it is released.        *)
Deliver ==
  /\ pc = "deliver" /\ pc' \in {"handed", "refused"}
  /\ UNCHANGED <<chip, ir, int_sem, tx_sem, link, irq, pkt, starved, snd>>

NextRd_NoHeader == (rd + RxLen) % Wrap
NextRd == (rd + HEADER + RxLen) % Wrap

(* S0_RX_RD and the RECV command.                                          *)
Release ==
  /\ pc \in {"handed", "refused"} /\ pc' = "loop"
  /\ rd' = NextRd
  /\ stored' = Tail(stored)
  /\ pkt' = <<>> /\ starved' = FALSE
  /\ IF Rearm /\ Tail(stored) # <<>> THEN Raise({"RECV"}) ELSE UNCHANGED <<ir, int_sem>>
  /\ UNCHANGED <<mode, mem, wr, txq, phy, tx_sem, link, irq, snd>>

-----------------------------------------------------------------------------
(* w6100_tx *)

(* The frame is written, S0_TX_WR advanced and SEND commanded.  The stack  *)
(* sends while the carrier is on.                                          *)
Send ==
  /\ snd = "idle" /\ is_up /\ mode = "on"
  /\ txq' = txq + 1 /\ snd' = "wait"
  /\ UNCHANGED <<mode, mem, wr, rd, stored, phy, ir, int_sem, tx_sem, link, thread>>

TakeTx ==
  /\ snd = "wait" /\ tx_sem > 0
  /\ tx_sem' = tx_sem - 1 /\ snd' = "idle"
  /\ UNCHANGED <<chip, ir, int_sem, link, thread>>

(* A completion that will be given, or was.                                *)
Completion ==
  txq > 0 \/ "SENDOK" \in ir \/ (pc \in {"clear", "give"} /\ "SENDOK" \in irq) \/ tx_sem > 0

(* -EIO after 10 ms: the frame is out, and either the thread is held up    *)
(* for its 100 ms or no completion will come.                              *)
TxTimeout ==
  /\ snd = "wait" /\ tx_sem = 0 /\ txq = 0
  /\ pc = "alloc" \/ ~Completion
  /\ snd' = "idle"
  /\ UNCHANGED <<chip, ir, int_sem, tx_sem, link, thread>>

-----------------------------------------------------------------------------
Chip == Transmitted \/ PhyChanges \/ \E f \in Frames : Receive(f)

Thread ==
  \/ IfaceInit \/ Monitor \/ Wake \/ ReadIr \/ LeaveLoop \/ ClearIr \/ GiveTx
  \/ RxBegins \/ Allocated \/ AllocFails \/ CopyFragment \/ Deliver \/ Release

Sender == Send \/ TakeTx \/ TxTimeout

Next == Chip \/ HwOpen \/ HwUnmask \/ Thread \/ Sender

Spec == Init /\ [][Next]_vars

(* The thread is cooperative and every wait of it has a timeout; the board *)
(* brings its interface up at boot.  Nothing is asked of the cable, of the *)
(* stack's senders or of its memory.                                       *)
FairSpec == Spec /\ WF_vars(Thread) /\ WF_vars(HwOpen \/ HwUnmask)

-----------------------------------------------------------------------------
TypeOK ==
  /\ mode \in {"reset", "masked", "on"} /\ ir \subseteq IrBits /\ irq \subseteq IrBits
  /\ mem \in [0..RX_MEM - 1 -> Nat] /\ wr \in 0..Wrap - 1 /\ rd \in 0..Wrap - 1
  /\ stored \in Seq(Frames) /\ txq \in Nat /\ phy \in Speeds \cup {Down}
  /\ int_sem \in 0..SemLimit /\ tx_sem \in 0..SemLimit
  /\ is_up \in BOOLEAN /\ speed \in Speeds \cup {0}
  /\ pc \in {"init", "sleep", "loop", "clear", "give", "rx", "alloc", "copy", "deliver",
             "handed", "refused"}
  /\ pkt \in Seq(Nat) /\ snd \in {"idle", "wait"} /\ starved \in BOOLEAN

(* No interrupt is lost: while the pin is active there is no further edge, *)
(* so either a wakeup is stored or the thread is inside its loop.          *)
EventSeen == Pin => int_sem > 0 \/ pc \notin {"init", "sleep"}

(* No frame is stranded: one that is in the memory is announced, or the    *)
(* thread is on its way to it, unless there was no buffer for it.  (A chip *)
(* that does not set RECV again leaves it until another one comes.)        *)
OnItsWay ==
  \/ "RECV" \in irq /\ pc \in {"clear", "give"}
  \/ pc \in {"rx", "alloc", "copy", "deliver", "handed", "refused"}

FrameAnnounced == Rearm /\ stored # <<>> => "RECV" \in ir \/ OnItsWay \/ starved

(* A sender never waits for a completion that cannot come: bits set        *)
(* between the read and the clear survive it, and several completions in   *)
(* one bit still free the one sender that waits.                           *)
CompletionNotLost == snd = "wait" => Completion

(* Sends run at most one frame ahead of the wire, after any number of      *)
(* timeouts and of completions that came late or together.                 *)
OneAhead == txq <= 2

(* The ring, its wrapping pointers and the fragments implement the queue.  *)
Up == INSTANCE FrameQueue WITH
        queue <- IF pc = "handed" THEN Tail(stored) ELSE stored,
        up    <- IF pc = "handed" THEN <<pkt>> ELSE <<>>
HandsUpInOrder == Up!Spec

(* What was announced is fetched: the oldest frame leaves the chip unless  *)
(* there is no buffer for it.                                              *)
FramesMove == []<>(stored = <<>> \/ starved \/ pc \in {"handed", "refused"})

(* A cable that stays plugged in is reported in spite of traffic, if the   *)
(* thread catches up with it now and then; its removal, or another change, *)
(* once interrupts stop.                                                   *)
Reported == is_up = (phy # Down) /\ speed = IF phy = Down THEN 0 ELSE phy

LinkIsReported ==
  /\ <>[](phy # Down) /\ []<>(pc = "sleep") => <>[]is_up
  /\ <>[](pc = "sleep" /\ int_sem = 0) => []<>Reported
=============================================================================
