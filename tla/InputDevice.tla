----------------------------- MODULE InputDevice -----------------------------
(***************************************************************************)
(* The virtio input devices, keyboard, mouse and tablet (virtio.c): the    *)
(* events sent to the guest, one buffer each, and the answers to the       *)
(* queries the driver writes into the configuration space.                 *)
(*                                                                         *)
(* An event is [kind, code, val].  The guest takes KEY events as they come *)
(* and acts on a group of events when SYN closes it.                       *)
(***************************************************************************)
EXTENDS Integers, Sequences, FiniteSets, FiniteSetsExt, SequencesExt

CONSTANTS Buttons,  \* buttons_list, as 1 .. n
          Keys,     \* key codes
          MaxRoom,  \* bound on the buffers the driver offers
          MaxSends  \* bound on the events the host sends

VARIABLES type,
          buttons_state,  \* buttons the device believes pressed
          ready,          \* of the event queue
          buffers,           \* avail_idx - last_avail_idx
          pressed,        \* guest: keys and buttons that are down
          open,           \* guest: kinds of the events since the last SYN
          cut,            \* history: a call has returned -1 half way
          told,           \* the buttons of the last call that succeeded
          sends,
          cfg             \* config: select, subsel, size, bits

invars == <<type, buttons_state, ready, buffers, pressed, open, cut, told, sends, cfg>>

Types == {"keyboard", "mouse", "tablet"}

InInit ==
    /\ type \in Types
    /\ buttons_state = {} /\ ready = FALSE /\ buffers = 0 /\ pressed = {} /\ open = {}
    /\ cut = FALSE /\ told = {} /\ sends = 0
    /\ cfg = [select |-> "unset", subsel |-> "none", size |-> 0, bits |-> {}]

-----------------------------------------------------------------------------
Event(kind, code, val) == [kind |-> kind, code |-> code, val |-> val]
Syn == Event("syn", 0, 0)

(* virtio_input_queue_event, for each of events in turn, until the queue   *)
(* is not ready or has no buffer.                                          *)
Delivered(events) == IF ready THEN Min({Len(events), buffers}) ELSE 0

(* What the guest makes of them. *)
Take(events) ==
    LET key(e, down) == IF e.kind # "key" THEN down
                        ELSE IF e.val = 1 THEN down \cup {e.code} ELSE down \ {e.code}
        group(e, kinds) == IF e.kind = "syn" THEN {} ELSE kinds \cup {e.kind}
    IN /\ pressed' = FoldLeft(LAMBDA d, e : key(e, d), pressed, events)
       /\ open' = FoldLeft(LAMBDA k, e : group(e, k), open, events)
       /\ buffers' = buffers - Len(events)

(* One call that sends events: those that find a buffer go out. *)
Call(events) ==
    LET n == Delivered(events)
    IN /\ sends < MaxSends /\ sends' = sends + 1
       /\ Take(SubSeq(events, 1, n))
       /\ cut' = (cut \/ (n > 0 /\ n < Len(events)))
       /\ UNCHANGED <<type, ready, cfg>>

(* virtio_input_send_key_event. *)
SendKey(code, down) ==
    /\ type = "keyboard"
    /\ Call(<<Event("key", code, down), Syn>>)
    /\ UNCHANGED <<buttons_state, told>>

(* A KEY event for each button that has changed. *)
KeyEvents(new) ==
    LET list == SelectSeq(SetToSortSeq(Buttons, <),
                          LAMBDA b : (b \in new) # (b \in buttons_state))
    IN [i \in DOMAIN list |-> Event("key", list[i], IF list[i] \in new THEN 1 ELSE 0)]

Motion(dz) ==
    LET kind == IF type = "mouse" THEN "rel" ELSE "abs"
    IN <<Event(kind, "x", 0), Event(kind, "y", 0)>>
       \o (IF dz # 0 THEN <<Event("rel", "wheel", dz)>> ELSE <<>>)

\* Mutated form: the group is not closed.
MouseEvents_Open(dz, new) == Motion(dz) \o KeyEvents(new)
MouseEvents(dz, new) == Motion(dz) \o KeyEvents(new) \o <<Syn>>

(* virtio_input_send_mouse_event: buttons_state follows once all the KEY   *)
(* events are out.                                                         *)
SendMouse(dz, new) ==
    LET before == Len(Motion(dz) \o KeyEvents(new))
        all    == MouseEvents(dz, new)
    IN /\ type \in {"mouse", "tablet"}
       /\ Call(all)
       /\ buttons_state' = IF Delivered(all) >= before THEN new ELSE buttons_state
       /\ told' = IF Delivered(all) = Len(all) THEN new ELSE told

(* The driver makes the queue ready and offers a buffer.  The LED updates  *)
(* of the status queue are consumed and nothing else (recv_request).       *)
Offer ==
    /\ buffers < MaxRoom
    /\ ready' = TRUE /\ buffers' = buffers + 1
    /\ UNCHANGED <<type, buttons_state, pressed, open, cut, told, sends, cfg>>

-----------------------------------------------------------------------------
Selects == {"unset", "name", "serial", "devids", "prop", "ev", "abs"}
Subsels == {"none", "key", "rel", "abs", "rep"}

(* What the device has to tell about a kind of event. *)
EvBits(subsel) ==
    CASE type = "keyboard" /\ subsel = "key" -> [size |-> 16, bits |-> {"all"}]
      [] type # "keyboard" /\ subsel = "key" -> [size |-> 64, bits |-> Buttons]
      [] type = "mouse" /\ subsel = "rel" -> [size |-> 2, bits |-> {"x", "y", "wheel"}]
      [] type = "tablet" /\ subsel = "rel" -> [size |-> 2, bits |-> {"wheel"}]
      [] type = "tablet" /\ subsel = "abs" -> [size |-> 1, bits |-> {"x", "y"}]
      [] type = "keyboard" /\ subsel = "rep" -> [size |-> 1, bits |-> cfg.bits]
      [] OTHER -> [size |-> 0, bits |-> cfg.bits]

EvAnswer(c) == [c EXCEPT !.size = EvBits(c.subsel).size, !.bits = EvBits(c.subsel).bits]

(* virtio_input_config_write: the answer to the query now in the space.    *)
(* The serial number, ids and properties have none; a query about an axis  *)
(* that is not there leaves the answer before it.                          *)
config_write(c) ==
    CASE c.select = "unset" -> c
      [] c.select = "name" -> [c EXCEPT !.size = 12, !.bits = {type}]
      [] c.select = "ev" -> EvAnswer(c)
      [] c.select = "abs" ->
            IF type = "tablet" /\ c.subsel \in {"none", "key"}    \* 0 and 1
            THEN [c EXCEPT !.size = 20, !.bits = {"scale"}] ELSE c
      [] OTHER -> [c EXCEPT !.size = 0]

(* The driver writes one byte of the query. *)
WriteSelect(sel) ==
    /\ cfg' = config_write([cfg EXCEPT !.select = sel])
    /\ UNCHANGED <<type, buttons_state, ready, buffers, pressed, open, cut, told, sends>>
WriteSubsel(sub) ==
    /\ cfg' = config_write([cfg EXCEPT !.subsel = sub])
    /\ UNCHANGED <<type, buttons_state, ready, buffers, pressed, open, cut, told, sends>>

InEvents ==
    \/ \E k \in Keys, down \in {0, 1} : SendKey(k, down)
    \/ \E dz \in {0, 1}, new \in SUBSET Buttons : SendMouse(dz, new)
    \/ Offer
InConfig ==
    \/ \E sel \in Selects : WriteSelect(sel)
    \/ \E sub \in Subsels : WriteSubsel(sub)

-----------------------------------------------------------------------------
(* The guest's buttons are those of the last mouse event that was sent     *)
(* whole, and buttons_state says the same, as long as no event was cut     *)
(* short by a full queue.  After that a button may stay pressed: a KEY     *)
(* event that went out before the cut is not in buttons_state.             *)
ButtonsAgree ==
    type # "keyboard" /\ ~cut => pressed = told /\ buttons_state = told

(* A group that begins is closed: only a call cut short leaves the guest   *)
(* with events that wait for a SYN.                                        *)
GroupsClosed == open # {} => cut

(* The answer the driver reads is that to its query, in whatever order it  *)
(* wrote the two bytes and whatever it asked before, for every query but   *)
(* that of an axis the device does not have.                               *)
AnswerOfQuery ==
    /\ cfg.select = "name" => cfg.size > 0 /\ cfg.bits = {type}
    /\ cfg.select = "ev" =>
          CASE cfg.subsel = "key" -> cfg.size > 0
            [] cfg.subsel = "rel" -> cfg.size = (IF type = "keyboard" THEN 0 ELSE 2)
                                     /\ (type = "tablet" => "x" \notin cfg.bits)
            [] cfg.subsel = "abs" -> (cfg.size > 0) = (type = "tablet")
            [] cfg.subsel = "rep" -> (cfg.size > 0) = (type = "keyboard")
            [] OTHER -> cfg.size = 0
    /\ cfg.select \in {"serial", "devids", "prop"} => cfg.size = 0

(* What the driver learns of an input device is true: its buttons, its     *)
(* groups of events, and the answers of its configuration space.           *)
DriverSeesInput == ButtonsAgree /\ GroupsClosed /\ AnswerOfQuery
=============================================================================
