-------------------------------- MODULE Devices --------------------------------
(***************************************************************************)
(* The parts behind a bus, one of which each behaviour is about: the        *)
(* EEPROM (whose names are this module's), the register accessors of the    *)
(* sensors, the data rates, the paged memory, the object of one sensor, the *)
(* MAC's clock, the dates of its times, the PHY, the expanders' pins, or    *)
(* the bits of a message.  They share no state; the others stay in an       *)
(* initial state.                                                           *)
(***************************************************************************)
EXTENDS EepromDirectory

CONSTANTS
    None,
    AllAccessors,                                               \* RegisterDriver
    Rates,                                                      \* DataRate
    PageSize, Pages, PagedLengths, MaxPagedCalls,               \* PageAccess
    Word, Nanos, Starts, Settings, MaxTicks, MaxRequests,       \* PtpClock
    DateWord, DateNanos, SecsPerDay, Offsets, FirstDays, Span,  \* PtpDate
    MaxPhyCalls,                                                \* Lan8670
    Chips, Width, MaxPinCalls,                                  \* Expander
    Uses, Unread, MaxFailures,                                  \* Lsm6dsoObject
    ByteBits, WordBits, StreamBytes, Values, MaxAdds            \* Bitstream

VARIABLES
    part,
    op, reg_call, value, reg_pc, bank, device, register, ret, reg_result, stored, failed,
    first,                                                      \* RegisterDriver
    chip, odr, haodr_sel, fsm_enable, fsm_odr, asked, covered,  \* DataRate
    paged_call, paged_pc, paged_ret, paged_i, paged_bytes, paged_bank, page_rw, page_sel,
    page_address, paged_memory, paged_calls, paged_failed, paged_first,     \* PageAccess
    kind, now, clock, macstsur, clock_pc, half, words, clock_times, clock_offset, ticks, requests, at,
    began, torn, lost,                                          \* PtpClock
    day, second, utc,                                           \* PtpDate
    fields, mode, selected, phy_call, phy_pc, phy_data, got, phy_calls, phy_allowed, \* Lan8670
    expander, high, pin_call, pin_pc, pin_data, pin_calls, pin_allowed, mixed,  \* Expander
    uses, sensor, failures, last_asked, stray, on, off, begun,  \* Lsm6dsoObject
    stream, total_bits, overflow, added                         \* Bitstream

Accessing == INSTANCE RegisterDriver WITH
    Accessors <- AllAccessors, call <- reg_call, pc <- reg_pc, result <- reg_result

Rating == INSTANCE DataRate

Paging == INSTANCE PageAccess WITH
    Lengths <- PagedLengths, MaxCalls <- MaxPagedCalls,
    call <- paged_call, pc <- paged_pc, ret <- paged_ret, i <- paged_i, bytes <- paged_bytes,
    bank <- paged_bank, memory <- paged_memory, calls <- paged_calls, failed <- paged_failed,
    first <- paged_first

Timing == INSTANCE PtpClock WITH pc <- clock_pc, t <- clock_times, offset <- clock_offset

Dating == INSTANCE PtpDate WITH Word <- DateWord, Nanos <- DateNanos

Linking == INSTANCE Lan8670 WITH
    MaxCalls <- MaxPhyCalls, call <- phy_call, pc <- phy_pc, data <- phy_data,
    calls <- phy_calls, allowed <- phy_allowed

Pinning == INSTANCE Expander WITH
    Users <- Threads, MaxCalls <- MaxPinCalls,
    chip <- expander, call <- pin_call, pc <- pin_pc, data <- pin_data, calls <- pin_calls,
    allowed <- pin_allowed

Sensing == INSTANCE Lsm6dsoObject WITH asked <- last_asked

Streaming == INSTANCE Bitstream WITH bytes <- StreamBytes, data <- stream

ASSUME DevicesAssumption ==
    /\ Accessing!AccessorsAssumption /\ Accessing!FieldsAssumption
    /\ Rating!RatesAssumption
    /\ Paging!PagesAssumption
    /\ Timing!TimeAssumption /\ Dating!TimeAssumption
    /\ Pinning!PinsAssumption
    /\ Streaming!WidthAssumption

eepromVars == vars
registersVars == <<op, reg_call, value, reg_pc, bank, device, register, ret, reg_result, stored,
                   failed, first>>
ratesVars == <<chip, odr, haodr_sel, fsm_enable, fsm_odr, asked, covered>>
pagesVars == <<paged_call, paged_pc, paged_ret, paged_i, paged_bytes, paged_bank, page_rw,
               page_sel, page_address, paged_memory, paged_calls, paged_failed, paged_first>>
clockVars == <<kind, now, clock, macstsur, clock_pc, half, words, clock_times, clock_offset, ticks,
               requests, at, began, torn, lost>>
datesVars == <<day, second, utc>>
phyVars == <<fields, mode, selected, phy_call, phy_pc, phy_data, got, phy_calls, phy_allowed>>
pinsVars == <<expander, high, pin_call, pin_pc, pin_data, pin_calls, pin_allowed, mixed>>
objectVars == <<uses, sensor, failures, last_asked, stray, on, off, begun>>
streamVars == <<stream, total_bits, overflow, added>>
allVars == <<part, eepromVars, registersVars, ratesVars, pagesVars, clockVars, datesVars, phyVars,
             pinsVars, objectVars, streamVars>>

\* Of the parts that may begin in several states, the others begin in one.
DevicesInit ==
    /\ part \in {"eeprom", "registers", "rates", "pages", "clock", "dates", "phy", "pins", "object",
              "stream"}
    /\ part # "clock" => kind = "hard" /\ now = CHOOSE s \in Starts : TRUE
    /\ part # "dates" => day = (CHOOSE d \in FirstDays : TRUE) /\ utc = CHOOSE s \in Offsets : TRUE
    /\ part # "rates" => chip = "LSM6DSO"
    /\ part # "pins" => expander = CHOOSE c \in Chips : TRUE
    /\ part # "object" => uses = CHOOSE s \in Uses : TRUE
    /\ part # "registers" => op = CHOOSE x \in AllAccessors : TRUE
    /\ Init /\ Accessing!Init /\ Rating!Init /\ Paging!Init /\ Timing!Init /\ Dating!Init
    /\ Linking!Init /\ Pinning!Init /\ Sensing!Init /\ Streaming!bitstream_init
    /\ part # "registers" => \A b \in Accessing!Banks : device[b] = 0

DevicesNext ==
    /\ UNCHANGED part
    /\ \/ /\ part = "eeprom" /\ Next
          /\ UNCHANGED <<registersVars, ratesVars, pagesVars, clockVars, datesVars,
                         phyVars, pinsVars, objectVars, streamVars>>
       \/ /\ part = "registers" /\ Accessing!Next
          /\ UNCHANGED <<eepromVars, ratesVars, pagesVars, clockVars, datesVars,
                         phyVars, pinsVars, objectVars, streamVars>>
       \/ /\ part = "rates" /\ Rating!Next
          /\ UNCHANGED <<eepromVars, registersVars, pagesVars, clockVars, datesVars,
                         phyVars, pinsVars, objectVars, streamVars>>
       \/ /\ part = "pages" /\ Paging!Next
          /\ UNCHANGED <<eepromVars, registersVars, ratesVars, clockVars, datesVars,
                         phyVars, pinsVars, objectVars, streamVars>>
       \/ /\ part = "clock" /\ Timing!Next
          /\ UNCHANGED <<eepromVars, registersVars, ratesVars, pagesVars, datesVars,
                         phyVars, pinsVars, objectVars, streamVars>>
       \/ /\ part = "dates" /\ Dating!Next
          /\ UNCHANGED <<eepromVars, registersVars, ratesVars, pagesVars, clockVars,
                         phyVars, pinsVars, objectVars, streamVars>>
       \/ /\ part = "phy" /\ Linking!Next
          /\ UNCHANGED <<eepromVars, registersVars, ratesVars, pagesVars, clockVars,
                         datesVars, pinsVars, objectVars, streamVars>>
       \/ /\ part = "pins" /\ Pinning!Next
          /\ UNCHANGED <<eepromVars, registersVars, ratesVars, pagesVars, clockVars,
                         datesVars, phyVars, objectVars, streamVars>>
       \/ /\ part = "object" /\ Sensing!Next
          /\ UNCHANGED <<eepromVars, registersVars, ratesVars, pagesVars, clockVars,
                         datesVars, phyVars, pinsVars, streamVars>>
       \/ /\ part = "stream" /\ Streaming!Next
          /\ UNCHANGED <<eepromVars, registersVars, ratesVars, pagesVars, clockVars,
                         datesVars, phyVars, pinsVars, objectVars>>

DevicesSpec == DevicesInit /\ [][DevicesNext]_allVars

\* The instances' properties, under their names; the parts that stay in an
\* initial state need not be looked at.
\* What a setter stored, its getter reports (RegisterDriver); what was added
\* to a bit stream can be read from it (Bitstream); the sensors of the object
\* run at the rate last asked for whenever enabled (Lsm6dsoObject).
SetThenGet ==
    /\ part = "registers" => Accessing!SetThenGet
    /\ part = "stream" => Streaming!StreamAsAdded
    /\ part = "object" => Sensing!RateKept
\* A call changes its own fields of the sensors' registers only, whatever
\* fails (RegisterDriver); a call about one event of the sensor changes no
\* other event's route, and leaves nothing of a disabled one (Lsm6dsoObject).
OthersKept ==
    /\ part = "registers" => Accessing!OthersKept
    /\ part = "object" => Sensing!EventsRouted /\ Sensing!NothingLeft
\* Whatever fails, and whichever calls overlap, the PHY's fields are what they
\* were set to (Lan8670), and so are the pins of the expanders (Expander).
FieldsAsSet ==
    /\ part = "phy" => Linking!FieldsAsSet
    /\ part = "pins" => Pinning!PinsAsSet
\* A call returns 0 exactly if nothing failed, and it leaves the user's bank
\* selected when it does, or in the drivers that clean up (RegisterDriver).
FailuresMet ==
    part = "registers" => Accessing!NoFailureHidden /\ Accessing!BankRestored
\* A rate meets the state machines' constraint, and setting one sensor's rate
\* changes no more than the family of the other's (DataRate).
RatesMet == part = "rates" => Rating!RatesMet
\* What a paged write has transferred is in place, what a paged read returns
\* was there, and a call that returns 0 closes its access (PageAccess).
PagedSound == part = "pages" => Paging!PagedSound
\* A request sets the clock to the master's, and a reading is not far from
\* the clock (PtpClock).
ClockFollows == part = "clock" => Timing!ClockFollows
\* The dates of successive seconds follow each other in the calendar (PtpDate).
DatesFollow == part = "dates" => Dating!DatesFollow
================================================================================
