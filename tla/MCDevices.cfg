\* EEPROM: two threads, three calls in all, on two partitions of four and of
\* two bytes, in pages of three: writes that fit a page, cross one, or do not
\* fit the partition; clears within a page.
\* Paged memory: two pages of two bytes.
\* Clock: seconds of four nanoseconds, up to 16; masters in their first second
\* and later; clocks behind and ahead of them, by less and by more than a
\* second.
\* Dates: days of two seconds, of which 512 fit a ULONG: the first two years,
\* those about 2000, a leap year, and those about 2100, none.
\* Expanders: ports of two pins.
\* Stream: three bytes of three bits, words of four: values that fit all, some
\* or none of the widths, negative when signed, and more bits than there is
\* room for.
\* Bounded calls end every behaviour.
SPECIFICATION DevicesSpec
CONSTANTS
  Threads = {t1, t2}
  PAGE_SIZE = 3
  MemorySize = 6
  MaxCalls = 3
  MaxFaults = 1
  Lengths = {0, 1, 3, 4}
  sizes <- MCSizes
  Clears <- MCClears
  None = None
  AllAccessors <- MCAccessors
  Rates <- MCRates
  PageSize = 2
  Pages = 2
  PagedLengths = {0, 1, 3}
  MaxPagedCalls = 2
  Word = 16
  Nanos = 4
  Starts = {3, 26}
  Settings = {0, 22, 25, 27, 31, 45}
  MaxTicks = 4
  MaxRequests = 2
  DateWord = 1024
  DateNanos = 2
  SecsPerDay = 2
  Offsets <- MCOffsets
  FirstDays = {0, 10900, 47400}
  Span = 800
  MaxPhyCalls = 3
  Chips = {"tca9539", "max7314"}
  Width = 2
  MaxPinCalls = 3
  Uses <- MCUses
  Unread = {0, 7}
  MaxFailures = 1
  ByteBits = 3
  WordBits = 4
  StreamBytes = 3
  Values = {0, 1, 5, 7, 8, 15}
  MaxAdds = 3
SYMMETRY MCSymmetry
INVARIANTS
  WrittenSoFar
  SetThenGet
  OthersKept
  FieldsAsSet
  FailuresMet
  RatesMet
  PagedSound
  ClockFollows
  DatesFollow
PROPERTIES
  NothingElseChanges
CHECK_DEADLOCK FALSE
