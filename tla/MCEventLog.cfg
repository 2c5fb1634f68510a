SPECIFICATION Spec
CONSTANTS
  Writers = {satel, tuya}
  EVENT_LOG_MAX = 3
  MaxEvents = 5
  JsonHead = 1
  EntryMax = 2
  JsonStop = 4
  JsonTail = 1
  JsonSize = 9
INVARIANTS TypeOK RingIsLastAlone JsonFits
