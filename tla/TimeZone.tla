------------------------------ MODULE TimeZone ------------------------------
(***************************************************************************)
(* The local half of TimeZone (base/time_zone.cc): a zone is a table of    *)
(* transitions, searched by UTC time for toLocalTime() and by local time   *)
(* for fromLocalTime().                                                    *)
(*                                                                         *)
(* The conversions are compared with Date's calendar on some of the days   *)
(* that it walks, in zones whose first transition comes soon after the day *)
(* begins.  Zones are the ones whose clock is put forward and back by one  *)
(* hour, and stays so for longer than that.                                *)
(***************************************************************************)
EXTENDS Date, Sequences, SequencesExt, FiniteSetsExt, Functions

CONSTANTS
  Offsets,         \* standard offsets from UTC, in seconds
  Spans,           \* how long a local time type stays in force
  MaxTransitions,  \* bound: transitions of a zone
  ZoneDays,        \* the days on which zones are looked at
  Passed           \* seconds after the beginning of the day that are converted

ASSUME TimeZoneAssumption ==
  /\ MaxTransitions \in Nat /\ Passed \subseteq Nat
  /\ \A span \in Spans : span > 3600

Localtime(offset, dst) == [gmtOffset |-> offset, isDst |-> dst]
-----------------------------------------------------------------------------
\* readTimeZoneFile(): the table of a zone file's transition times, of the types
\* they bring and of the types.  The file may be missing, be none of a zone or end
\* early; then data keeps the types that could be read, and no transitions, and true
\* is returned all the same.
readTimeZoneFile(trans, idxs, types, typesRead) ==
  [localtimes |-> SubSeq(types, 1, typesRead),
   transitions |->
     [i \in (IF typesRead = Len(types) THEN DOMAIN trans ELSE {}) |->
        [gmttime |-> trans[i], localtime |-> trans[i] + types[idxs[i]].gmtOffset,
         localtimeIdx |-> idxs[i]]]]

\* The key by which Comp compares.
Key(transition, compareGmt) ==
  IF compareGmt THEN transition.gmttime ELSE transition.localtime

\* std::lower_bound(): the first transition that is not before the key, or the end.
lower_bound(transitions, key, compareGmt) ==
  Min({i \in DOMAIN transitions : Key(transitions[i], compareGmt) >= key}
      \cup {Len(transitions) + 1})

\* The search; front() of an empty vector is undefined.
findLocaltime(d, key, compareGmt) ==
  LET trans == d.transitions
      i == lower_bound(trans, key, compareGmt)
  IN  IF trans = <<>> \/ key < Key(trans[1], compareGmt) THEN d.localtimes[1]
      ELSE IF i > Len(trans) THEN d.localtimes[Last(trans).localtimeIdx]
      ELSE IF Key(trans[i], compareGmt) # key THEN d.localtimes[trans[i - 1].localtimeIdx]
      ELSE d.localtimes[trans[i].localtimeIdx]

\* gmtime_r() and timegm() of the C library.
gmtime_r(seconds) == toUtcTime(seconds)
timegm(tm) ==
  fromUtcTime(tm.date.year, tm.date.month, tm.date.day, tm.time.hour, tm.time.min, tm.time.sec)

\* A struct tm: the civil time, and tm_isdst.
toLocalTime(d, seconds) ==
  LET local == findLocaltime(d, seconds, TRUE)
  IN  [tm |-> gmtime_r(seconds + local.gmtOffset), isdst |-> local.isDst]

\* Mutant: the hour that is passed twice is not told apart by tm_isdst.
FromLocalTimeOnce(d, localTm) ==
  timegm(localTm.tm) - findLocaltime(d, timegm(localTm.tm), FALSE).gmtOffset

\* fromLocalTime(): a time of the hour that is passed twice is looked up as its
\* second passing; tm_isdst says that the first is meant.
fromLocalTime(d, localTm) ==
  LET seconds == timegm(localTm.tm)
      local == findLocaltime(d, seconds, FALSE)
      tryTm == toLocalTime(d, seconds - local.gmtOffset)
      earlier == /\ localTm.isdst /\ ~tryTm.isdst
                 /\ tryTm.tm.time.hour = localTm.tm.time.hour
                 /\ tryTm.tm.time.min = localTm.tm.time.min
  IN  (IF earlier THEN seconds - 3600 ELSE seconds) - local.gmtOffset
-----------------------------------------------------------------------------
\* When the current day begins.
Midnight == Instant([hour |-> 0, min |-> 0, sec |-> 0])

\* The zone files: standard time and daylight saving time take turns, beginning
\* with either; and files that cannot be read to the end of their types.
Zones ==
  UNION {{readTimeZoneFile(
            [i \in 1 .. n |-> Midnight + SumFunctionOnSet(spans, 1 .. i)],
            [i \in 1 .. n |-> 1 + (i % 2)],
            IF dst THEN <<Localtime(offset + 3600, TRUE), Localtime(offset, FALSE)>>
                   ELSE <<Localtime(offset, FALSE), Localtime(offset + 3600, TRUE)>>,
            2) :
            spans \in [1 .. n -> Spans], offset \in Offsets, dst \in BOOLEAN} :
         n \in 0 .. MaxTransitions}
  \cup {readTimeZoneFile(<<Midnight>>, <<1>>,
          <<Localtime(offset, FALSE), Localtime(offset + 3600, TRUE)>>, typesRead) :
          offset \in Offsets, typesRead \in 0 .. 1}

ZoneDay == <<year, month, day>> \in ZoneDays

\* The transitions of zone d up to a time.
Past(d, seconds) == {i \in DOMAIN d.transitions : d.transitions[i].gmttime <= seconds}

\* The local time type in force in zone d at a time: that of the last transition, and
\* before the first one the first that is not daylight saving time, if there is one.
InForce(d, seconds) ==
  LET past == Past(d, seconds)
      standard == {i \in DOMAIN d.localtimes : ~d.localtimes[i].isDst}
  IN  d.localtimes[IF past # {} THEN d.transitions[Max(past)].localtimeIdx
                   ELSE IF standard # {} THEN Min(standard) ELSE 1]

\* findLocaltime() takes the first type of the file before the first transition,
\* whichever it is: its FIXME.
TakesDstFirst(d, seconds) == Past(d, seconds) = {} /\ d.localtimes[1].isDst

\* On the days of ZoneDays, in a zone of whose file a type could be read:
\* toLocalTime() applies the offset that is in force at the time, from the very
\* instant of a transition on, except before the first transition of a zone that
\* begins with daylight saving time; and fromLocalTime() undoes it for every instant,
\* also for both passings of the hour that an autumn transition repeats.
LocalTimesConvert ==
  ZoneDay =>
    \A d \in Zones, p \in Passed :
      LET t == Midnight + p
          local == InForce(d, t)
      IN  d.localtimes # <<>> =>
            /\ TakesDstFirst(d, t)
               \/ toLocalTime(d, t) =
                    [tm |-> toUtcTime(t + local.gmtOffset), isdst |-> local.isDst]
            /\ fromLocalTime(d, toLocalTime(d, t)) = t

\* What the comment in findLocaltime() asks for: before the first transition the first
\* type that is not daylight saving time is in force.
StandardTimeFirst ==
  ZoneDay =>
    \A d \in Zones, p \in Passed :
      d.localtimes # <<>> =>
        findLocaltime(d, Midnight + p, TRUE) = InForce(d, Midnight + p)

\* A TimeZone that was made from a file, which valid() always calls valid, has a type
\* to convert with: localtimes.front() is there.
ValidZoneHasType == ZoneDay => \A d \in Zones : d.localtimes # <<>>

\* The closed formulas of date.cc and the conversions to and from UTC agree with the
\* calendar on every day, and the conversions to and from local time on ZoneDays.
CalendarAgrees == CivilDays /\ UtcTimes /\ LocalTimesConvert
=============================================================================
