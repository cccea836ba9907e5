SPECIFICATION Spec
CONSTANTS
    MaxDays = 1154
    MaxHolidays = 2
    WindowDate <- WindowDates
    HolidayDate <- HolidayDates
    NoRequest = NoRequest
INVARIANTS
    TypeOK
    WindowIsThreeYears
    RangeIsEveryDay
    RangeAgreesWithDays
CHECK_DEADLOCK FALSE
