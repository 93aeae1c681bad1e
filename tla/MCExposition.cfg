SPECIFICATION ExpositionSpec
CONSTANTS
    Buckets = 2
    Durations = {1, 2, 3}
    Scrapers = {s1, s2}
    MaxObservations = 3
SYMMETRY ScraperSymmetry
INVARIANTS
    PagesAreExact
    SeriesHaveNoGaps
\* MaxObservations have been made and every page rendered.
CHECK_DEADLOCK FALSE
