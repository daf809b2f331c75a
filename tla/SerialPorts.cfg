SPECIFICATION PortsSpec
CONSTANTS
    Payloads <- ModelWords
    NoiseBytes = {0, 17, 34, 51, 68, 85, 102}
    MaxFaults = 1
    Reports <- ModelReports
    ImuNoise = {0, 1, 5, 90, 170, 187}
    MaxImuFaults = 1
    MaxUpdates = 3
    BufferSize = 7
    MaxLine = 9
PROPERTIES
    CleanFrameDelivered
    OnlySentDataPublished
    CleanReportPublished
    ChangedReportDropped
    OverlongLineCutsOneNumber
INVARIANT NoRateSkipped
